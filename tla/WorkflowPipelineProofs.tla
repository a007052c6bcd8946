----------------------- MODULE WorkflowPipelineProofs -----------------------
(***************************************************************************)
(* With one session at a time the workflow engine implements               *)
(* WorkflowPipeline, for any workflows, callers and faults.                *)
(*                                                                         *)
(* The session at work has read what the database has (ViewFits), so that  *)
(* its commits move runs and results only as it has decided on its copies, *)
(* and what it dispatches has all earlier groups behind it, in the copies  *)
(* and in the database.                                                    *)
(***************************************************************************)
EXTENDS WorkflowRunProofs

\* Step q has ended so that its run may go on.
Good(rows, q) ==
    rows.step[q] = "completed" \/ (mode[RunOf[q]] = "continue" /\ rows.step[q] = "failed")

\* Session o knows the database, has ended runs that were running only, and
\* dispatches steps of running runs; the pump has all earlier groups behind it.
ViewFits(o, w, rows, n) ==
    /\ \A r \in Runs :
         /\ o.mine.status[r] # "absent" => o.seen.status[r] = rows.status[r]
         /\ o.mine.status[r] # o.seen.status[r] =>
              /\ o.seen.status[r] = "running"
              /\ \/ o.mine.status[r] \in {"failed", "canceled"}
                 \/ o.mine.status[r] = "completed" /\ \A q \in StepsOf(r) : Good(o.mine, q)
         /\ r \in o.queue => o.mine.status[r] = "running"
    /\ \A q \in Steps :
         /\ Known(o, q) => o.seen.step[q] = rows.step[q]
         /\ o.seen.step[q] \in Over => o.mine.step[q] = o.seen.step[q]
         /\ o.mine.step[q] \in {"running", "completed"} => n[q] > 0
         /\ w = Pump /\ o.mine.status[RunOf[q]] = "running" /\ Group[q] < o.mine.group[RunOf[q]]
              => Good(o.mine, q)
    /\ \A i \in 1..Len(o.calls) : LET c == o.calls[i] IN
         /\ c.op = "dispatch" => o.mine.status[c.run] = "running"
         /\ c.op = "cancel" => \A s \in c.left : o.mine.step[s] # "completed"

\* In the database the groups behind a running run have ended well, a run that
\* does not exist has pending steps, and what runs or has completed was started.
RowsGood(rows, n) ==
    \A q \in Steps :
      /\ rows.status[RunOf[q]] = "running" /\ Group[q] < rows.group[RunOf[q]] => Good(rows, q)
      /\ rows.status[RunOf[q]] = "absent" => rows.step[q] = "pending"
      /\ rows.step[q] \in {"running", "completed"} => n[q] > 0

Solo(sessions) == \A v, w \in Workers : v = w \/ sessions[v] = Idle \/ sessions[w] = Idle

PipeInv(sessions, rows, n) ==
    /\ Solo(sessions)
    /\ \A w \in Workers : ViewFits(sessions[w], w, rows, n)
    /\ RowsGood(rows, n)

\* What ViewFits says of one run and of one step.
LEMMA ViewRun ==
    ASSUME NEW o, NEW w, NEW rows, NEW n, ViewFits(o, w, rows, n), NEW r \in Runs
    PROVE  /\ o.mine.status[r] # "absent" => o.seen.status[r] = rows.status[r]
           /\ o.mine.status[r] # o.seen.status[r] =>
                /\ o.seen.status[r] = "running"
                /\ \/ o.mine.status[r] \in {"failed", "canceled"}
                   \/ o.mine.status[r] = "completed" /\ \A q \in StepsOf(r) : Good(o.mine, q)
           /\ r \in o.queue => o.mine.status[r] = "running"
  BY DEF ViewFits

LEMMA ViewStep ==
    ASSUME NEW o, NEW w, NEW rows, NEW n, ViewFits(o, w, rows, n), NEW q \in Steps
    PROVE  /\ Known(o, q) => o.seen.step[q] = rows.step[q]
           /\ o.seen.step[q] \in Over => o.mine.step[q] = o.seen.step[q]
           /\ o.mine.step[q] \in {"running", "completed"} => n[q] > 0
           /\ w = Pump /\ o.mine.status[RunOf[q]] = "running" /\ Group[q] < o.mine.group[RunOf[q]]
                => Good(o.mine, q)
  BY DEF ViewFits

-----------------------------------------------------------------------------
(* What a step may do to the database, as the pipeline sees it. *)

\* Runs open and end once, completed ones with all their results, and results
\* are final.
Advances(rows) ==
    /\ \A r \in Runs :
         \/ rows.status[r] = db.status[r]
         \/ db.status[r] = "absent" /\ rows.status[r] = "running"
         \/ db.status[r] = "running" /\ rows.status[r] \in {"failed", "canceled"}
         \/ /\ db.status[r] = "running" /\ rows.status[r] = "completed"
            /\ \A q \in StepsOf(r) : Good(rows, q)
    /\ \A q \in Steps :
         \/ rows.step[q] = db.step[q]
         \/ db.step[q] \notin Over /\ (rows.step[q] = "completed" => starts[q] > 0)

\* Step s may start, with `rows` the database after that.
MayStart(s, rows) ==
    /\ db.status[RunOf[s]] = "running"
    /\ \A q \in StepsOf(RunOf[s]) : Group[q] < Group[s] => Good(rows, q)

\* What is shown of every step.
Goes(sessions, rows, n) ==
    /\ PipeInv(sessions, rows, n)
    /\ Advances(rows)
    /\ \A s \in Steps : n[s] = starts[s] \/ (n[s] > 0 /\ MayStart(s, rows))

LEMMA StillAdvances == Advances(db)
  BY DEF Advances

LEMMA Simulates ==
    ASSUME RunsAssumption, TypeOK, TypeOK', mode' = mode, Goes(worker', db', starts')
    PROVE  Pipeline!Next
<1> DEFINE result == [s \in Steps |-> IF db.step[s] \in Over THEN db.step[s] ELSE "open"]
           after == [s \in Steps |-> IF db'.step[s] \in Over THEN db'.step[s] ELSE "open"]
           begun == {s \in Steps : starts[s] > 0}
           started == {s \in Steps : starts'[s] > 0}
<1>1. /\ db'.status \in [Runs -> RunStatuses] /\ after \in [Steps -> {"open", "completed", "failed"}]
      /\ starts \in [Steps -> Nat] /\ starts' \in [Steps -> Nat]
  BY DEF TypeOK, Rows, Over, RunsAssumption
<1>2. /\ Advances(db')
      /\ \A s \in Steps : starts'[s] = starts[s] \/ (starts'[s] > 0 /\ MayStart(s, db'))
  BY DEF Goes
<1>3. begun \subseteq started /\ started \subseteq Steps
  BY <1>1, <1>2
<1>4. ASSUME NEW r \in Runs
      PROVE  \/ db'.status[r] = db.status[r]
             \/ db.status[r] = "absent" /\ db'.status[r] = "running"
             \/ db.status[r] = "running" /\ db'.status[r] \in {"failed", "canceled"}
             \/ /\ db.status[r] = "running" /\ db'.status[r] = "completed"
                /\ \A s \in {q \in Steps : RunOf[q] = r} :
                     after[s] = "completed" \/ (mode[r] = "continue" /\ after[s] = "failed")
  BY <1>2 DEF Advances, StepsOf, Good, Over
<1>5. ASSUME NEW s \in Steps
      PROVE  \/ after[s] = result[s]
             \/ result[s] = "open" /\ after[s] = "failed"
             \/ result[s] = "open" /\ after[s] = "completed" /\ s \in begun
  BY <1>1, <1>2 DEF Advances, Over
<1>6. ASSUME NEW s \in started \ begun
      PROVE  /\ db.status[RunOf[s]] = "running"
             /\ \A q \in {q \in Steps : RunOf[q] = RunOf[s] /\ Group[q] < Group[s]} :
                  after[q] = "completed" \/ (mode[RunOf[s]] = "continue" /\ after[q] = "failed")
  <2>1. s \in Steps /\ MayStart(s, db')
    BY <1>2, <1>6
  <2> QED BY <2>1 DEF MayStart, StepsOf, Good, Over
<1>7. \A r \in Runs : Pipeline!RunMoves(r)
  BY <1>4 DEF Pipeline!RunMoves
<1>8. \A s \in Steps : Pipeline!ResultMoves(s)
  BY <1>5 DEF Pipeline!ResultMoves
<1>9. \A s \in started \ begun : Pipeline!MayBegin(s)
  BY <1>6 DEF Pipeline!MayBegin, Pipeline!Earlier
<1> QED BY <1>1, <1>3, <1>7, <1>8, <1>9 DEF Pipeline!Next, RunStatuses

-----------------------------------------------------------------------------
(* Moves of the session at work. *)
LEMMA IdleViews == ASSUME RunsAssumption, NEW w, NEW rows, NEW n PROVE ViewFits(Idle, w, rows, n)
<1>1. 1..Len(Idle.calls) = {}
  BY DEF Idle
<1>2. \A q \in Steps : RunOf[q] \in Runs
  BY DEF RunsAssumption
<1>3. /\ \A r \in Runs : Idle.mine.status[r] = "absent" /\ Idle.seen.status[r] = "absent"
      /\ \A q \in Steps : Idle.mine.step[q] = "pending" /\ Idle.seen.step[q] = "pending"
      /\ Idle.queue = {}
  BY DEF Idle, Empty
<1> QED BY <1>1, <1>2, <1>3 DEF ViewFits, Known, Over

LEMMA OthersIdle ==
    ASSUME PipeInv(worker, db, starts), NEW w \in Workers, worker[w] # Idle
    PROVE  \A v \in Workers \ {w} : worker[v] = Idle
  BY DEF PipeInv, Solo

LEMMA PipeGoesOn ==
    ASSUME RunsAssumption, worker \in [Workers -> Worker], NEW w \in Workers,
           \A v \in Workers \ {w} : worker[v] = Idle,
           NEW o, Becomes(w, o), NEW rows, NEW n, ViewFits(o, w, rows, n), RowsGood(rows, n)
    PROVE  PipeInv(worker', rows, n)
<1>1. worker'[w] = o /\ \A v \in Workers \ {w} : worker'[v] = Idle
  BY DEF Becomes
<1>2. \A v \in Workers : ViewFits(worker'[v], v, rows, n)
  BY <1>1, IdleViews
<1>3. Solo(worker')
  BY <1>1 DEF Solo
<1> QED BY <1>2, <1>3 DEF PipeInv

\* A commit brings the database to the copies of the session.
LEMMA CommitViews ==
    ASSUME RunsAssumption, TypeOK, StartsInv, OrderInv(worker, db, starts),
           PipeInv(worker, db, starts), NEW w \in Workers
    PROVE  /\ \A r \in Runs : Committed(w).status[r] =
                IF worker[w].mine.status[r] # "absent" THEN worker[w].mine.status[r] ELSE db.status[r]
           /\ \A q \in Steps : Committed(w).step[q] =
                IF Known(worker[w], q) THEN worker[w].mine.step[q] ELSE db.step[q]
           /\ \A r \in Runs : Committed(w).group[r] =
                IF w = Pump /\ worker[w].mine.status[r] # "absent" THEN worker[w].mine.group[r]
                                                                  ELSE db.group[r]
<1> DEFINE o == worker[w]
<1>1. RowsFit(o, w, db) /\ ViewFits(o, w, db, starts)
  BY DEF StartsInv, SessionFits, PipeInv
<1>2. ASSUME NEW r \in Runs
      PROVE  Committed(w).status[r] =
                IF o.mine.status[r] # "absent" THEN o.mine.status[r] ELSE db.status[r]
  <2>1. /\ o.mine.status[r] # "absent" => o.seen.status[r] = db.status[r]
        /\ o.mine.status[r] = "absent" => o.seen.status[r] = "absent"
    BY <1>1 DEF RowsFit, ViewFits
  <2> HIDE DEF o
  <2> QED BY <2>1, CommittedStatus DEF o
<1>3. ASSUME NEW q \in Steps
      PROVE  Committed(w).step[q] = IF Known(o, q) THEN o.mine.step[q] ELSE db.step[q]
  <2>1. StepFits(o, w, db, starts, q)
    BY DEF OrderInv, OrderFits
  <2>2. Known(o, q) => o.seen.step[q] = db.step[q]
    BY <1>1 DEF ViewFits
  <2>3. ~Known(o, q) => o.mine.step[q] = "pending" /\ o.seen.step[q] = "pending"
    BY <2>1 DEF StepFits
  <2> HIDE DEF o
  <2> QED BY <2>2, <2>3, CommittedStep DEF o
<1>4. ASSUME NEW r \in Runs
      PROVE  Committed(w).group[r] =
                IF w = Pump /\ o.mine.status[r] # "absent" THEN o.mine.group[r] ELSE db.group[r]
  <2>1. /\ w # Pump => o.mine.group[r] = o.seen.group[r]
        /\ o.mine.status[r] = "absent" => o.mine.group[r] = o.seen.group[r]
        /\ w = Pump /\ o.mine.status[r] # "absent" => o.seen.group[r] = db.group[r]
    BY <1>1 DEF RowsFit
  <2>2. Committed(w).group[r] = IF o.mine.group[r] # o.seen.group[r] THEN o.mine.group[r] ELSE db.group[r]
    BY DEF Committed, Written, TypeOK, Rows
  <2> HIDE DEF o
  <2> QED BY <2>1, <2>2
<1> HIDE DEF o
<1> QED BY <1>2, <1>3, <1>4 DEF o

LEMMA CommitFits ==
    ASSUME RunsAssumption, TypeOK, StartsInv, OrderInv(worker, db, starts),
           PipeInv(worker, db, starts), NEW w \in Workers, NEW rows, rows = Committed(w)
    PROVE  /\ RowsGood(rows, starts)
           /\ Advances(rows)
           /\ \A s : s.mine = worker[w].mine /\ s.seen = worker[w].mine /\ s.queue = worker[w].queue
                     /\ s.calls = worker[w].calls => ViewFits(s, w, rows, starts)
<1> DEFINE o == worker[w]
<1>1. /\ ViewFits(o, w, db, starts) /\ RowsGood(db, starts)
      /\ StackFits(o, db) /\ \A q \in Steps : StepFits(o, w, db, starts, q)
      /\ RowsFit(o, w, db)
  BY DEF StartsInv, SessionFits, PipeInv, OrderInv, OrderFits
<1>2. /\ \A r \in Runs : rows.status[r] =
                IF o.mine.status[r] # "absent" THEN o.mine.status[r] ELSE db.status[r]
      /\ \A q \in Steps : rows.step[q] = IF Known(o, q) THEN o.mine.step[q] ELSE db.step[q]
      /\ \A r \in Runs : rows.group[r] =
                IF w = Pump /\ o.mine.status[r] # "absent" THEN o.mine.group[r] ELSE db.group[r]
  BY CommitViews
<1>r. \A q \in Steps : RunOf[q] \in Runs
  BY DEF RunsAssumption
<1> HIDE DEF o
<1>3. RowsGood(rows, starts)
  <2> SUFFICES ASSUME NEW q \in Steps
               PROVE  /\ rows.status[RunOf[q]] = "running" /\ Group[q] < rows.group[RunOf[q]]
                           => Good(rows, q)
                      /\ rows.status[RunOf[q]] = "absent" => rows.step[q] = "pending"
                      /\ rows.step[q] \in {"running", "completed"} => starts[q] > 0
    BY DEF RowsGood
  <2>1. /\ db.status[RunOf[q]] = "running" /\ Group[q] < db.group[RunOf[q]] => Good(db, q)
        /\ db.status[RunOf[q]] = "absent" => db.step[q] = "pending"
        /\ db.step[q] \in {"running", "completed"} => starts[q] > 0
    BY <1>1 DEF RowsGood
  <2>2. /\ Known(o, q) => o.seen.step[q] = db.step[q]
        /\ o.seen.step[q] \in Over => o.mine.step[q] = o.seen.step[q]
        /\ o.mine.step[q] \in {"running", "completed"} => starts[q] > 0
        /\ w = Pump /\ o.mine.status[RunOf[q]] = "running" /\ Group[q] < o.mine.group[RunOf[q]]
              => Good(o.mine, q)
    BY <1>1 DEF ViewFits
  <2>3. /\ o.mine.status[RunOf[q]] # "absent" => o.seen.status[RunOf[q]] = db.status[RunOf[q]]
        /\ o.mine.status[RunOf[q]] = "running" => o.seen.status[RunOf[q]] = "running"
    BY <1>1, <1>r DEF ViewFits, StackFits
  <2>4. /\ rows.status[RunOf[q]] = IF Known(o, q) THEN o.mine.status[RunOf[q]] ELSE db.status[RunOf[q]]
        /\ rows.step[q] = IF Known(o, q) THEN o.mine.step[q] ELSE db.step[q]
        /\ rows.group[RunOf[q]] = IF w = Pump /\ Known(o, q) THEN o.mine.group[RunOf[q]]
                                                            ELSE db.group[RunOf[q]]
    BY <1>2, <1>r DEF Known
  <2>5. /\ rows.step[q] = db.step[q] /\ Good(db, q) => Good(rows, q)
        /\ rows.step[q] = o.mine.step[q] /\ Good(o.mine, q) => Good(rows, q)
        /\ Good(db, q) => db.step[q] \in Over
    BY DEF Good, Over
  <2> QED BY <2>1, <2>2, <2>3, <2>4, <2>5 DEF Known
<1>4. Advances(rows)
  <2>1. ASSUME NEW r \in Runs, rows.status[r] # db.status[r]
        PROVE  /\ db.status[r] = "running"
               /\ \/ rows.status[r] \in {"failed", "canceled"}
                  \/ rows.status[r] = "completed" /\ \A q \in StepsOf(r) : Good(rows, q)
    <3>1. o.mine.status[r] # "absent" /\ rows.status[r] = o.mine.status[r]
      BY <1>2, <2>1
    <3>2. o.seen.status[r] = db.status[r] /\ o.mine.status[r] # o.seen.status[r]
      BY <1>1, <2>1, <3>1 DEF ViewFits
    <3>3. /\ o.seen.status[r] = "running"
          /\ \/ o.mine.status[r] \in {"failed", "canceled"}
             \/ o.mine.status[r] = "completed" /\ \A q \in StepsOf(r) : Good(o.mine, q)
      BY <1>1, <3>2 DEF ViewFits
    <3>4. \A q \in StepsOf(r) : rows.step[q] = o.mine.step[q]
      BY <1>2, <3>1 DEF StepsOf, Known
    <3> QED BY <3>1, <3>2, <3>3, <3>4 DEF Good
  <2>2. ASSUME NEW q \in Steps, rows.step[q] # db.step[q]
        PROVE  db.step[q] \notin Over /\ (rows.step[q] = "completed" => starts[q] > 0)
    <3>1. Known(o, q) /\ rows.step[q] = o.mine.step[q]
      BY <1>2, <2>2
    <3>2. /\ o.seen.step[q] = db.step[q]
          /\ o.seen.step[q] \in Over => o.mine.step[q] = o.seen.step[q]
          /\ o.mine.step[q] \in {"running", "completed"} => starts[q] > 0
      BY <1>1, <3>1 DEF ViewFits
    <3> QED BY <2>2, <3>1, <3>2
  <2> QED BY <2>1, <2>2 DEF Advances
<1>5. ASSUME NEW s, s.mine = o.mine, s.seen = o.mine, s.queue = o.queue, s.calls = o.calls
      PROVE  ViewFits(s, w, rows, starts)
  <2>1. \A r \in Runs :
         /\ s.mine.status[r] # "absent" => s.seen.status[r] = rows.status[r]
         /\ s.mine.status[r] = s.seen.status[r]
         /\ r \in s.queue => s.mine.status[r] = "running"
    BY <1>1, <1>2, <1>5 DEF ViewFits
  <2>2. \A q \in Steps :
         /\ Known(s, q) => s.seen.step[q] = rows.step[q]
         /\ s.mine.step[q] = s.seen.step[q]
         /\ s.mine.step[q] \in {"running", "completed"} => starts[q] > 0
         /\ w = Pump /\ s.mine.status[RunOf[q]] = "running" /\ Group[q] < s.mine.group[RunOf[q]]
              => Good(s.mine, q)
    BY <1>1, <1>2, <1>5 DEF ViewFits, Known
  <2>3. \A i \in 1..Len(s.calls) : LET c == s.calls[i] IN
         /\ c.op = "dispatch" => s.mine.status[c.run] = "running"
         /\ c.op = "cancel" => \A q \in c.left : s.mine.step[q] # "completed"
    BY <1>1, <1>5 DEF ViewFits
  <2> QED BY <2>1, <2>2, <2>3 DEF ViewFits
<1> QED BY <1>3, <1>4, <1>5 DEF o

\* A session goes on with what it was to do and records steps that were open.
LEMMA RecordFits ==
    ASSUME NEW old, NEW new, NEW w, NEW rows, NEW n, NEW m, ViewFits(old, w, rows, n),
           old.calls \in Seq(Call), new.calls \in Seq(Call), Continues(new.calls, old.calls),
           new.queue = old.queue, new.seen = old.seen,
           new.mine.status = old.mine.status, new.mine.group = old.mine.group,
           \A q \in Steps : n[q] > 0 => m[q] > 0,
           \A q \in Steps :
             \/ new.mine.step[q] = old.mine.step[q]
             \/ /\ old.mine.step[q] \in {"pending", "running"}
                /\ new.mine.step[q] = "failed" \/ (new.mine.step[q] = "running" /\ m[q] > 0)
    PROVE  ViewFits(new, w, rows, m)
<1>1. \A q \in Steps : Good(old.mine, q) => Good(new.mine, q)
  BY DEF Good
<1>2. \A r \in Runs :
         /\ new.mine.status[r] # "absent" => new.seen.status[r] = rows.status[r]
         /\ new.mine.status[r] # new.seen.status[r] =>
              /\ new.seen.status[r] = "running"
              /\ \/ new.mine.status[r] \in {"failed", "canceled"}
                 \/ new.mine.status[r] = "completed" /\ \A q \in StepsOf(r) : Good(new.mine, q)
         /\ r \in new.queue => new.mine.status[r] = "running"
  BY <1>1 DEF ViewFits, StepsOf
<1>3. ASSUME NEW q \in Steps
      PROVE  /\ Known(new, q) => new.seen.step[q] = rows.step[q]
             /\ new.seen.step[q] \in Over => new.mine.step[q] = new.seen.step[q]
             /\ new.mine.step[q] \in {"running", "completed"} => m[q] > 0
             /\ w = Pump /\ new.mine.status[RunOf[q]] = "running" /\ Group[q] < new.mine.group[RunOf[q]]
                  => Good(new.mine, q)
  BY <1>1 DEF ViewFits, Known, Over
<1>4. ASSUME NEW i \in 1..Len(new.calls)
      PROVE  LET c == new.calls[i] IN
             /\ c.op = "dispatch" => new.mine.status[c.run] = "running"
             /\ c.op = "cancel" => \A s \in c.left : new.mine.step[s] # "completed"
  <2>1. PICK j \in 1..Len(old.calls) :
             /\ new.calls[i] \in Call
             /\ new.calls[i].op = old.calls[j].op
             /\ new.calls[i].run = old.calls[j].run
             /\ new.calls[i].left \subseteq old.calls[j].left
    BY ONLY old.calls \in Seq(Call), new.calls \in Seq(Call), Continues(new.calls, old.calls),
            i \in 1..Len(new.calls), ContinuedCall
  <2>2. /\ old.calls[j].op = "dispatch" => old.mine.status[old.calls[j].run] = "running"
        /\ old.calls[j].op = "cancel" => \A s \in old.calls[j].left : old.mine.step[s] # "completed"
    BY <2>1 DEF ViewFits
  <2>3. new.calls[i].left \subseteq Steps
    BY <2>1 DEF Call
  <2> QED BY <2>1, <2>2, <2>3
<1> QED BY <1>2, <1>3, <1>4 DEF ViewFits

\* The pump has dealt with run r.
LEMMA TurnFits ==
    ASSUME RunsAssumption, NEW old, NEW new, NEW rows, NEW n, ViewFits(old, Pump, rows, n),
           NEW r \in Runs, r \in old.queue, new.queue = old.queue \ {r}, new.seen = old.seen,
           old.seen.status[r] = "running",
           \A x \in Runs \ {r} : /\ new.mine.status[x] = old.mine.status[x]
                                 /\ new.mine.group[x] = old.mine.group[x],
           \/ new.mine.status[r] = "running" \/ new.mine.status[r] = "failed"
           \/ new.mine.status[r] = "completed" /\ \A q \in StepsOf(r) : Good(new.mine, q),
           \A q \in Steps :
             \/ new.mine.step[q] = old.mine.step[q]
             \/ /\ RunOf[q] = r /\ old.mine.step[q] = "running"
                /\ new.mine.step[q] \in {"running", "completed", "failed"},
           \A q \in StepsOf(r) : new.mine.status[r] = "running" /\ Group[q] < new.mine.group[r]
              => Good(new.mine, q),
           \/ new.calls = <<>>
           \/ /\ new.mine.status[r] = "running"
              /\ \E S, s : new.calls = <<CallOn("dispatch", r, S, s)>>
    PROVE  ViewFits(new, Pump, rows, n)
<1>1. \A x \in Runs :
         /\ new.mine.status[x] # "absent" => new.seen.status[x] = rows.status[x]
         /\ new.mine.status[x] # new.seen.status[x] =>
              /\ new.seen.status[x] = "running"
              /\ \/ new.mine.status[x] \in {"failed", "canceled"}
                 \/ new.mine.status[x] = "completed" /\ \A q \in StepsOf(x) : Good(new.mine, q)
         /\ x \in new.queue => new.mine.status[x] = "running"
  <2> SUFFICES ASSUME NEW x \in Runs
               PROVE  /\ new.mine.status[x] # "absent" => new.seen.status[x] = rows.status[x]
                      /\ new.mine.status[x] # new.seen.status[x] =>
                           /\ new.seen.status[x] = "running"
                           /\ \/ new.mine.status[x] \in {"failed", "canceled"}
                              \/ /\ new.mine.status[x] = "completed"
                                 /\ \A q \in StepsOf(x) : Good(new.mine, q)
                      /\ x \in new.queue => new.mine.status[x] = "running"
    OBVIOUS
  <2>1. CASE x = r
    BY SMTT(30), <2>1 DEF ViewFits
  <2>2. CASE x # r
    <3>1. \A q \in StepsOf(x) : new.mine.step[q] = old.mine.step[q]
      BY <2>2 DEF StepsOf
    <3>2. \A q \in StepsOf(x) : Good(old.mine, q) => Good(new.mine, q)
      BY <3>1 DEF Good
    <3> QED BY <2>2, <3>2 DEF ViewFits
  <2> QED BY <2>1, <2>2
<1>2. ASSUME NEW q \in Steps
      PROVE  /\ Known(new, q) => new.seen.step[q] = rows.step[q]
             /\ new.seen.step[q] \in Over => new.mine.step[q] = new.seen.step[q]
             /\ new.mine.step[q] \in {"running", "completed"} => n[q] > 0
             /\ new.mine.status[RunOf[q]] = "running" /\ Group[q] < new.mine.group[RunOf[q]]
                  => Good(new.mine, q)
  <2>1. /\ Known(old, q) => old.seen.step[q] = rows.step[q]
        /\ old.seen.step[q] \in Over => old.mine.step[q] = old.seen.step[q]
        /\ old.mine.step[q] \in {"running", "completed"} => n[q] > 0
        /\ old.mine.status[RunOf[q]] = "running" /\ Group[q] < old.mine.group[RunOf[q]]
              => Good(old.mine, q)
        /\ old.mine.status[r] = "running" /\ RunOf[q] \in Runs
    BY DEF ViewFits, RunsAssumption
  <2>2. CASE RunOf[q] = r
    <3>1. Known(old, q)
      BY <2>1, <2>2 DEF Known
    <3> QED BY <2>1, <2>2, <3>1 DEF StepsOf, Over
  <2>3. CASE RunOf[q] # r
    BY <2>1, <2>3 DEF Known, Good
  <2> QED BY <2>2, <2>3
<1>3. ASSUME NEW i \in 1..Len(new.calls)
      PROVE  LET c == new.calls[i] IN
             /\ c.op = "dispatch" => new.mine.status[c.run] = "running"
             /\ c.op = "cancel" => \A s \in c.left : new.mine.step[s] # "completed"
  <2>1. CASE new.calls = <<>>
    BY <1>3, <2>1
  <2>2. ASSUME NEW S, NEW s, new.calls = <<CallOn("dispatch", r, S, s)>>, new.mine.status[r] = "running"
        PROVE  LET c == new.calls[i] IN
               /\ c.op = "dispatch" => new.mine.status[c.run] = "running"
               /\ c.op = "cancel" => \A q \in c.left : new.mine.step[q] # "completed"
    <3>1. new.calls[i] = CallOn("dispatch", r, S, s)
      BY <1>3, <2>2
    <3> QED BY <2>2, <3>1 DEF CallOn
  <2> QED BY <2>1, <2>2
<1> QED BY <1>1, <1>2, <1>3 DEF ViewFits

-----------------------------------------------------------------------------
(* The steps of a session at work. *)
LEMMA MoreStarted ==
    ASSUME NEW rows, NEW n, NEW m, RowsGood(rows, n), \A q \in Steps : n[q] > 0 => m[q] > 0
    PROVE  RowsGood(rows, m)
  BY DEF RowsGood

\* Session w goes on, without a commit or after one, and records open steps.
LEMMA RecordPipe ==
    ASSUME RunsAssumption, TypeOK, StartsInv, OrderInv(worker, db, starts),
           PipeInv(worker, db, starts), NEW w \in Workers, worker[w] # Idle,
           NEW mine, NEW calls \in Seq(Call), Continues(calls, worker[w].calls),
           mine.status = worker[w].mine.status, mine.group = worker[w].mine.group,
           \A q \in Steps :
             \/ mine.step[q] = worker[w].mine.step[q]
             \/ /\ worker[w].mine.step[q] \in {"pending", "running"}
                /\ mine.step[q] = "failed" \/ (mine.step[q] = "running" /\ starts'[q] > 0),
           \A q \in Steps : starts[q] > 0 => starts'[q] > 0,
           \A q \in Steps : starts'[q] = starts[q] \/ (starts'[q] > 0 /\ MayStart(q, db')),
           \/ Continue(w, mine, calls) /\ db' = db
           \/ CommitAndContinue(w, mine, calls) /\ db' = Committed(w)
    PROVE  Goes(worker', db', starts')
<1> DEFINE old == worker[w]
<1>1. /\ worker \in [Workers -> Worker] /\ old.calls \in Seq(Call)
      /\ \A v \in Workers \ {w} : worker[v] = Idle
      /\ ViewFits(old, w, db, starts) /\ RowsGood(db, starts)
  BY OthersIdle DEF TypeOK, Worker, PipeInv
<1>2. CASE Continue(w, mine, calls) /\ db' = db
  <2> DEFINE new == Session(old.busy, old.queue, calls, old.seen, mine)
  <2>1. Becomes(w, new)
    BY <1>1, <1>2, ContinueBecomes
  <2>2. new.calls = calls /\ new.queue = old.queue /\ new.seen = old.seen /\ new.mine = mine
    BY DEF Session
  <2> HIDE DEF new, old
  <2>3. ViewFits(new, w, db, starts')
    BY ZenonT(30), <1>1, <2>2, RecordFits DEF old
  <2>4. RowsGood(db, starts')
    BY <1>1, MoreStarted
  <2>5. PipeInv(worker', db, starts')
    BY <1>1, <2>1, <2>3, <2>4, PipeGoesOn
  <2> QED BY <1>2, <2>5, StillAdvances DEF Goes
<1>3. CASE CommitAndContinue(w, mine, calls) /\ db' = Committed(w)
  <2> DEFINE saved == Session(old.busy, old.queue, old.calls, old.mine, old.mine)
             new == Session(old.busy, old.queue, calls, old.mine, mine)
  <2>1. Becomes(w, new)
    BY <1>1, <1>3, ContinueBecomes
  <2>2. /\ new.calls = calls /\ new.queue = old.queue /\ new.seen = old.mine /\ new.mine = mine
        /\ saved.calls = old.calls /\ saved.queue = old.queue
        /\ saved.seen = old.mine /\ saved.mine = old.mine
    BY DEF Session
  <2>3. PICK rows : rows = db'
    OBVIOUS
  <2> HIDE DEF new, saved
  <2>4. ViewFits(saved, w, rows, starts) /\ RowsGood(rows, starts) /\ Advances(rows)
    BY <1>3, <2>2, <2>3, CommitFits
  <2>5. PICK m : m = starts'
    OBVIOUS
  <2>8. /\ saved.calls \in Seq(Call) /\ new.calls \in Seq(Call) /\ Continues(new.calls, saved.calls)
        /\ new.queue = saved.queue /\ new.seen = saved.seen
        /\ new.mine.status = saved.mine.status /\ new.mine.group = saved.mine.group
        /\ \A q \in Steps : starts[q] > 0 => m[q] > 0
        /\ \A q \in Steps :
             \/ new.mine.step[q] = saved.mine.step[q]
             \/ /\ saved.mine.step[q] \in {"pending", "running"}
                /\ new.mine.step[q] = "failed" \/ (new.mine.step[q] = "running" /\ m[q] > 0)
    BY <1>1, <2>2, <2>5
  <2>9. ViewFits(new, w, rows, m)
    BY ONLY <2>4, <2>8, RecordFits
  <2>6. RowsGood(rows, starts')
    BY <2>4, MoreStarted
  <2>7. PipeInv(worker', rows, starts')
    BY <1>1, <2>1, <2>5, <2>6, <2>9, PipeGoesOn
  <2> QED BY <2>3, <2>4, <2>7 DEF Goes
<1> QED BY <1>2, <1>3

\* A session ends, without a commit or after one.
LEMMA EndsPipe ==
    ASSUME RunsAssumption, TypeOK, StartsInv, OrderInv(worker, db, starts),
           PipeInv(worker, db, starts), NEW w \in Workers, worker[w] # Idle,
           UNCHANGED starts, worker' = [worker EXCEPT ![w] = Idle], db' = db \/ db' = Committed(w)
    PROVE  Goes(worker', db', starts')
<1>1. PICK rows : rows = db'
  OBVIOUS
<1>2. RowsGood(rows, starts) /\ Advances(rows)
  BY <1>1, CommitFits, StillAdvances DEF PipeInv
<1>3. PipeInv(worker', rows, starts)
  BY <1>2, OthersIdle, IdleViews, PipeGoesOn DEF Becomes, TypeOK
<1> QED BY <1>1, <1>2, <1>3 DEF Goes

\* What a session is to dispatch may start, once it has committed.
LEMMA ReadyToStart ==
    ASSUME RunsAssumption, TypeOK, StartsInv, OrderInv(worker, db, starts),
           PipeInv(worker, db, starts), NEW w \in Workers,
           InCall(w, "dispatch"), NEW s \in Now(w).left
    PROVE  /\ s \in Steps /\ starts[s] = 0
           /\ worker[w].mine.step[s] = "pending"
           /\ worker[w].mine.status[RunOf[s]] = "running"
           /\ db.status[RunOf[s]] = "running"
           /\ \A q \in StepsOf(RunOf[s]) : Group[q] < Group[s] => Good(Committed(w), q)
<1> DEFINE o == worker[w]
<1>1. s \in Steps /\ Dispatches(o.calls, 1, s) /\ Holds(o.calls, s) /\ starts[s] = 0
  BY NextToDispatch, ToDispatch
<1>2. /\ CallFits(o, w, 1, starts) /\ o.calls[1].op = "dispatch" /\ s \in o.calls[1].left
      /\ 1 \in 1..Len(o.calls)
  BY <1>1 DEF StartsInv, SessionFits, Dispatches
<1>3. RunOf[s] = o.calls[1].run /\ RunOf[s] \in Runs
  BY <1>1, <1>2 DEF CallFits, RunsAssumption
<1>4. ViewFits(o, w, db, starts) /\ StackFits(o, db) /\ StepFits(o, w, db, starts, s)
  BY <1>1 DEF PipeInv, OrderInv, OrderFits
<1>5. o.mine.step[s] = "pending" /\ o.mine.status[RunOf[s]] = "running"
  BY <1>1, <1>2, <1>3, <1>4 DEF StepFits, ViewFits
<1>6. db.status[RunOf[s]] = "running"
  <2>1. o.mine.status[RunOf[s]] # "absent" /\ o.seen.status[RunOf[s]] = "running"
    BY <1>3, <1>4, <1>5 DEF StackFits
  <2> QED BY <1>3, <1>4, <2>1 DEF ViewFits
<1>7. ASSUME NEW q \in StepsOf(RunOf[s]), Group[q] < Group[s]
      PROVE  Good(Committed(w), q)
  <2>1. q \in Steps /\ RunOf[q] = RunOf[s] /\ Group[q] \in Nat /\ Group[s] \in Nat
    BY <1>1, <1>7 DEF StepsOf, RunsAssumption
  <2>2. w = Pump /\ Group[s] = o.mine.group[RunOf[s]]
    <3>1. Group[s] # 0
      BY <1>7, <2>1
    <3> QED BY <1>2, <1>3, <3>1 DEF CallFits
  <2>3. Good(o.mine, q) /\ Known(o, q)
    BY <1>4, <1>5, <1>7, <2>1, <2>2 DEF ViewFits, Known
  <2>4. Committed(w).step[q] = o.mine.step[q]
    BY <2>1, <2>3, CommitViews
  <2> QED BY <2>3, <2>4 DEF Good
<1> HIDE DEF o
<1> QED BY <1>1, <1>5, <1>6, <1>7 DEF o

LEMMA CallsNotIdle == \A w : worker[w].calls # <<>> => worker[w] # Idle
  BY DEF Idle

LEMMA TaskPipe ==
    ASSUME RunsAssumption, TypeOK, StartsInv, OrderInv(worker, db, starts),
           PipeInv(worker, db, starts), NEW w \in Workers, DispatchTask(w)
    PROVE  Goes(worker', db', starts')
<1> DEFINE old == worker[w]
<1>1. PICK s \in Now(w).left :
           /\ db' = Committed(w)
           /\ starts' = [starts EXCEPT ![s] = @ + 1]
           /\ CommitAndContinue(w, Mark(old.mine, s, "running"), Visited(w, s))
  BY DEF DispatchTask
<1>2. InCall(w, "dispatch") /\ old.mine \in Rows /\ old # Idle
  BY CallsNotIdle DEF DispatchTask, TypeOK, Worker, InCall
<1>3. /\ s \in Steps /\ starts[s] = 0 /\ old.mine.step[s] = "pending" /\ MayStart(s, db')
      /\ Visited(w, s) \in Seq(Call) /\ Continues(Visited(w, s), old.calls)
  BY <1>1, <1>2, ToDispatch, ReadyToStart DEF MayStart
<1>4. starts'[s] = 1 /\ \A q \in Steps \ {s} : starts'[q] = starts[q]
  BY <1>1, <1>3 DEF TypeOK
<1>5. PICK mine : mine = Mark(old.mine, s, "running")
  OBVIOUS
<1>6. /\ mine.status = old.mine.status /\ mine.group = old.mine.group
      /\ mine.step[s] = "running" /\ \A q \in Steps \ {s} : mine.step[q] = old.mine.step[q]
  BY <1>2, <1>3, <1>5, MarkedRows
<1>7. PICK calls \in Seq(Call) : calls = Visited(w, s)
  BY <1>3
<1>8. /\ \A q \in Steps :
             \/ mine.step[q] = worker[w].mine.step[q]
             \/ /\ worker[w].mine.step[q] \in {"pending", "running"}
                /\ mine.step[q] = "failed" \/ (mine.step[q] = "running" /\ starts'[q] > 0)
      /\ \A q \in Steps : starts[q] > 0 => starts'[q] > 0
      /\ \A q \in Steps : starts'[q] = starts[q] \/ (starts'[q] > 0 /\ MayStart(q, db'))
  <2> SUFFICES ASSUME NEW q \in Steps
               PROVE  /\ \/ mine.step[q] = worker[w].mine.step[q]
                         \/ /\ worker[w].mine.step[q] \in {"pending", "running"}
                            /\ \/ mine.step[q] = "failed"
                               \/ mine.step[q] = "running" /\ starts'[q] > 0
                      /\ starts[q] > 0 => starts'[q] > 0
                      /\ starts'[q] = starts[q] \/ (starts'[q] > 0 /\ MayStart(q, db'))
    OBVIOUS
  <2>1. CASE q = s
    BY <1>3, <1>4, <1>6, <2>1
  <2>2. CASE q # s
    BY <1>4, <1>6, <2>2
  <2> QED BY <2>1, <2>2
<1>9. CommitAndContinue(w, mine, calls) /\ Continues(calls, worker[w].calls) /\ worker[w] # Idle
      /\ db' = Committed(w)
      /\ mine.status = worker[w].mine.status /\ mine.group = worker[w].mine.group
  BY <1>1, <1>2, <1>3, <1>5, <1>6, <1>7
<1> QED BY ONLY RunsAssumption, TypeOK, StartsInv, OrderInv(worker, db, starts),
           PipeInv(worker, db, starts), w \in Workers, calls \in Seq(Call), <1>8, <1>9, RecordPipe

\* Session w records step s, which it was to dispatch or which was waiting.
LEMMA MarkPipe ==
    ASSUME RunsAssumption, TypeOK, StartsInv, OrderInv(worker, db, starts),
           PipeInv(worker, db, starts), NEW w \in Workers, worker[w] # Idle, UNCHANGED starts,
           NEW s \in Steps, NEW status, status = "failed" \/ (status = "running" /\ starts[s] > 0),
           NEW calls \in Seq(Call), Continues(calls, worker[w].calls),
           worker[w].mine.step[s] \in {"pending", "running"},
           \/ Continue(w, Mark(worker[w].mine, s, status), calls) /\ db' = db
           \/ CommitAndContinue(w, Mark(worker[w].mine, s, status), calls) /\ db' = Committed(w)
    PROVE  Goes(worker', db', starts')
<1>1. worker[w].mine \in Rows
  BY DEF TypeOK, Worker
<1>2. PICK mine : mine = Mark(worker[w].mine, s, status)
  OBVIOUS
<1>3. /\ mine.status = worker[w].mine.status /\ mine.group = worker[w].mine.group
      /\ mine.step[s] = status /\ \A q \in Steps \ {s} : mine.step[q] = worker[w].mine.step[q]
  BY <1>1, <1>2, MarkedRows
<1>4. \A q \in Steps :
             \/ mine.step[q] = worker[w].mine.step[q]
             \/ /\ worker[w].mine.step[q] \in {"pending", "running"}
                /\ mine.step[q] = "failed" \/ (mine.step[q] = "running" /\ starts'[q] > 0)
  BY <1>3
<1>5. /\ \A q \in Steps : starts[q] > 0 => starts'[q] > 0
      /\ \A q \in Steps : starts'[q] = starts[q] \/ (starts'[q] > 0 /\ MayStart(q, db'))
  OBVIOUS
<1>6. \/ Continue(w, mine, calls) /\ db' = db
      \/ CommitAndContinue(w, mine, calls) /\ db' = Committed(w)
  BY <1>2
<1>7. mine.status = worker[w].mine.status /\ mine.group = worker[w].mine.group
  BY <1>3
<1> QED BY ONLY RunsAssumption, TypeOK, StartsInv, OrderInv(worker, db, starts),
           PipeInv(worker, db, starts), w \in Workers, worker[w] # Idle, calls \in Seq(Call),
           Continues(calls, worker[w].calls), <1>4, <1>5, <1>6, <1>7, RecordPipe

LEMMA FailsPipe ==
    ASSUME RunsAssumption, TypeOK, StartsInv, OrderInv(worker, db, starts),
           PipeInv(worker, db, starts), NEW w \in Workers, DispatchFails(w)
    PROVE  Goes(worker', db', starts')
<1>1. PICK s \in Now(w).left :
        \/ Continue(w, Mark(worker[w].mine, s, "failed"), Visited(w, s)) /\ db' = db
        \/ CommitAndContinue(w, Mark(worker[w].mine, s, "failed"), Visited(w, s)) /\ db' = Committed(w)
  BY DEF DispatchFails
<1>2. InCall(w, "dispatch") /\ UNCHANGED starts /\ worker[w] # Idle
  BY CallsNotIdle DEF DispatchFails, InCall
<1>3. /\ s \in Steps /\ worker[w].mine.step[s] = "pending"
      /\ Visited(w, s) \in Seq(Call) /\ Continues(Visited(w, s), worker[w].calls)
  BY <1>1, <1>2, ToDispatch, ReadyToStart
<1>4. PICK calls \in Seq(Call) : calls = Visited(w, s)
  BY <1>3
<1> QED BY <1>1, <1>2, <1>3, <1>4, MarkPipe

\* The step that waits for the innermost call is open, and was started.
LEMMA WaitingStep ==
    ASSUME RunsAssumption, TypeOK, StartsInv, OrderInv(worker, db, starts), NEW w \in Workers,
           worker[w].calls # <<>>, NEW s, s = Now(w).for, s # NoStep
    PROVE  /\ s \in Steps /\ worker[w].mine.step[s] = "pending" /\ starts[s] > 0
           /\ Tail(worker[w].calls) \in Seq(Call)
           /\ Continues(Tail(worker[w].calls), worker[w].calls)
<1>1. /\ s \in Steps /\ Holds(worker[w].calls, s) /\ Tail(worker[w].calls) \in Seq(Call)
      /\ Continues(Tail(worker[w].calls), worker[w].calls)
  BY ToRecord
<1>2. StepFits(worker[w], w, db, starts, s)
  BY <1>1 DEF OrderInv, OrderFits
<1>3. Waits(worker[w].calls, 1, s)
  <2>1. worker[w].calls \in Seq(Call)
    BY DEF TypeOK, Worker
  <2>2. 1 \in 1..Len(worker[w].calls) /\ Now(w) = worker[w].calls[1]
    BY <2>1, PoppedCall DEF Now
  <2> QED BY <2>2 DEF Waits
<1> QED BY <1>1, <1>2, <1>3 DEF StepFits

LEMMA ReturnPipe ==
    ASSUME RunsAssumption, TypeOK, StartsInv, OrderInv(worker, db, starts),
           PipeInv(worker, db, starts), NEW w \in Workers, Return(w)
    PROVE  Goes(worker', db', starts')
<1> DEFINE old == worker[w]
<1>1. /\ old.calls # <<>> /\ db' = Committed(w) /\ UNCHANGED starts
      /\ old.calls \in Seq(Call) /\ old # Idle
  BY CallsNotIdle DEF Return, TypeOK, Worker
<1>2. CASE worker' = [worker EXCEPT ![w] = Idle]
  BY <1>1, <1>2, EndsPipe
<1>3. CASE CommitAndContinue(w, old.mine, Tail(old.calls))
  <2>1. PICK calls \in Seq(Call) : calls = Tail(old.calls) /\ Continues(calls, old.calls)
    BY <1>1, PoppedCall, ContinuesTail
  <2>2. PICK mine : mine = old.mine
    OBVIOUS
  <2> QED BY <1>1, <1>3, <2>1, <2>2, RecordPipe
<1>4. CASE Now(w).for # NoStep
             /\ CommitAndContinue(w, Mark(old.mine, Now(w).for, "running"), Tail(old.calls))
  <2>1. PICK s : s = Now(w).for
    OBVIOUS
  <2>2. /\ s \in Steps /\ old.mine.step[s] = "pending" /\ starts[s] > 0
        /\ Tail(old.calls) \in Seq(Call) /\ Continues(Tail(old.calls), old.calls)
    BY <1>1, <1>4, <2>1, WaitingStep
  <2>3. PICK calls \in Seq(Call) : calls = Tail(old.calls)
    BY <2>2
  <2> QED BY <1>1, <1>4, <2>1, <2>2, <2>3, MarkPipe
<1> QED BY <1>2, <1>3, <1>4 DEF Return

\* A new run c, created in the copies and in the database at once.
LEMMA BornFits ==
    ASSUME RunsAssumption, NEW old, NEW new, NEW w, NEW rows \in Rows, NEW n, NEW m, NEW s,
           ViewFits(old, w, rows, n), RowsGood(rows, n),
           old.mine \in Rows, old.seen = old.mine, old.calls \in Seq(Call),
           NEW c \in Runs, rows.status[c] = "absent", old.mine.status[c] = "absent",
           NEW calls \in Seq(Call), Continues(calls, old.calls),
           \A i \in 1..Len(old.calls) : old.calls[i].op = "dispatch",
           s \in Steps \cup {NoStep}, new.calls = <<CallOn("dispatch", c, GroupSteps(c, 0), s)>> \o calls,
           new.queue = old.queue, new.seen = Created(old.mine, c), new.mine = Created(old.mine, c),
           \A q \in Steps : n[q] > 0 => m[q] > 0
    PROVE  ViewFits(new, w, Created(rows, c), m) /\ RowsGood(Created(rows, c), m)
<1> DEFINE after == Created(rows, c)
           mine == Created(old.mine, c)
           top == CallOn("dispatch", c, GroupSteps(c, 0), s)
<1>1. /\ \A r \in Runs : /\ after.status[r] = IF r = c THEN "running" ELSE rows.status[r]
                         /\ after.group[r] = IF r = c THEN 0 ELSE rows.group[r]
      /\ \A q \in Steps : after.step[q] = IF RunOf[q] = c THEN "pending" ELSE rows.step[q]
  BY CreatedStep
<1>2. /\ \A r \in Runs : /\ mine.status[r] = IF r = c THEN "running" ELSE old.mine.status[r]
                         /\ mine.group[r] = IF r = c THEN 0 ELSE old.mine.group[r]
      /\ \A q \in Steps : mine.step[q] = IF RunOf[q] = c THEN "pending" ELSE old.mine.step[q]
  BY CreatedStep
<1>3. \A q \in Steps : RunOf[q] \in Runs /\ Group[q] \in Nat
  BY DEF RunsAssumption
<1>4. top \in Call /\ top.op = "dispatch" /\ top.run = c
  BY CallOK, GroupStepsOK DEF CallOn
<1>5. /\ Len(new.calls) = Len(calls) + 1 /\ new.calls[1] = top /\ Len(calls) \in Nat
      /\ \A i \in 1..Len(calls) : new.calls[i + 1] = calls[i]
  <2> HIDE DEF top
  <2>1. new.calls = <<top>> \o calls
    BY DEF top
  <2> QED BY <1>4, <2>1, PushedCall
<1> HIDE DEF after, mine, top
<1>6. \A q \in Steps : /\ ~(after.status[RunOf[q]] = "running" /\ RunOf[q] = c
                                  /\ Group[q] < after.group[RunOf[q]])
                       /\ RunOf[q] # c /\ Good(rows, q) => Good(after, q)
                       /\ RunOf[q] # c /\ Good(old.mine, q) => Good(mine, q)
  BY <1>1, <1>2, <1>3 DEF Good
<1>7. RowsGood(after, m)
  <2> SUFFICES ASSUME NEW q \in Steps
               PROVE  /\ after.status[RunOf[q]] = "running" /\ Group[q] < after.group[RunOf[q]]
                           => Good(after, q)
                      /\ after.status[RunOf[q]] = "absent" => after.step[q] = "pending"
                      /\ after.step[q] \in {"running", "completed"} => m[q] > 0
    BY DEF RowsGood
  <2>1. CASE RunOf[q] = c
    BY <1>1, <1>3, <2>1
  <2>2. CASE RunOf[q] # c
    BY ZenonT(30), <1>1, <1>3, <1>6, <2>2 DEF RowsGood
  <2> QED BY <2>1, <2>2
<1>8. \A r \in Runs :
         /\ mine.status[r] # "absent" => mine.status[r] = after.status[r]
         /\ r \in new.queue => mine.status[r] = "running"
  <2> SUFFICES ASSUME NEW r \in Runs
               PROVE  /\ mine.status[r] # "absent" => mine.status[r] = after.status[r]
                      /\ r \in new.queue => mine.status[r] = "running"
    OBVIOUS
  <2>1. /\ old.mine.status[r] # "absent" => old.mine.status[r] = rows.status[r]
        /\ r \in old.queue => old.mine.status[r] = "running"
    BY ViewRun
  <2> QED BY <1>1, <1>2, <2>1
<1>9. ASSUME NEW q \in Steps
      PROVE  /\ mine.status[RunOf[q]] # "absent" => mine.step[q] = after.step[q]
             /\ mine.step[q] \in {"running", "completed"} => m[q] > 0
             /\ w = Pump /\ mine.status[RunOf[q]] = "running" /\ Group[q] < mine.group[RunOf[q]]
                  => Good(mine, q)
  <2>1. CASE RunOf[q] = c
    BY <1>1, <1>2, <1>3, <2>1
  <2>2. CASE RunOf[q] # c
    <3>1. /\ old.mine.status[RunOf[q]] # "absent" => old.mine.step[q] = rows.step[q]
          /\ old.mine.step[q] \in {"running", "completed"} => n[q] > 0
          /\ w = Pump /\ old.mine.status[RunOf[q]] = "running" /\ Group[q] < old.mine.group[RunOf[q]]
                => Good(old.mine, q)
      BY ViewStep DEF Known
    <3> QED BY <1>1, <1>2, <1>3, <1>6, <2>2, <3>1
  <2> QED BY <2>1, <2>2
<1>10. ASSUME NEW i \in 1..Len(new.calls)
       PROVE  new.calls[i].op = "dispatch" /\ mine.status[new.calls[i].run] = "running"
  <2>1. CASE i = 1
    BY <1>2, <1>4, <1>5, <2>1
  <2>2. CASE i # 1
    <3>1. PICK k \in 1..Len(calls) : k + 1 = i
      <4>1. i - 1 \in 1..Len(calls) /\ (i - 1) + 1 = i
        BY <1>5, <2>2
      <4> QED BY <4>1
    <3>2. PICK j \in 1..Len(old.calls) :
             /\ calls[k] \in Call
             /\ calls[k].op = old.calls[j].op
             /\ calls[k].run = old.calls[j].run
      BY ONLY old.calls \in Seq(Call), calls \in Seq(Call), Continues(calls, old.calls),
              k \in 1..Len(calls), ContinuedCall
    <3>3. old.calls[j].op = "dispatch" /\ old.mine.status[old.calls[j].run] = "running"
      BY <3>2 DEF ViewFits
    <3>4. calls[k].run \in Runs
      BY <3>2 DEF Call
    <3> QED BY <1>2, <1>5, <3>1, <3>2, <3>3, <3>4
  <2> QED BY <2>1, <2>2
<1>11. new.seen = mine /\ new.mine = mine
  BY DEF mine
<1>12. ViewFits(new, w, after, m)
  BY <1>8, <1>9, <1>10, <1>11 DEF ViewFits, Known
<1> QED BY <1>7, <1>12 DEF after

LEMMA ChildPipe ==
    ASSUME RunsAssumption, TypeOK, StartsInv, OrderInv(worker, db, starts),
           PipeInv(worker, db, starts), NEW w \in Workers, StartChild(w)
    PROVE  Goes(worker', db', starts')
<1> DEFINE old == worker[w]
<1>1. PICK s \in Now(w).left :
           /\ Child[s] # NoRun
           /\ db' = Created(Committed(w), Child[s])
           /\ starts' = [starts EXCEPT ![s] = @ + 1]
           /\ worker' = [worker EXCEPT
                ![w].seen = Created(old.mine, Child[s]), ![w].mine = Created(old.mine, Child[s]),
                ![w].calls = <<CallOn("dispatch", Child[s], GroupSteps(Child[s], 0), s)>>
                             \o Visited(w, s)]
  BY DEF StartChild
<1>2. /\ InCall(w, "dispatch") /\ old.mine \in Rows /\ old.calls \in Seq(Call) /\ old # Idle
      /\ worker \in [Workers -> Worker] /\ Committed(w) \in Rows
  BY CallsNotIdle, CommittedOK DEF StartChild, TypeOK, Worker, InCall
<1>3. /\ s \in Steps /\ starts[s] = 0 /\ db.status[RunOf[s]] = "running"
      /\ \A q \in StepsOf(RunOf[s]) : Group[q] < Group[s] => Good(Committed(w), q)
      /\ Visited(w, s) \in Seq(Call) /\ Continues(Visited(w, s), old.calls)
  BY <1>1, <1>2, ToDispatch, ReadyToStart
<1>4. PICK c \in Runs : c = Child[s] /\ db.status[c] = "absent"
  BY <1>1, <1>3 DEF StartsInv, Begun, RunsAssumption
<1>5. PICK calls \in Seq(Call) : calls = Visited(w, s)
  BY <1>3
<1>6. PICK rows \in Rows : rows = Committed(w)
  BY <1>2
<1>7. PICK m : m = starts'
  OBVIOUS
<1>8. m[s] = 1 /\ \A q \in Steps \ {s} : m[q] = starts[q]
  BY <1>1, <1>3, <1>7 DEF TypeOK
<1>9. old.mine.status[c] = "absent" /\ rows.status[c] = "absent"
  <2>1. RowsFit(old, w, db)
    BY DEF StartsInv, SessionFits
  <2>2. old.mine.status[c] = "absent"
    BY <1>4, <2>1 DEF RowsFit
  <2> QED BY <1>4, <1>6, <2>2, CommitViews
<1> DEFINE saved == Session(old.busy, old.queue, old.calls, old.mine, old.mine)
           stack == <<CallOn("dispatch", c, GroupSteps(c, 0), s)>> \o calls
           new == Session(old.busy, old.queue, stack, Created(old.mine, c), Created(old.mine, c))
<1>10. Becomes(w, new)
  <2>1. worker' = [worker EXCEPT ![w].seen = Created(old.mine, c), ![w].mine = Created(old.mine, c),
                                 ![w].calls = stack]
    BY <1>1, <1>4, <1>5
  <2> HIDE DEF stack, new
  <2> QED BY <1>2, <2>1, PushedBecomes DEF new
<1>11. /\ new.calls = stack /\ new.queue = old.queue
       /\ new.seen = Created(old.mine, c) /\ new.mine = Created(old.mine, c)
       /\ saved.calls = old.calls /\ saved.queue = old.queue
       /\ saved.seen = old.mine /\ saved.mine = old.mine
  BY DEF Session
<1> HIDE DEF new, saved
<1>12. ViewFits(saved, w, rows, starts) /\ RowsGood(rows, starts) /\ Advances(rows)
  BY <1>6, <1>11, CommitFits
<1>13. \A i \in 1..Len(old.calls) : old.calls[i].op = "dispatch"
  <2>1. StackFits(old, db)
    BY DEF OrderInv, OrderFits
  <2>2. 1 \in 1..Len(old.calls) /\ old.calls[1].op = "dispatch"
    BY <1>2, PoppedCall DEF InCall
  <2> QED BY <2>1, <2>2 DEF StackFits
<1>14. ViewFits(new, w, Created(rows, c), m) /\ RowsGood(Created(rows, c), m)
  <2>1. \A q \in Steps : starts[q] > 0 => m[q] > 0
    <3> SUFFICES ASSUME NEW q \in Steps, starts[q] > 0
                 PROVE  m[q] > 0
      OBVIOUS
    <3>1. CASE q = s
      BY <1>8, <3>1
    <3>2. CASE q # s
      BY <1>8, <3>2
    <3> QED BY <3>1, <3>2
  <2>2. /\ saved.mine \in Rows /\ saved.seen = saved.mine /\ saved.calls \in Seq(Call)
        /\ rows.status[c] = "absent" /\ saved.mine.status[c] = "absent"
        /\ Continues(calls, saved.calls)
        /\ \A i \in 1..Len(saved.calls) : saved.calls[i].op = "dispatch"
        /\ s \in Steps \cup {NoStep}
        /\ new.calls = <<CallOn("dispatch", c, GroupSteps(c, 0), s)>> \o calls
        /\ new.queue = saved.queue
        /\ new.seen = Created(saved.mine, c) /\ new.mine = Created(saved.mine, c)
    BY <1>2, <1>3, <1>5, <1>9, <1>11, <1>13
  <2> QED BY ONLY RunsAssumption, rows \in Rows, c \in Runs, calls \in Seq(Call), <1>12, <2>1, <2>2, BornFits
<1>15. PICK after : after = Created(rows, c)
  OBVIOUS
<1>16. /\ \A r \in Runs : after.status[r] = IF r = c THEN "running" ELSE rows.status[r]
       /\ \A q \in Steps : after.step[q] = IF RunOf[q] = c THEN "pending" ELSE rows.step[q]
  BY <1>15, CreatedStep
<1>17. Advances(after)
  <2>1. \A r \in Runs \ {c} : \A q \in StepsOf(r) : Good(rows, q) => Good(after, q)
    BY <1>16 DEF Good, StepsOf
  <2>2. \A q \in Steps : RunOf[q] = c => db.step[q] = "pending"
    BY <1>4 DEF PipeInv, RowsGood
  <2>3. ASSUME NEW r \in Runs
        PROVE  \/ after.status[r] = db.status[r]
               \/ db.status[r] = "absent" /\ after.status[r] = "running"
               \/ db.status[r] = "running" /\ after.status[r] \in {"failed", "canceled"}
               \/ /\ db.status[r] = "running" /\ after.status[r] = "completed"
                  /\ \A q \in StepsOf(r) : Good(after, q)
    <3>1. CASE r = c
      BY <1>4, <1>16, <3>1
    <3>2. CASE r # c
      BY <1>12, <1>16, <2>1, <3>2 DEF Advances
    <3> QED BY <3>1, <3>2
  <2>4. ASSUME NEW q \in Steps
        PROVE  \/ after.step[q] = db.step[q]
               \/ db.step[q] \notin Over /\ (after.step[q] = "completed" => starts[q] > 0)
    BY <1>12, <1>16, <2>2 DEF Advances
  <2> QED BY <2>3, <2>4 DEF Advances
<1>18. MayStart(s, after)
  <2>1. \A q \in StepsOf(RunOf[s]) : after.step[q] = rows.step[q]
    BY <1>3, <1>4, <1>16 DEF StepsOf
  <2> QED BY <1>3, <1>6, <2>1 DEF MayStart, Good
<1>19. PipeInv(worker', after, m)
  BY <1>2, <1>10, <1>14, <1>15, OthersIdle, PipeGoesOn
<1>20. \A q \in Steps : m[q] = starts[q] \/ (m[q] > 0 /\ MayStart(q, after))
  BY <1>8, <1>18
<1>21. db' = after
  BY <1>1, <1>4, <1>6, <1>15
<1> QED BY <1>7, <1>17, <1>19, <1>20, <1>21 DEF Goes

\* The run c is canceled for the session, which loads it first.
LEMMA NestFits ==
    ASSUME RunsAssumption, TypeOK, NEW old, NEW new, NEW w, w # Pump, ViewFits(old, w, db, starts),
           RowsGood(db, starts), old.mine \in Rows, old.seen \in Rows, old.calls \in Seq(Call),
           NEW c \in Runs, db.status[c] = "running", NEW S \in SUBSET Steps, S = OpenSteps(db, c),
           new.calls = <<CallOn("cancel", c, S, NoStep)>> \o old.calls, new.queue = {},
           \A i \in 1..Len(old.calls) : /\ old.calls[i].op # "dispatch"
                                        /\ old.calls[i].op = "cancel" =>
                                             \A s \in old.calls[i].left : Known(old, s),
           new.seen = Load(old.seen, {c}), new.mine = Canceled(Load(old.mine, {c}), c)
    PROVE  ViewFits(new, w, db, starts)
<1>1. /\ \A r \in Runs : /\ new.seen.status[r] = IF r = c THEN "running" ELSE old.seen.status[r]
                         /\ new.mine.status[r] = IF r = c THEN "canceled" ELSE old.mine.status[r]
      /\ \A q \in Steps : /\ new.seen.step[q] = IF RunOf[q] = c THEN db.step[q] ELSE old.seen.step[q]
                          /\ new.mine.step[q] = IF RunOf[q] = c THEN db.step[q] ELSE old.mine.step[q]
  BY DEF Load, Canceled, Rows
<1>2. ASSUME NEW r \in Runs
      PROVE  /\ new.mine.status[r] # "absent" => new.seen.status[r] = db.status[r]
             /\ new.mine.status[r] # new.seen.status[r] =>
                  /\ new.seen.status[r] = "running"
                  /\ \/ new.mine.status[r] \in {"failed", "canceled"}
                     \/ new.mine.status[r] = "completed" /\ \A q \in StepsOf(r) : Good(new.mine, q)
  <2>1. CASE r = c
    BY <1>1, <2>1
  <2>2. CASE r # c
    <3>1. \A q \in StepsOf(r) : Good(old.mine, q) => Good(new.mine, q)
      BY <1>1, <2>2 DEF Good, StepsOf
    <3>2. /\ old.mine.status[r] # "absent" => old.seen.status[r] = db.status[r]
          /\ old.mine.status[r] # old.seen.status[r] =>
               /\ old.seen.status[r] = "running"
               /\ \/ old.mine.status[r] \in {"failed", "canceled"}
                  \/ old.mine.status[r] = "completed" /\ \A q \in StepsOf(r) : Good(old.mine, q)
      BY ViewRun
    <3> QED BY <1>1, <2>2, <3>1, <3>2
  <2> QED BY <2>1, <2>2
<1>3. ASSUME NEW q \in Steps
      PROVE  /\ Known(new, q) => new.seen.step[q] = db.step[q]
             /\ new.seen.step[q] \in Over => new.mine.step[q] = new.seen.step[q]
             /\ new.mine.step[q] \in {"running", "completed"} => starts[q] > 0
  <2>1. RunOf[q] \in Runs
    BY DEF RunsAssumption
  <2>2. CASE RunOf[q] = c
    <3>1. db.step[q] \in {"running", "completed"} => starts[q] > 0
      BY DEF RowsGood
    <3> QED BY <1>1, <2>2, <3>1
  <2>3. CASE RunOf[q] # c
    <3>1. /\ Known(old, q) => old.seen.step[q] = db.step[q]
          /\ old.seen.step[q] \in Over => old.mine.step[q] = old.seen.step[q]
          /\ old.mine.step[q] \in {"running", "completed"} => starts[q] > 0
      BY ViewStep
    <3> QED BY <1>1, <2>1, <2>3, <3>1 DEF Known
  <2> QED BY <2>2, <2>3
<1>4. \A q \in Steps :
        Known(old, q) /\ old.mine.step[q] # "completed" => new.mine.step[q] # "completed"
  <2> SUFFICES ASSUME NEW q \in Steps, new.mine.step[q] = "completed",
                      Known(old, q), old.mine.step[q] # "completed"
               PROVE  FALSE
    OBVIOUS
  <2>1. RunOf[q] = c /\ db.step[q] = "completed"
    BY <1>1
  <2>2. old.seen.step[q] = "completed" /\ (old.seen.step[q] \in Over => old.mine.step[q] = old.seen.step[q])
    BY <2>1, ViewStep
  <2> QED BY <2>2 DEF Over
<1>5. CallOn("cancel", c, S, NoStep) \in Call
  BY CallOK
<1>6. /\ Len(new.calls) = Len(old.calls) + 1 /\ new.calls[1] = CallOn("cancel", c, S, NoStep)
      /\ Len(old.calls) \in Nat /\ \A i \in 1..Len(old.calls) : new.calls[i + 1] = old.calls[i]
  BY <1>5, PushedCall
<1>7. ASSUME NEW i \in 1..Len(new.calls)
      PROVE  LET d == new.calls[i] IN
             /\ d.op # "dispatch"
             /\ d.op = "cancel" => \A s \in d.left : new.mine.step[s] # "completed"
  <2>1. CASE i = 1
    <3>1. \A s \in S : new.mine.step[s] \in {"pending", "running"}
      BY <1>1 DEF OpenSteps, StepsOf
    <3>2. CallOn("cancel", c, S, NoStep).op = "cancel" /\ CallOn("cancel", c, S, NoStep).left = S
      BY DEF CallOn
    <3> QED BY <1>6, <2>1, <3>1, <3>2
  <2>2. CASE i # 1
    <3>1. PICK k \in 1..Len(old.calls) : k + 1 = i
      <4>1. i - 1 \in 1..Len(old.calls) /\ (i - 1) + 1 = i
        BY <1>6, <2>2
      <4> QED BY <4>1
    <3>2. /\ new.calls[i] = old.calls[k] /\ old.calls[k].op # "dispatch"
          /\ old.calls[k].left \subseteq Steps
      <4>1. old.calls[k] \in Call
        BY <3>1
      <4> QED BY <1>6, <3>1, <4>1 DEF Call
    <3>3. old.calls[k].op = "cancel" =>
             \A s \in old.calls[k].left : Known(old, s) /\ old.mine.step[s] # "completed"
      BY <3>1 DEF ViewFits
    <3> QED BY <1>4, <3>2, <3>3
  <2> QED BY <2>1, <2>2
<1>8. /\ \A r \in Runs :
         /\ new.mine.status[r] # "absent" => new.seen.status[r] = db.status[r]
         /\ new.mine.status[r] # new.seen.status[r] =>
              /\ new.seen.status[r] = "running"
              /\ \/ new.mine.status[r] \in {"failed", "canceled"}
                 \/ new.mine.status[r] = "completed" /\ \A q \in StepsOf(r) : Good(new.mine, q)
         /\ r \in new.queue => new.mine.status[r] = "running"
  BY <1>2
<1>9. \A q \in Steps :
         /\ Known(new, q) => new.seen.step[q] = db.step[q]
         /\ new.seen.step[q] \in Over => new.mine.step[q] = new.seen.step[q]
         /\ new.mine.step[q] \in {"running", "completed"} => starts[q] > 0
         /\ w = Pump /\ new.mine.status[RunOf[q]] = "running" /\ Group[q] < new.mine.group[RunOf[q]]
              => Good(new.mine, q)
  BY <1>3
<1>10. \A i \in 1..Len(new.calls) : LET d == new.calls[i] IN
         /\ d.op = "dispatch" => new.mine.status[d.run] = "running"
         /\ d.op = "cancel" => \A s \in d.left : new.mine.step[s] # "completed"
  BY <1>7
<1> QED BY ONLY <1>8, <1>9, <1>10 DEF ViewFits

LEMMA CancelPipe ==
    ASSUME RunsAssumption, TypeOK, StartsInv, OrderInv(worker, db, starts),
           PipeInv(worker, db, starts), NEW w \in Workers, CancelStep(w)
    PROVE  Goes(worker', db', starts')
<1> DEFINE old == worker[w]
<1>1. /\ UNCHANGED <<db, starts>> /\ worker \in [Workers -> Worker] /\ old.calls \in Seq(Call)
      /\ old.calls # <<>> /\ old # Idle /\ old.mine \in Rows /\ old.seen \in Rows
      /\ Now(w) = old.calls[1] /\ Now(w) \in Call /\ old.calls[1].op = "cancel"
  BY NowOK, CallsNotIdle DEF CancelStep, InCall, TypeOK, Worker, Now
<1>2. 1 \in 1..Len(old.calls)
  BY <1>1, PoppedCall
<1>3. StackFits(old, db) /\ ViewFits(old, w, db, starts) /\ RowsGood(db, starts)
  BY DEF OrderInv, OrderFits, PipeInv
<1>4. w # Pump /\ old.queue = {}
  <2>1. CallFits(old, w, 1, starts) /\ (w # Pump => old.queue = {})
    BY <1>2 DEF StartsInv, SessionFits
  <2> QED BY <1>1, <2>1 DEF CallFits
<1>5. PICK s \in Now(w).left :
        LET c == IF old.mine.step[s] = "running" THEN Child[s] ELSE NoRun
            rows == Mark(old.mine, s, "failed")
        IN \/ Continue(w, rows, Visited(w, s))
           \/ /\ c # NoRun /\ db.status[c] = "running"
              /\ worker' = [worker EXCEPT
                     ![w].seen = Load(old.seen, {c}), ![w].mine = Canceled(Load(rows, {c}), c),
                     ![w].calls = <<CallOn("cancel", c, OpenSteps(db, c), NoStep)>> \o Visited(w, s)]
           \/ worker' = [worker EXCEPT ![w] = Idle]
  BY DEF CancelStep
<1>6. s \in Steps /\ old.mine.step[s] # "completed"
  BY SMTT(30), <1>1, <1>2, <1>3, <1>5 DEF Call, ViewFits
<1>7. PICK calls \in Seq(Call) : calls = Visited(w, s)
  BY <1>1, NowOK
<1>8. Continues(calls, old.calls)
  BY <1>1, <1>7, ContinuesVisited DEF Visited
<1>9. PICK rows \in Rows : rows = Mark(old.mine, s, "failed")
  BY <1>1, <1>6, MarkOK DEF Statuses, Over
<1>10. /\ rows.status = old.mine.status /\ rows.group = old.mine.group /\ rows.step[s] = "failed"
       /\ \A q \in Steps \ {s} : rows.step[q] = old.mine.step[q]
  BY <1>1, <1>6, <1>9, MarkedRows
<1>11. \A q \in Steps :
         \/ rows.step[q] = old.mine.step[q]
         \/ old.mine.step[q] \in {"pending", "running"} /\ rows.step[q] = "failed"
  <2>1. old.mine.step[s] \in {"pending", "running", "completed", "failed"}
    BY <1>1, <1>6 DEF Rows, Over
  <2> QED BY <1>6, <1>10, <2>1
<1>12. CASE Continue(w, rows, calls)
  <2>1. /\ \A q \in Steps :
             \/ rows.step[q] = worker[w].mine.step[q]
             \/ /\ worker[w].mine.step[q] \in {"pending", "running"}
                /\ rows.step[q] = "failed" \/ (rows.step[q] = "running" /\ starts'[q] > 0)
        /\ \A q \in Steps : starts[q] > 0 => starts'[q] > 0
        /\ \A q \in Steps : starts'[q] = starts[q] \/ (starts'[q] > 0 /\ MayStart(q, db'))
    BY <1>1, <1>11
  <2>2. /\ Continues(calls, worker[w].calls) /\ worker[w] # Idle
        /\ rows.status = worker[w].mine.status /\ rows.group = worker[w].mine.group /\ db' = db
    BY <1>1, <1>8, <1>10
  <2> QED BY ONLY RunsAssumption, TypeOK, StartsInv, OrderInv(worker, db, starts),
           PipeInv(worker, db, starts), w \in Workers, calls \in Seq(Call), <1>12, <2>1, <2>2, RecordPipe
<1>13. ASSUME NEW c, c = Child[s], c # NoRun, db.status[c] = "running",
              worker' = [worker EXCEPT
                     ![w].seen = Load(old.seen, {c}), ![w].mine = Canceled(Load(rows, {c}), c),
                     ![w].calls = <<CallOn("cancel", c, OpenSteps(db, c), NoStep)>> \o calls]
       PROVE  Goes(worker', db', starts')
  <2>1. c \in Runs
    BY <1>6, <1>13 DEF RunsAssumption
  <2>2. PICK S \in SUBSET Steps : S = OpenSteps(db, c)
    BY DEF OpenSteps, StepsOf
  <2> DEFINE seen == Load(old.seen, {c})
             mine == Canceled(Load(rows, {c}), c)
             stack == <<CallOn("cancel", c, S, NoStep)>> \o calls
             mid == Session(old.busy, old.queue, calls, old.seen, rows)
             new == Session(old.busy, old.queue, stack, seen, mine)
  <2>3. Becomes(w, new)
    <3>1. worker' = [worker EXCEPT ![w].seen = seen, ![w].mine = mine, ![w].calls = stack]
      BY <1>13, <2>2
    <3> HIDE DEF seen, mine, stack, new
    <3> QED BY <1>1, <3>1, PushedBecomes DEF new
  <2>4. /\ new.calls = stack /\ new.queue = old.queue /\ new.seen = seen /\ new.mine = mine
        /\ mid.calls = calls /\ mid.queue = old.queue /\ mid.seen = old.seen /\ mid.mine = rows
    BY DEF Session
  <2> HIDE DEF new, mid
  <2>5. ViewFits(mid, w, db, starts)
    <3>1. /\ mid.calls \in Seq(Call) /\ Continues(mid.calls, old.calls)
          /\ mid.queue = old.queue /\ mid.seen = old.seen
          /\ mid.mine.status = old.mine.status /\ mid.mine.group = old.mine.group
          /\ \A q \in Steps : starts[q] > 0 => starts[q] > 0
          /\ \A q \in Steps :
               \/ mid.mine.step[q] = old.mine.step[q]
               \/ /\ old.mine.step[q] \in {"pending", "running"}
                  /\ mid.mine.step[q] = "failed" \/ (mid.mine.step[q] = "running" /\ starts[q] > 0)
      BY <1>8, <1>10, <1>11, <2>4
    <3> QED BY ONLY <1>1, <1>3, <3>1, RecordFits
  <2>6. \A i \in 1..Len(calls) : /\ calls[i].op # "dispatch"
                                 /\ calls[i].op = "cancel" => \A q \in calls[i].left : Known(mid, q)
    <3> SUFFICES ASSUME NEW i \in 1..Len(calls)
                 PROVE  /\ calls[i].op # "dispatch"
                        /\ calls[i].op = "cancel" => \A q \in calls[i].left : Known(mid, q)
      OBVIOUS
    <3>1. PICK j \in 1..Len(old.calls) :
             /\ calls[i].op = old.calls[j].op /\ calls[i].left \subseteq old.calls[j].left
      BY ONLY <1>1, calls \in Seq(Call), <1>8, i \in 1..Len(calls), ContinuedCall
    <3>2. old.calls[j].op # "dispatch"
      BY <1>1, <1>2, <1>3 DEF StackFits
    <3>3. old.calls[j].op = "cancel" => \A q \in old.calls[j].left : RunOf[q] = old.calls[j].run
      BY <1>3 DEF StackFits
    <3>4. old.mine.status[old.calls[j].run] # "absent"
      BY RunsOfCalls
    <3> QED BY <1>10, <2>4, <3>1, <3>2, <3>3, <3>4 DEF Known
  <2>7. ViewFits(new, w, db, starts)
    <3>1. /\ mid.mine \in Rows /\ mid.seen \in Rows /\ mid.calls \in Seq(Call)
          /\ new.calls = <<CallOn("cancel", c, S, NoStep)>> \o mid.calls /\ new.queue = {}
          /\ \A i \in 1..Len(mid.calls) :
               /\ mid.calls[i].op # "dispatch"
               /\ mid.calls[i].op = "cancel" => \A q \in mid.calls[i].left : Known(mid, q)
          /\ new.seen = Load(mid.seen, {c}) /\ new.mine = Canceled(Load(mid.mine, {c}), c)
      BY <1>1, <1>4, <2>4, <2>6
    <3>2. w # Pump /\ RowsGood(db, starts) /\ db.status[c] = "running"
      BY <1>3, <1>4, <1>13
    <3> QED BY ONLY RunsAssumption, TypeOK, S \in SUBSET Steps, <2>1, <2>2, <2>5, <3>1, <3>2, NestFits
  <2>8. PipeInv(worker', db, starts)
    BY <1>1, <1>3, <2>3, <2>7, OthersIdle, PipeGoesOn
  <2> QED BY <1>1, <2>8, StillAdvances DEF Goes
<1>14. CASE worker' = [worker EXCEPT ![w] = Idle]
  BY <1>1, <1>14, EndsPipe
<1> QED BY <1>5, <1>7, <1>9, <1>12, <1>13, <1>14

LEMMA ProceedPipe ==
    ASSUME RunsAssumption, TypeOK, StartsInv, OrderInv(worker, db, starts),
           PipeInv(worker, db, starts), NEW w \in Workers, Proceed(w)
    PROVE  Goes(worker', db', starts')
  BY TaskPipe, ChildPipe, FailsPipe, ReturnPipe, CancelPipe DEF Proceed

-----------------------------------------------------------------------------
(* The requests, which find nobody at work. *)
LEMMA ExecutePipe ==
    ASSUME RunsAssumption, ~Overlap, TypeOK, PipeInv(worker, db, starts),
           NEW w \in Workers, NEW r \in Runs, Execute(w, r)
    PROVE  Goes(worker', db', starts')
<1> DEFINE rows == Created(db, r)
           mine == Created(Empty, r)
           new == Session("request", {}, <<CallOn("dispatch", r, GroupSteps(r, 0), NoStep)>>, mine, mine)
<1>1. /\ \A v \in Workers : worker[v] = Idle
      /\ db.status[r] = "absent" /\ db' = rows /\ UNCHANGED starts /\ Becomes(w, new)
      /\ worker \in [Workers -> Worker] /\ db \in Rows /\ RowsGood(db, starts)
  BY DEF Execute, Admitted, TypeOK, Session, Becomes, PipeInv
<1>2. /\ \A x \in Runs : /\ rows.status[x] = IF x = r THEN "running" ELSE db.status[x]
                         /\ rows.group[x] = IF x = r THEN 0 ELSE db.group[x]
      /\ \A q \in Steps : rows.step[q] = IF RunOf[q] = r THEN "pending" ELSE db.step[q]
  BY <1>1, CreatedStep
<1>3. /\ \A x \in Runs : /\ mine.status[x] = IF x = r THEN "running" ELSE "absent"
                         /\ mine.group[x] = 0
      /\ \A q \in Steps : mine.step[q] = "pending"
  BY EmptyOK, CreatedStep DEF Empty
<1>4. \A q \in Steps : RunOf[q] \in Runs /\ Group[q] \in Nat
  BY DEF RunsAssumption
<1>5. /\ new.calls = <<CallOn("dispatch", r, GroupSteps(r, 0), NoStep)>> /\ new.queue = {}
      /\ new.seen = mine /\ new.mine = mine
  BY DEF Session
<1> HIDE DEF new, mine, rows
<1>6. ViewFits(new, w, rows, starts)
  <2>1. \A q \in Steps : RunOf[q] = r => rows.step[q] = "pending"
    BY <1>2
  <2>2. \A q \in Steps :
         /\ Known(new, q) => new.seen.step[q] = rows.step[q]
         /\ new.seen.step[q] \in Over => new.mine.step[q] = new.seen.step[q]
         /\ new.mine.step[q] \in {"running", "completed"} => starts[q] > 0
         /\ w = Pump /\ new.mine.status[RunOf[q]] = "running" /\ Group[q] < new.mine.group[RunOf[q]]
              => Good(new.mine, q)
    BY <1>3, <1>4, <1>5, <2>1 DEF Known
  <2>3. \A x \in Runs : /\ new.mine.status[x] # "absent" => new.seen.status[x] = rows.status[x]
                        /\ new.mine.status[x] = new.seen.status[x]
    BY <1>2, <1>3, <1>5
  <2>4. \A i \in 1..Len(new.calls) : new.calls[i].op = "dispatch" /\ new.calls[i].run = r
    BY <1>5 DEF CallOn
  <2> QED BY <1>3, <1>5, <2>2, <2>3, <2>4 DEF ViewFits
<1>7. RowsGood(rows, starts)
  <2> SUFFICES ASSUME NEW q \in Steps
               PROVE  /\ rows.status[RunOf[q]] = "running" /\ Group[q] < rows.group[RunOf[q]]
                           => Good(rows, q)
                      /\ rows.status[RunOf[q]] = "absent" => rows.step[q] = "pending"
                      /\ rows.step[q] \in {"running", "completed"} => starts[q] > 0
    BY DEF RowsGood
  <2>1. CASE RunOf[q] = r
    BY <1>2, <1>4, <2>1
  <2>2. CASE RunOf[q] # r
    BY <1>1, <1>2, <1>4, <2>2 DEF RowsGood, Good
  <2> QED BY <2>1, <2>2
<1>8. Advances(rows)
  <2>1. \A q \in Steps : RunOf[q] = r => db.step[q] = "pending"
    BY <1>1 DEF RowsGood
  <2> QED BY <1>1, <1>2, <2>1 DEF Advances
<1>9. PipeInv(worker', rows, starts)
  BY <1>1, <1>6, <1>7, PipeGoesOn
<1> QED BY <1>1, <1>8, <1>9 DEF Goes

\* A session that has just loaded runs, and decided something about one.
LEMMA OpensPipe ==
    ASSUME RunsAssumption, ~Overlap, TypeOK, PipeInv(worker, db, starts), NEW w \in Workers, Admitted(w),
           UNCHANGED <<db, starts>>, NEW o, Becomes(w, o), ViewFits(o, w, db, starts)
    PROVE  Goes(worker', db', starts')
<1>1. /\ \A v \in Workers : worker[v] = Idle
      /\ worker \in [Workers -> Worker] /\ RowsGood(db, starts)
  BY DEF Admitted, TypeOK, PipeInv
<1>2. PipeInv(worker', db, starts)
  BY <1>1, PipeGoesOn
<1> QED BY <1>2, StillAdvances DEF Goes

LEMMA LoadedRows ==
    ASSUME RunsAssumption, TypeOK, NEW Q
    PROVE  /\ \A r \in Runs :
                /\ Load(Empty, Q).status[r] = IF r \in Q THEN db.status[r] ELSE "absent"
                /\ Load(Empty, Q).group[r] = IF r \in Q THEN db.group[r] ELSE 0
           /\ \A q \in Steps : Load(Empty, Q).step[q] = IF RunOf[q] \in Q THEN db.step[q] ELSE "pending"
           /\ Load(Empty, Q) \in Rows
<1>1. Load(Empty, Q) \in Rows
  BY LoadOK, EmptyOK DEF TypeOK
<1>2. /\ \A r \in Runs :
           /\ Load(Empty, Q).status[r] = IF r \in Q THEN db.status[r] ELSE Empty.status[r]
           /\ Load(Empty, Q).group[r] = IF r \in Q THEN db.group[r] ELSE Empty.group[r]
      /\ \A q \in Steps : Load(Empty, Q).step[q] = IF RunOf[q] \in Q THEN db.step[q] ELSE Empty.step[q]
  BY DEF Load
<1>3. /\ \A r \in Runs : Empty.status[r] = "absent" /\ Empty.group[r] = 0
      /\ \A q \in Steps : Empty.step[q] = "pending"
  BY DEF Empty
<1> QED BY <1>1, <1>2, <1>3

LEMMA RequestPipe ==
    ASSUME RunsAssumption, ~Overlap, TypeOK, PipeInv(worker, db, starts), NEW w \in Callers, Request(w)
    PROVE  Goes(worker', db', starts')
<1>0. w \in Workers /\ w # Pump /\ RowsGood(db, starts)
  BY DEF Workers, RunsAssumption, PipeInv
<1>1. ASSUME NEW r \in Runs, CancelRequest(w, r)
      PROVE  Goes(worker', db', starts')
  <2> DEFINE view == Load(Empty, {r})
             mine == Canceled(view, r)
             S == OpenSteps(view, r)
             new == Session("request", {}, <<CallOn("cancel", r, S, NoStep)>>, view, mine)
  <2>1. /\ db.status[r] = "running" /\ UNCHANGED <<db, starts>> /\ Admitted(w) /\ Becomes(w, new)
    BY <1>1 DEF CancelRequest, Becomes, Session
  <2>2. /\ \A x \in Runs : view.status[x] = IF x = r THEN "running" ELSE "absent"
        /\ \A q \in Steps : view.step[q] = IF RunOf[q] = r THEN db.step[q] ELSE "pending"
        /\ view \in Rows
    BY <2>1, LoadedRows
  <2>3. /\ \A x \in Runs : mine.status[x] = IF x = r THEN "canceled" ELSE "absent"
        /\ \A q \in Steps : mine.step[q] = IF RunOf[q] = r THEN db.step[q] ELSE "pending"
    <3> HIDE DEF view
    <3> QED BY <2>2 DEF Canceled, Rows
  <2>4. /\ new.calls = <<CallOn("cancel", r, S, NoStep)>> /\ new.queue = {}
        /\ new.seen = view /\ new.mine = mine
    BY DEF Session
  <2>5. \A q \in S : view.step[q] # "completed" /\ q \in Steps
    BY DEF OpenSteps, StepsOf
  <2>r. \A q \in Steps : RunOf[q] \in Runs
    BY DEF RunsAssumption
  <2> HIDE DEF new, view, mine, S
  <2>6. ViewFits(new, w, db, starts)
    <3>1. \A x \in Runs :
           /\ new.mine.status[x] # "absent" => new.seen.status[x] = db.status[x]
           /\ new.mine.status[x] # new.seen.status[x] =>
                new.seen.status[x] = "running" /\ new.mine.status[x] = "canceled"
      BY <2>1, <2>2, <2>3, <2>4
    <3>2. \A q \in Steps :
           /\ Known(new, q) => new.seen.step[q] = db.step[q]
           /\ new.seen.step[q] \in Over => new.mine.step[q] = new.seen.step[q]
           /\ new.mine.step[q] \in {"running", "completed"} => starts[q] > 0
      BY <1>0, <2>2, <2>3, <2>4, <2>r DEF Known, RowsGood
    <3>3. CallOn("cancel", r, S, NoStep).op = "cancel" /\ CallOn("cancel", r, S, NoStep).left = S
      BY DEF CallOn
    <3>4. \A i \in 1..Len(new.calls) :
             new.calls[i].op = "cancel" /\ \A q \in new.calls[i].left : new.mine.step[q] # "completed"
      BY <2>2, <2>3, <2>4, <2>5, <3>3
    <3> QED BY <1>0, <2>4, <3>1, <3>2, <3>4 DEF ViewFits
  <2> QED BY <1>0, <2>1, <2>6, OpensPipe
<1>2. ASSUME NEW s \in Steps, CancelStepRequest(w, s)
      PROVE  Goes(worker', db', starts')
  <2> DEFINE r == RunOf[s]
             view == Load(Empty, {r})
             mine == Mark(view, s, "failed")
             new == Session("request", {}, <<CallOn("save", r, {}, NoStep)>>, view, mine)
  <2>1. /\ db.status[r] = "running" /\ UNCHANGED <<db, starts>> /\ Admitted(w) /\ Becomes(w, new)
        /\ db.step[s] \in {"pending", "running"} /\ r \in Runs
    BY <1>2 DEF CancelStepRequest, Becomes, Session, OpenSteps, RunsAssumption
  <2>2. /\ \A x \in Runs : view.status[x] = IF x = r THEN "running" ELSE "absent"
        /\ \A q \in Steps : view.step[q] = IF RunOf[q] = r THEN db.step[q] ELSE "pending"
        /\ view \in Rows
    BY <2>1, LoadedRows
  <2>3. /\ mine.status = view.status /\ mine.step[s] = "failed"
        /\ \A q \in Steps \ {s} : mine.step[q] = view.step[q]
    <3> HIDE DEF view
    <3> QED BY <2>2, MarkedRows
  <2>4. /\ new.calls = <<CallOn("save", r, {}, NoStep)>> /\ new.queue = {}
        /\ new.seen = view /\ new.mine = mine
    BY DEF Session
  <2>r. \A q \in Steps : RunOf[q] \in Runs
    BY DEF RunsAssumption
  <2> HIDE DEF new, view, mine
  <2>6. ViewFits(new, w, db, starts)
    <3>1. \A x \in Runs :
           /\ new.mine.status[x] # "absent" => new.seen.status[x] = db.status[x]
           /\ new.mine.status[x] = new.seen.status[x]
      BY <2>1, <2>2, <2>3, <2>4
    <3>2. ASSUME NEW q \in Steps
          PROVE  /\ Known(new, q) => new.seen.step[q] = db.step[q]
                 /\ new.seen.step[q] \in Over => new.mine.step[q] = new.seen.step[q]
                 /\ new.mine.step[q] \in {"running", "completed"} => starts[q] > 0
      <4>1. CASE q = s
        BY <2>1, <2>2, <2>3, <2>4, <4>1 DEF Known, Over
      <4>2. CASE q # s
        BY <1>0, <2>2, <2>3, <2>4, <2>r, <4>2 DEF Known, RowsGood
      <4> QED BY <4>1, <4>2
    <3>4. \A i \in 1..Len(new.calls) : new.calls[i].op = "save"
      BY <2>4 DEF CallOn
    <3> QED BY <1>0, <2>4, <3>1, <3>2, <3>4 DEF ViewFits
  <2> QED BY <1>0, <2>1, <2>6, OpensPipe
<1> QED BY <1>0, <1>1, <1>2, ExecutePipe DEF Request

-----------------------------------------------------------------------------
(* The pump. *)
LEMMA BeginPipe ==
    ASSUME RunsAssumption, ~Overlap, TypeOK, PipeInv(worker, db, starts), PumpBegin
    PROVE  Goes(worker', db', starts')
<1>1. PICK Q \in SUBSET {r \in Runs : db.status[r] = "running"} :
           worker' = [worker EXCEPT ![Pump] = Session("pump", Q, <<>>, Load(Empty, Q), Load(Empty, Q))]
  BY DEF PumpBegin, Session
<1> DEFINE view == Load(Empty, Q)
           new == Session("pump", Q, <<>>, view, view)
<1>2. /\ Admitted(Pump) /\ Pump \in Workers /\ UNCHANGED <<db, starts>> /\ Becomes(Pump, new)
      /\ \A r \in Q : r \in Runs /\ db.status[r] = "running"
      /\ RowsGood(db, starts)
  BY <1>1 DEF PumpBegin, Workers, Becomes, PipeInv
<1>3. /\ \A r \in Runs : /\ view.status[r] = IF r \in Q THEN db.status[r] ELSE "absent"
                         /\ view.group[r] = IF r \in Q THEN db.group[r] ELSE 0
      /\ \A q \in Steps : view.step[q] = IF RunOf[q] \in Q THEN db.step[q] ELSE "pending"
  BY LoadedRows
<1>4. new.calls = <<>> /\ new.queue = Q /\ new.seen = view /\ new.mine = view
  BY DEF Session
<1>5. \A q \in Steps : RunOf[q] \in Runs /\ Group[q] \in Nat
  BY DEF RunsAssumption
<1> HIDE DEF view, new
<1>6. \A r \in Runs : /\ view.status[r] # "absent" => view.status[r] = db.status[r]
                      /\ r \in Q => view.status[r] = "running"
  BY <1>2, <1>3
<1>7. ASSUME NEW q \in Steps
      PROVE  /\ view.status[RunOf[q]] # "absent" => view.step[q] = db.step[q]
             /\ view.step[q] \in {"running", "completed"} => starts[q] > 0
             /\ view.status[RunOf[q]] = "running" /\ Group[q] < view.group[RunOf[q]] => Good(view, q)
  <2>1. /\ db.status[RunOf[q]] = "running" /\ Group[q] < db.group[RunOf[q]] => Good(db, q)
        /\ db.step[q] \in {"running", "completed"} => starts[q] > 0
    BY <1>2 DEF RowsGood
  <2>2. CASE RunOf[q] \in Q
    BY <1>3, <1>5, <2>1, <2>2 DEF Good
  <2>3. CASE RunOf[q] \notin Q
    BY <1>3, <1>5, <2>3
  <2> QED BY <2>2, <2>3
<1>8. 1..Len(new.calls) = {}
  BY <1>4
<1>9. ViewFits(new, Pump, db, starts)
  BY <1>4, <1>6, <1>7, <1>8 DEF ViewFits, Known
<1> QED BY <1>2, <1>9, OpensPipe

\* The pump leaves run r with `rows` and goes on with `calls`.
LEMMA PumpedPipe ==
    ASSUME RunsAssumption, TypeOK, StartsInv, OrderInv(worker, db, starts),
           PipeInv(worker, db, starts), NEW r \in Runs, Turn(r), NEW rows, NEW calls,
           Pumped(r, rows, calls),
           \A x \in Runs \ {r} : /\ rows.status[x] = worker[Pump].mine.status[x]
                                 /\ rows.group[x] = worker[Pump].mine.group[x],
           \/ rows.status[r] = "running" \/ rows.status[r] = "failed"
           \/ rows.status[r] = "completed" /\ \A q \in StepsOf(r) : Good(rows, q),
           \A q \in Steps :
             \/ rows.step[q] = worker[Pump].mine.step[q]
             \/ RunOf[q] = r /\ worker[Pump].mine.step[q] = "running" /\ rows.step[q] \in Over,
           \A q \in StepsOf(r) : rows.status[r] = "running" /\ Group[q] < rows.group[r]
              => Good(rows, q),
           \/ calls = <<>>
           \/ rows.status[r] = "running" /\ \E S, s : calls = <<CallOn("dispatch", r, S, s)>>
    PROVE  Goes(worker', db', starts')
<1> DEFINE old == worker[Pump]
           new == Session(old.busy, old.queue \ {r}, calls, old.seen, rows)
<1>1. /\ worker \in [Workers -> Worker] /\ Pump \in Workers /\ r \in old.queue /\ old # Idle
      /\ UNCHANGED <<db, starts>> /\ ViewFits(old, Pump, db, starts) /\ RowsGood(db, starts)
  BY DEF TypeOK, Workers, Turn, Pumped, Idle, PipeInv
<1>2. Becomes(Pump, new)
  BY <1>1, PumpedBecomes
<1>3. old.seen.status[r] = "running"
  <2>1. StackFits(old, db)
    BY <1>1 DEF OrderInv, OrderFits
  <2>2. old.mine.status[r] = "running"
    BY <1>1, ViewRun
  <2> QED BY <2>1, <2>2 DEF StackFits
<1>4. new.calls = calls /\ new.queue = old.queue \ {r} /\ new.seen = old.seen /\ new.mine = rows
  BY DEF Session
<1> HIDE DEF new
<1>5. /\ \A x \in Runs \ {r} : /\ new.mine.status[x] = old.mine.status[x]
                               /\ new.mine.group[x] = old.mine.group[x]
      /\ \/ new.mine.status[r] = "running" \/ new.mine.status[r] = "failed"
         \/ new.mine.status[r] = "completed" /\ \A q \in StepsOf(r) : Good(new.mine, q)
      /\ \A q \in Steps :
           \/ new.mine.step[q] = old.mine.step[q]
           \/ /\ RunOf[q] = r /\ old.mine.step[q] = "running"
              /\ new.mine.step[q] \in {"running", "completed", "failed"}
      /\ \A q \in StepsOf(r) : new.mine.status[r] = "running" /\ Group[q] < new.mine.group[r]
            => Good(new.mine, q)
      /\ \/ new.calls = <<>>
         \/ /\ new.mine.status[r] = "running"
            /\ \E S, s : new.calls = <<CallOn("dispatch", r, S, s)>>
  BY <1>4 DEF Over
<1>6. ViewFits(new, Pump, db, starts)
  <2>1. PICK o : o = old
    OBVIOUS
  <2>2. /\ ViewFits(o, Pump, db, starts) /\ r \in o.queue
        /\ new.queue = o.queue \ {r} /\ new.seen = o.seen /\ o.seen.status[r] = "running"
        /\ \A x \in Runs \ {r} : /\ new.mine.status[x] = o.mine.status[x]
                                 /\ new.mine.group[x] = o.mine.group[x]
        /\ \A q \in Steps :
             \/ new.mine.step[q] = o.mine.step[q]
             \/ /\ RunOf[q] = r /\ o.mine.step[q] = "running"
                /\ new.mine.step[q] \in {"running", "completed", "failed"}
    BY <1>1, <1>3, <1>4, <1>5, <2>1
  <2>3. /\ \/ new.mine.status[r] = "running" \/ new.mine.status[r] = "failed"
           \/ new.mine.status[r] = "completed" /\ \A q \in StepsOf(r) : Good(new.mine, q)
        /\ \A q \in StepsOf(r) : new.mine.status[r] = "running" /\ Group[q] < new.mine.group[r]
              => Good(new.mine, q)
        /\ \/ new.calls = <<>>
           \/ /\ new.mine.status[r] = "running"
              /\ \E S, s : new.calls = <<CallOn("dispatch", r, S, s)>>
    BY <1>5
  <2> QED BY ONLY RunsAssumption, r \in Runs, <2>2, <2>3, TurnFits
<1>7. PipeInv(worker', db, starts)
  BY <1>1, <1>2, <1>6, OthersIdle, PipeGoesOn
<1> QED BY <1>1, <1>7, StillAdvances DEF Goes

\* A run that the pump ends.
LEMMA EndedPipe ==
    ASSUME RunsAssumption, TypeOK, StartsInv, OrderInv(worker, db, starts),
           PipeInv(worker, db, starts), NEW r \in Runs, Turn(r),
           NEW rows \in Rows, Settles(r, rows), rows.status = worker[Pump].mine.status,
           NEW status, status = "failed" \/ (status = "completed" /\ \A q \in StepsOf(r) : Good(rows, q)),
           Pumped(r, [rows EXCEPT !.status[r] = status], <<>>)
    PROVE  Goes(worker', db', starts')
<1>1. PICK new : new = [rows EXCEPT !.status[r] = status]
  OBVIOUS
<1>2. /\ new.group = rows.group /\ new.step = rows.step
      /\ \A x \in Runs : new.status[x] = IF x = r THEN status ELSE rows.status[x]
  BY <1>1 DEF Rows
<1>3. \A x \in Runs \ {r} : /\ new.status[x] = worker[Pump].mine.status[x]
                            /\ new.group[x] = worker[Pump].mine.group[x]
  BY <1>2 DEF Settles
<1>4. \/ new.status[r] = "running" \/ new.status[r] = "failed"
      \/ new.status[r] = "completed" /\ \A q \in StepsOf(r) : Good(new, q)
  BY <1>2 DEF Good
<1>5. \A q \in Steps :
         \/ new.step[q] = worker[Pump].mine.step[q]
         \/ RunOf[q] = r /\ worker[Pump].mine.step[q] = "running" /\ new.step[q] \in Over
  BY <1>2 DEF Settles
<1>6. new.status[r] # "running" /\ Pumped(r, new, <<>>)
  BY <1>1, <1>2
<1>7. PICK calls : calls = <<>>
  OBVIOUS
<1> QED BY <1>3, <1>4, <1>5, <1>6, <1>7, PumpedPipe

\* The groups that have ended, once the tasks and child runs have been looked at.
LEMMA GroupsGood ==
    ASSUME RunsAssumption, TypeOK, PipeInv(worker, db, starts), NEW r \in Runs, Turn(r), NEW late,
           NEW rows, rows.step = Synced(r, late), NEW q \in StepsOf(r)
    PROVE  /\ Group[q] < worker[Pump].mine.group[r] => Good(rows, q)
           /\ Group[q] = worker[Pump].mine.group[r] /\ Ended(Current(r), Synced(r, late))
              /\ (~(\E s \in Current(r) : Synced(r, late)[s] = "failed") \/ mode[r] = "continue")
                => Good(rows, q)
<1>1. /\ q \in Steps /\ RunOf[q] = r /\ Pump \in Workers
      /\ Group[q] \in Nat /\ worker[Pump].mine.group[r] \in Nat
  BY DEF StepsOf, Workers, RunsAssumption, TypeOK, Worker, Rows
<1>2. ViewFits(worker[Pump], Pump, db, starts) /\ r \in worker[Pump].queue
  BY <1>1 DEF PipeInv, Turn
<1>3. worker[Pump].mine.status[r] = "running"
  BY <1>2, ViewRun
<1>4. ASSUME Group[q] < worker[Pump].mine.group[r]
      PROVE  Good(rows, q)
  <2>1. Good(worker[Pump].mine, q)
    BY <1>1, <1>2, <1>3, <1>4, ViewStep
  <2>2. q \notin Current(r)
    BY <1>1, <1>4 DEF Current, GroupSteps
  <2>3. Synced(r, late)[q] = worker[Pump].mine.step[q]
    BY <1>1, <2>2 DEF Synced
  <2> QED BY <2>1, <2>3 DEF Good
<1>5. ASSUME Group[q] = worker[Pump].mine.group[r], Ended(Current(r), Synced(r, late)),
             ~(\E s \in Current(r) : Synced(r, late)[s] = "failed") \/ mode[r] = "continue"
      PROVE  Good(rows, q)
  <2>1. q \in Current(r)
    BY <1>1, <1>5 DEF Current, GroupSteps
  <2>2. Synced(r, late)[q] \in Over
    BY <1>5, <2>1 DEF Ended
  <2> QED BY <1>1, <1>5, <2>1, <2>2 DEF Good, Over
<1> QED BY <1>4, <1>5

LEMMA TurnPipe ==
    ASSUME RunsAssumption, TypeOK, StartsInv, OrderInv(worker, db, starts),
           PipeInv(worker, db, starts), NEW r \in Runs, PumpTurn(r)
    PROVE  Goes(worker', db', starts')
<1> DEFINE o == worker[Pump]
<1>1. Turn(r) /\ r \in o.queue /\ Pump \in Workers /\ o.mine \in Rows
  BY DEF PumpTurn, PumpLate, PumpEmpty, PumpWait, PumpGroupEnded, Turn, Workers, TypeOK, Worker
<1>2. o.mine.status[r] = "running"
  BY <1>1, ViewRun DEF PipeInv
<1>3. Settles(r, o.mine)
  BY DEF Settles
<1>4. CASE PumpLate(r)
  <2> DEFINE step == [s \in Steps |-> IF RunOf[s] = r /\ o.mine.step[s] = "running"
                                      THEN "failed" ELSE o.mine.step[s]]
  <2>1. PICK rows : rows = [o.mine EXCEPT !.step = step]
    OBVIOUS
  <2>2. Settles(r, rows) /\ rows \in Rows
    BY <2>1, LateSettles
  <2>3. Pumped(r, [o.mine EXCEPT !.status[r] = "failed", !.step = step], <<>>)
    BY <1>4 DEF PumpLate
  <2> HIDE DEF step
  <2>4. /\ [o.mine EXCEPT !.status[r] = "failed", !.step = step] = [rows EXCEPT !.status[r] = "failed"]
        /\ rows.status = o.mine.status
    BY <1>1, <2>1 DEF Rows
  <2>5. Pumped(r, [rows EXCEPT !.status[r] = "failed"], <<>>)
    BY <2>3, <2>4
  <2> QED BY <1>1, <2>2, <2>4, <2>5, EndedPipe
<1>5. CASE PumpEmpty(r)
  <2>1. Pumped(r, [o.mine EXCEPT !.status[r] = "failed"], <<>>)
    BY <1>5 DEF PumpEmpty
  <2>2. PICK rows \in Rows : rows = o.mine
    BY <1>1
  <2> QED BY <1>1, <1>3, <2>1, <2>2, EndedPipe
<1>6. CASE PumpWait(r)
  <2>1. PICK late : Pumped(r, [o.mine EXCEPT !.step = Synced(r, late)], <<>>)
    BY <1>6 DEF PumpWait
  <2>2. PICK new : new = [o.mine EXCEPT !.step = Synced(r, late)]
    OBVIOUS
  <2>3. Settles(r, new) /\ new.step = Synced(r, late) /\ new.status = o.mine.status
        /\ new.group = o.mine.group
    BY <1>1, <2>2, SyncedSettles DEF Rows
  <2>4. Pumped(r, new, <<>>)
    BY <2>1, <2>2
  <2>5. \A q \in StepsOf(r) : Group[q] < new.group[r] => Good(new, q)
    BY <1>1, <2>3, GroupsGood
  <2>6. /\ \A x \in Runs \ {r} : /\ new.status[x] = worker[Pump].mine.status[x]
                                 /\ new.group[x] = worker[Pump].mine.group[x]
        /\ new.status[r] = "running"
        /\ \A q \in Steps :
             \/ new.step[q] = worker[Pump].mine.step[q]
             \/ RunOf[q] = r /\ worker[Pump].mine.step[q] = "running" /\ new.step[q] \in Over
    BY <1>2, <2>3 DEF Settles
  <2>7. PICK calls : calls = <<>>
    OBVIOUS
  <2> QED BY <1>1, <2>4, <2>5, <2>6, <2>7, PumpedPipe
<1>7. CASE PumpGroupEnded(r)
  <2>1. PICK late :
          LET rows == [o.mine EXCEPT !.step = Synced(r, late)]
              failed == \E s \in Current(r) : Synced(r, late)[s] = "failed"
          IN
          /\ Ended(Current(r), Synced(r, late))
          /\ \/ Pumped(r, [rows EXCEPT !.status[r] = "failed"], <<>>)
             \/ /\ ~failed \/ mode[r] = "continue"
                /\ LaterGroups(r) = {}
                /\ Pumped(r, [rows EXCEPT !.status[r] = "completed"], <<>>)
             \/ /\ ~failed \/ mode[r] = "continue"
                /\ \E g \in LaterGroups(r) :
                     /\ \A h \in LaterGroups(r) : g <= h
                     /\ Pumped(r, [rows EXCEPT !.group[r] = g],
                               <<CallOn("dispatch", r, GroupSteps(r, g), NoStep)>>)
    BY <1>7 DEF PumpGroupEnded
  <2>2. PICK rows : rows = [o.mine EXCEPT !.step = Synced(r, late)]
    OBVIOUS
  <2>3. /\ Settles(r, rows) /\ rows \in Rows /\ rows.step = Synced(r, late)
        /\ rows.status = o.mine.status /\ rows.group = o.mine.group
    BY <1>1, <2>2, SyncedSettles DEF Rows
  <2> DEFINE goodSoFar == ~(\E s \in Current(r) : Synced(r, late)[s] = "failed") \/ mode[r] = "continue"
  <2>4. \A q \in StepsOf(r) :
          /\ q \in Steps /\ RunOf[q] = r /\ Group[q] \in Nat /\ o.mine.group[r] \in Nat
          /\ Group[q] < o.mine.group[r] => Good(rows, q)
          /\ Group[q] = o.mine.group[r] /\ goodSoFar => Good(rows, q)
          /\ Group[q] > o.mine.group[r] => Group[q] \in LaterGroups(r)
    <3>1. ASSUME NEW q \in StepsOf(r)
          PROVE  /\ Group[q] < o.mine.group[r] => Good(rows, q)
                 /\ Group[q] = o.mine.group[r] /\ goodSoFar => Good(rows, q)
      BY <1>1, <2>1, <2>3, GroupsGood
    <3>2. ASSUME NEW q \in StepsOf(r)
          PROVE  /\ q \in Steps /\ RunOf[q] = r /\ Group[q] \in Nat /\ o.mine.group[r] \in Nat
                 /\ Group[q] > o.mine.group[r] => Group[q] \in LaterGroups(r)
      BY <1>1 DEF StepsOf, LaterGroups, RunsAssumption, Rows
    <3> QED BY <3>1, <3>2
  <2>5. CASE Pumped(r, [rows EXCEPT !.status[r] = "failed"], <<>>)
    BY <1>1, <2>3, <2>5, EndedPipe
  <2>6. CASE goodSoFar /\ LaterGroups(r) = {} /\ Pumped(r, [rows EXCEPT !.status[r] = "completed"], <<>>)
    <3>1. \A q \in StepsOf(r) : Good(rows, q)
      <4> SUFFICES ASSUME NEW q \in StepsOf(r) PROVE Good(rows, q)
        OBVIOUS
      <4>1. Group[q] \in Nat /\ o.mine.group[r] \in Nat /\ ~(Group[q] > o.mine.group[r])
        BY <2>4, <2>6
      <4>2. Group[q] < o.mine.group[r] \/ Group[q] = o.mine.group[r]
        BY <4>1
      <4> QED BY <2>4, <2>6, <4>2
    <3> QED BY <1>1, <2>3, <2>6, <3>1, EndedPipe
  <2>7. ASSUME NEW g \in LaterGroups(r), \A h \in LaterGroups(r) : g <= h, goodSoFar,
               Pumped(r, [rows EXCEPT !.group[r] = g],
                      <<CallOn("dispatch", r, GroupSteps(r, g), NoStep)>>)
        PROVE  Goes(worker', db', starts')
    <3>1. PICK new : new = [rows EXCEPT !.group[r] = g]
      OBVIOUS
    <3>2. /\ new.status = rows.status /\ new.step = rows.step
          /\ \A x \in Runs : new.group[x] = IF x = r THEN g ELSE rows.group[x]
      BY <2>3, <3>1 DEF Rows
    <3>3. \A q \in StepsOf(r) : Group[q] < new.group[r] => Good(new, q)
      <4> SUFFICES ASSUME NEW q \in StepsOf(r), Group[q] < g
                   PROVE  Good(rows, q)
        BY <3>2 DEF Good
      <4>1. g \in Nat
        BY DEF LaterGroups, StepsOf, RunsAssumption
      <4>2. ~(Group[q] > o.mine.group[r])
        BY <2>4, <2>7, <4>1
      <4> QED BY <2>4, <2>7, <4>2
    <3>4. /\ \A x \in Runs \ {r} : /\ new.status[x] = worker[Pump].mine.status[x]
                                   /\ new.group[x] = worker[Pump].mine.group[x]
          /\ new.status[r] = "running"
          /\ \A q \in Steps :
               \/ new.step[q] = worker[Pump].mine.step[q]
               \/ RunOf[q] = r /\ worker[Pump].mine.step[q] = "running" /\ new.step[q] \in Over
      BY <1>2, <2>3, <3>2 DEF Settles
    <3>5. PICK calls : calls = <<CallOn("dispatch", r, GroupSteps(r, g), NoStep)>>
      OBVIOUS
    <3>6. Pumped(r, new, calls) /\ \E S, s : calls = <<CallOn("dispatch", r, S, s)>>
      BY <2>7, <3>1, <3>5
    <3> QED BY ONLY RunsAssumption, TypeOK, StartsInv, OrderInv(worker, db, starts),
           PipeInv(worker, db, starts), r \in Runs, <1>1, <3>3, <3>4, <3>6, PumpedPipe
  <2> QED BY <2>1, <2>2, <2>5, <2>6, <2>7
<1> QED BY <1>4, <1>5, <1>6, <1>7 DEF PumpTurn

LEMMA PumpPipe ==
    ASSUME RunsAssumption, ~Overlap, TypeOK, StartsInv, OrderInv(worker, db, starts),
           PipeInv(worker, db, starts), PumpBegin \/ PumpEnd \/ \E r \in Runs : PumpTurn(r)
    PROVE  Goes(worker', db', starts')
<1>1. ASSUME PumpEnd
      PROVE  Goes(worker', db', starts')
  <2>1. Pump \in Workers /\ worker[Pump] # Idle
    BY <1>1 DEF PumpEnd, Workers, Idle
  <2>2. UNCHANGED starts /\ worker' = [worker EXCEPT ![Pump] = Idle] /\ db' = Committed(Pump)
    BY <1>1 DEF PumpEnd
  <2> QED BY <2>1, <2>2, EndsPipe
<1> QED BY <1>1, BeginPipe, TurnPipe

-----------------------------------------------------------------------------
(* Faults, and the whole system. *)
LEMMA RestartPipe ==
    ASSUME RunsAssumption, TypeOK, PipeInv(worker, db, starts), Restart
    PROVE  Goes(worker', db', starts')
<1>1. /\ \A v \in Workers : worker'[v] = Idle
      /\ starts' = starts /\ RowsGood(db, starts)
  BY DEF Restart, PipeInv
<1>2. PICK rows : rows = db'
  OBVIOUS
<1>3. Solo(worker') /\ \A v \in Workers : ViewFits(worker'[v], v, rows, starts)
  BY <1>1, IdleViews DEF Solo
<1>4. CASE db' = db
  BY <1>1, <1>2, <1>3, <1>4, StillAdvances DEF Goes, PipeInv
<1>5. CASE db' # db
  <2>1. /\ \A r \in Runs : rows.status[r] = IF db.status[r] = "running" THEN "failed" ELSE db.status[r]
        /\ rows.group = db.group
        /\ \A s \in Steps : \/ rows.step[s] = db.step[s]
                            \/ /\ rows.step[s] = "failed" /\ db.step[s] = "running"
                               /\ db.status[RunOf[s]] = "running"
    <3> DEFINE stale == {r \in Runs : db.status[r] = "running"}
               status == [r \in Runs |-> IF r \in stale THEN "failed" ELSE db.status[r]]
               step == [s \in Steps |-> IF RunOf[s] \in stale /\ db.step[s] = "running"
                                        THEN "failed" ELSE db.step[s]]
    <3>1. rows = [db EXCEPT !.status = status, !.step = step]
      BY <1>2, <1>5 DEF Restart
    <3>2. rows.status = status /\ rows.step = step /\ rows.group = db.group
      <4> HIDE DEF status, step
      <4> QED BY <3>1 DEF TypeOK, Rows
    <3>3. \A r \in Runs : status[r] = IF db.status[r] = "running" THEN "failed" ELSE db.status[r]
      OBVIOUS
    <3>4. \A s \in Steps : \/ step[s] = db.step[s]
                           \/ /\ step[s] = "failed" /\ db.step[s] = "running"
                              /\ db.status[RunOf[s]] = "running"
      OBVIOUS
    <3> HIDE DEF status, step
    <3> QED BY <3>2, <3>3, <3>4
  <2>2. Advances(rows)
    BY <2>1 DEF Advances, Over
  <2>3. RowsGood(rows, starts)
    <3> SUFFICES ASSUME NEW q \in Steps
                 PROVE  /\ rows.status[RunOf[q]] # "running"
                        /\ rows.status[RunOf[q]] = "absent" => rows.step[q] = "pending"
                        /\ rows.step[q] \in {"running", "completed"} => starts[q] > 0
      BY DEF RowsGood
    <3>1. RunOf[q] \in Runs
      BY DEF RunsAssumption
    <3>2. /\ db.status[RunOf[q]] = "absent" => db.step[q] = "pending"
          /\ db.step[q] \in {"running", "completed"} => starts[q] > 0
      BY <1>1 DEF RowsGood
    <3> QED BY <2>1, <3>1, <3>2
  <2> QED BY <1>1, <1>2, <1>3, <2>2, <2>3 DEF Goes, PipeInv
<1> QED BY <1>4, <1>5

LEMMA RaisePipe ==
    ASSUME RunsAssumption, TypeOK, StartsInv, OrderInv(worker, db, starts),
           PipeInv(worker, db, starts), NEW w \in Workers, DispatchRaises(w)
    PROVE  Goes(worker', db', starts')
<1> DEFINE old == worker[w]
<1>1. /\ UNCHANGED <<db, starts>> /\ worker \in [Workers -> Worker] /\ old.mine \in Rows
      /\ old.calls \in Seq(Call) /\ old.calls # <<>> /\ Now(w) = old.calls[1] /\ old # Idle
  BY NowOK, CallsNotIdle DEF DispatchRaises, InCall, TypeOK, Worker
<1>2. CASE Now(w).for # NoStep /\ Continue(w, Mark(old.mine, Now(w).for, "failed"), Tail(old.calls))
  <2>1. PICK s : s = Now(w).for
    OBVIOUS
  <2>2. /\ s \in Steps /\ old.mine.step[s] = "pending" /\ Tail(old.calls) \in Seq(Call)
        /\ Continues(Tail(old.calls), old.calls)
    BY <1>1, <1>2, <2>1, WaitingStep
  <2>3. PICK calls \in Seq(Call) : calls = Tail(old.calls)
    BY <2>2
  <2> QED BY <1>1, <1>2, <2>1, <2>2, <2>3, MarkPipe
<1>3. CASE old.busy = "pump" /\ Continue(w, [old.mine EXCEPT !.status[Now(w).run] = "failed"], <<>>)
  <2>1. w = Pump /\ ViewFits(old, w, db, starts) /\ RowsGood(db, starts)
    BY <1>3 DEF StartsInv, SessionFits, PipeInv
  <2>2. PICK s \in Now(w).left : InCall(w, "dispatch")
    BY DEF DispatchRaises
  <2>3. /\ s \in Steps /\ Holds(old.calls, s) /\ old.mine.status[RunOf[s]] = "running"
        /\ db.status[RunOf[s]] = "running" /\ RunOf[s] \in Runs
    BY <2>2, ToDispatch, ReadyToStart DEF RunsAssumption
  <2>4. RunOf[s] = Now(w).run
    <3>1. 1 \in 1..Len(old.calls) /\ old.calls[1].op = "dispatch"
      BY <1>1, <2>2, PoppedCall DEF InCall
    <3>2. CallFits(old, w, 1, starts)
      BY <3>1 DEF StartsInv, SessionFits
    <3> QED BY <1>1, <2>2, <3>1, <3>2 DEF CallFits
  <2>5. PICK r \in Runs : r = RunOf[s]
    BY <2>3
  <2>6. r \notin old.queue
    <3>1. PumpFits(old, db, s)
      BY <2>1, <2>3 DEF OrderInv, OrderFits
    <3> QED BY <2>3, <2>5, <3>1 DEF PumpFits
  <2>7. old.seen.status[r] = "running"
    <3>1. old.mine.status[r] # "absent" => old.seen.status[r] = db.status[r]
      BY <2>1, ViewRun
    <3> QED BY <2>3, <2>5, <3>1
  <2> DEFINE rows == [old.mine EXCEPT !.status[r] = "failed"]
             new == Session(old.busy, old.queue, <<>>, old.seen, rows)
  <2>8. Becomes(w, new)
    BY <1>1, <1>3, <2>4, <2>5, ContinueBecomes
  <2>9. new.calls = <<>> /\ new.queue = old.queue /\ new.seen = old.seen /\ new.mine = rows
    BY DEF Session
  <2>10. /\ rows.step = old.mine.step /\ rows.group = old.mine.group
         /\ \A x \in Runs : rows.status[x] = IF x = r THEN "failed" ELSE old.mine.status[x]
    BY <1>1 DEF Rows
  <2> HIDE DEF new, rows
  <2>11. ASSUME NEW x \in Runs
         PROVE  /\ new.mine.status[x] # "absent" => new.seen.status[x] = db.status[x]
                /\ new.mine.status[x] # new.seen.status[x] =>
                     /\ new.seen.status[x] = "running"
                     /\ \/ new.mine.status[x] \in {"failed", "canceled"}
                        \/ new.mine.status[x] = "completed" /\ \A q \in StepsOf(x) : Good(new.mine, q)
                /\ x \in new.queue => new.mine.status[x] = "running"
    <3>1. CASE x = r
      BY <2>3, <2>5, <2>6, <2>7, <2>9, <2>10, <3>1
    <3>2. CASE x # r
      <4>1. /\ old.mine.status[x] # "absent" => old.seen.status[x] = db.status[x]
            /\ old.mine.status[x] # old.seen.status[x] =>
                 /\ old.seen.status[x] = "running"
                 /\ \/ old.mine.status[x] \in {"failed", "canceled"}
                    \/ old.mine.status[x] = "completed" /\ \A q \in StepsOf(x) : Good(old.mine, q)
            /\ x \in old.queue => old.mine.status[x] = "running"
        BY <2>1, ViewRun
      <4> QED BY <2>9, <2>10, <3>2, <4>1 DEF Good
    <3> QED BY <3>1, <3>2
  <2>12. ASSUME NEW q \in Steps
         PROVE  /\ Known(new, q) => new.seen.step[q] = db.step[q]
                /\ new.seen.step[q] \in Over => new.mine.step[q] = new.seen.step[q]
                /\ new.mine.step[q] \in {"running", "completed"} => starts[q] > 0
                /\ new.mine.status[RunOf[q]] = "running" /\ Group[q] < new.mine.group[RunOf[q]]
                     => Good(new.mine, q)
    <3>1. /\ Known(old, q) => old.seen.step[q] = db.step[q]
          /\ old.seen.step[q] \in Over => old.mine.step[q] = old.seen.step[q]
          /\ old.mine.step[q] \in {"running", "completed"} => starts[q] > 0
          /\ old.mine.status[RunOf[q]] = "running" /\ Group[q] < old.mine.group[RunOf[q]]
               => Good(old.mine, q)
      BY <2>1, ViewStep
    <3>2. RunOf[q] \in Runs
      BY DEF RunsAssumption
    <3>3. old.mine.status[r] # "absent"
      BY <2>3, <2>5
    <3> QED BY <2>9, <2>10, <3>1, <3>2, <3>3 DEF Known, Good
  <2>13. 1..Len(new.calls) = {}
    BY <2>9
  <2>14. ViewFits(new, w, db, starts)
    BY <2>11, <2>12, <2>13 DEF ViewFits
  <2>15. PipeInv(worker', db, starts)
    BY <1>1, <2>1, <2>8, <2>14, OthersIdle, PipeGoesOn
  <2> QED BY <1>1, <2>15, StillAdvances DEF Goes
<1>4. CASE worker' = [worker EXCEPT ![w] = Idle]
  BY <1>1, <1>4, EndsPipe
<1> QED BY <1>2, <1>3, <1>4 DEF DispatchRaises

LEMMA PipeStep ==
    ASSUME RunsAssumption, ~Overlap, TypeOK, StartsInv, OrderInv(worker, db, starts),
           PipeInv(worker, db, starts), [Next]_vars
    PROVE  mode' = mode /\ Goes(worker', db', starts')
<1>1. CASE \E w \in Callers : Request(w)
  BY <1>1, RequestPipe DEF Request, Execute, CancelRequest, CancelStepRequest
<1>2. CASE \E w \in Workers : Proceed(w)
  BY <1>2, ProceedPipe DEF Proceed, DispatchTask, StartChild, DispatchFails, Return, CancelStep
<1>3. CASE PumpBegin \/ PumpEnd \/ \E r \in Runs : PumpTurn(r)
  <2>1. mode' = mode
    BY ZenonT(30), <1>3 DEF PumpBegin, PumpEnd, PumpTurn, PumpLate, PumpEmpty, PumpWait, PumpGroupEnded, Pumped
  <2> QED BY <1>3, <2>1, PumpPipe
<1>4. CASE UNCHANGED <<db, mode, starts, worker>>
  BY <1>4, StillAdvances DEF Goes
<1>5. CASE Fault
  <2>1. ASSUME NEW w \in Workers, Disconnect(w)
        PROVE  mode' = mode /\ Goes(worker', db', starts')
    BY <2>1, EndsPipe DEF Disconnect
  <2>2. ASSUME NEW w \in Workers, DispatchRaises(w)
        PROVE  mode' = mode /\ Goes(worker', db', starts')
    BY <2>2, RaisePipe DEF DispatchRaises
  <2>3. CASE Restart
    BY <2>3, RestartPipe DEF Restart
  <2> QED BY <1>5, <2>1, <2>2, <2>3 DEF Fault
<1> QED BY <1>1, <1>2, <1>3, <1>4, <1>5 DEF Next, TaskEnds, vars

LEMMA PipeInit == ASSUME RunsAssumption, Init PROVE PipeInv(worker, db, starts)
<1>1. Solo(worker) /\ \A v \in Workers : ViewFits(worker[v], v, db, starts)
  BY IdleViews DEF Init, Solo
<1>2. RowsGood(db, starts)
  BY DEF RowsGood, Init, Empty, RunsAssumption
<1> QED BY <1>1, <1>2 DEF PipeInv

\* The engine implements WorkflowPipeline as long as its sessions do not overlap
\* and single steps are canceled in order (execute_workflow, cancel_run and
\* pump_running_workflows): runs end once, steps start in open runs and in the
\* order of their groups, results are final, and a completed run has completed
\* its steps, whatever fails and whenever the process restarts.
THEOREM EngineKeepsPipeline ==
    ASSUME RunsAssumption, NestingAssumption, ~Overlap, CancelsInOrder PROVE Spec => KeepsPipeline
<1> DEFINE SoFar == TypeOK /\ StartsInv /\ OrderInv(worker, db, starts)
           Inv == SoFar /\ PipeInv(worker, db, starts)
<1>1. Init => Inv /\ Pipeline!Init
  <2> SUFFICES ASSUME Init
               PROVE  TypeOK /\ StartsInv /\ OrderInv(worker, db, starts)
                      /\ PipeInv(worker, db, starts) /\ Pipeline!Init
    OBVIOUS
  <2>1. db.status = [r \in Runs |-> "absent"] /\ {s \in Steps : starts[s] > 0} = {}
        /\ [s \in Steps |-> IF db.step[s] \in Over THEN db.step[s] ELSE "open"]
             = [s \in Steps |-> "open"]
    BY DEF Init, Empty, Over
  <2>2. mode \in [Runs -> {"stop", "continue"}]
    BY DEF Init
  <2> QED BY <2>1, <2>2, TypeInit, StartsInit, OrderInit, PipeInit DEF Pipeline!Init
<1>2. Inv /\ [Next]_vars => Inv' /\ [Pipeline!Next]_(Pipeline!vars)
  <2> SUFFICES ASSUME TypeOK, StartsInv, OrderInv(worker, db, starts), PipeInv(worker, db, starts),
                      [Next]_vars
               PROVE  /\ (TypeOK /\ StartsInv /\ OrderInv(worker, db, starts))'
                      /\ PipeInv(worker, db, starts)'
                      /\ Pipeline!Next
    OBVIOUS
  <2>1. TypeOK'
    BY TypeStep
  <2>2. StartsInv'
    BY <2>1, StartsStep
  <2>3. OrderInv(worker', db', starts')
    BY <2>1, OrderStep
  <2>4. mode' = mode /\ Goes(worker', db', starts')
    BY PipeStep
  <2>5. PipeInv(worker, db, starts)'
    BY SMTT(30), <2>4 DEF Goes, PipeInv, ViewFits, RowsGood, Good
  <2>6. Pipeline!Next
    BY <2>1, <2>4, Simulates
  <2> QED BY <2>1, <2>2, <2>3, <2>5, <2>6
<1> HIDE DEF Inv
<1>3. Spec => Pipeline!Spec
  BY <1>1, <1>2, PTL DEF Spec, Pipeline!Spec
<1> QED BY <1>3 DEF KeepsPipeline
=============================================================================
