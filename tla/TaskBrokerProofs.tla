--------------------------- MODULE TaskBrokerProofs ---------------------------
(***************************************************************************)
(* What TLAPS proves of TaskBroker, for every set of users, tasks,         *)
(* sessions and orders, every bound and every answer of the agents.        *)
(***************************************************************************)
EXTENDS TaskBroker, SumTheorems, TLAPS

-----------------------------------------------------------------------------
(* Types.                                                                  *)

\* A session that is open works on a task, and one about to reserve credits
\* knows from whom.
BusyOnTask ==
  \A s \in Sessions :
    /\ session[s].at # "idle" => session[s].task \in Tasks
    /\ session[s].at = "reserve" => session[s].user \in Users

TypeInv == TypeOK /\ BusyOnTask

\* The idle session is a session.
LEMMA IdleType == Idle \in Session /\ Idle.at = "idle" /\ Idle.task = NoTask
  BY DEF Idle, Session, Points, Statuses, NoAccount, Account

\* An order names users and a price.
LEMMA OrderType ==
  ASSUME TypeOK, NEW t \in Tasks
  PROVE  /\ Creator(t) \in Users
         /\ Owner(t) \in Users
         /\ Quoted(t) \in Nat
         /\ Held(t) \subseteq Users
         /\ Participants(t) \subseteq Users
  BY OrdersAssumption DEF TypeOK, Order, Creator, Owner, Quoted, Held, Participants

\* What a session reads of the accounts are accounts.
LEMMA LoadedType ==
  ASSUME TypeOK, NEW s \in Sessions
  PROVE  Loaded(s) \in [Users -> Account]
  BY DEF TypeOK, Loaded, View, Session

LEMMA SnapshotType ==
  ASSUME TypeOK, NEW held \in SUBSET Users
  PROVE  Snapshot(held) \in [Users -> Account]
  BY DEF TypeOK, Snapshot, NoAccount, Account

\* Opening a session for a task yields a session that works on it.
LEMMA OpenedType ==
  ASSUME TypeOK, NEW t \in Tasks, NEW u \in Users \cup {NoUser},
         NEW point \in Points, NEW new \in Statuses
  PROVE  /\ Opened(t, u, point, new) \in Session
         /\ Opened(t, u, point, new).at = point
         /\ Opened(t, u, point, new).task = t
         /\ Opened(t, u, point, new).user = u
         /\ Opened(t, u, point, new).next = new
  BY OrderType, SnapshotType DEF Opened, Session

\* The ledger's operations keep the accounts table a table of accounts.
LEMMA LedgerType ==
  ASSUME NEW current \in [Users -> Account], NEW loaded \in [Users -> Account],
         NEW u \in Users, NEW p \in Users, NEW amount \in Nat
  PROVE  /\ ReserveCredits(current, loaded, u, amount) \in [Users -> Account]
         /\ ReleaseCredits(current, loaded, u, amount) \in [Users -> Account]
         /\ ChargeCredits(current, loaded, u, p, amount) \in [Users -> Account]
<1>1. \A c \in [Users -> Account], r \in Int, v \in Users :
        /\ SetReserved(c, loaded, v, r) \in [Users -> Account]
        /\ SetBalance(c, loaded, v, r) \in [Users -> Account]
  BY DEF SetReserved, SetBalance, Column, Account
<1>2. /\ \A v \in Users : loaded[v].reserved \in Int /\ loaded[v].balance \in Int
      /\ Fee(amount) \in Int
  BY DEF Account, Fee
<1>3. ReserveCredits(current, loaded, u, amount) \in [Users -> Account]
  BY <1>1, <1>2 DEF ReserveCredits
<1>4. ReleaseCredits(current, loaded, u, amount) \in [Users -> Account]
  BY <1>1, <1>2 DEF ReleaseCredits
<1>5. ChargeCredits(current, loaded, u, p, amount) \in [Users -> Account]
  <2> DEFINE debited == SetReserved(current, loaded, u, loaded[u].reserved - amount)
  <2>1. debited \in [Users -> Account]
    BY <1>1, <1>2
  <2>2. /\ loaded[u].balance - amount + (amount - Fee(amount)) \in Int
        /\ loaded[u].balance - amount \in Int
        /\ loaded[p].balance + (amount - Fee(amount)) \in Int
    BY <1>2
  <2> HIDE DEF debited
  <2>3. /\ SetBalance(debited, loaded, u,
                      loaded[u].balance - amount + (amount - Fee(amount)))
             \in [Users -> Account]
        /\ SetBalance(SetBalance(debited, loaded, u, loaded[u].balance - amount),
                      loaded, p, loaded[p].balance + (amount - Fee(amount)))
             \in [Users -> Account]
    BY <1>1, <2>1, <2>2
  <2> QED BY <2>3 DEF ChargeCredits, debited
<1> QED BY <1>3, <1>4, <1>5

LEMMA TypeInit == Init => TypeInv
<1> SUFFICES ASSUME Init PROVE TypeInv
  OBVIOUS
<1>1. account \in [Users -> Account]
  BY CreditsAssumption DEF Init, Account
<1>2. session \in [Sessions -> Session] /\ BusyOnTask
  BY IdleType DEF Init, BusyOnTask
<1>3. status \in [Tasks -> Statuses]
  BY DEF Init, Statuses
<1> QED BY <1>1, <1>2, <1>3 DEF Init, TypeInv, TypeOK

\* The steps that open a session.
LEMMA TypeRequest ==
  ASSUME TypeInv, NEW s \in Sessions, NEW t \in Tasks, Request(s, t)
  PROVE  TypeInv'
<1> USE DEF TypeInv
<1>1. ASSUME NEW u \in Users \cup {NoUser}, NEW point \in Points,
             NEW new \in Statuses, point = "reserve" => u \in Users,
             Open(s, t, u, point, new)
      PROVE  /\ session' \in [Sessions -> Session]
             /\ \A o \in Sessions :
                  /\ session'[o].at # "idle" => session'[o].task \in Tasks
                  /\ session'[o].at = "reserve" => session'[o].user \in Users
  <2> DEFINE opened == Opened(t, u, point, new)
  <2>1. /\ opened \in Session /\ opened.at = point
        /\ opened.task = t /\ opened.user = u
    BY OpenedType
  <2>2. session' = [session EXCEPT ![s] = opened] /\ session \in [Sessions -> Session]
    BY <1>1 DEF Open, TypeOK
  <2> HIDE DEF opened
  <2>3. \A o \in Sessions : session'[o] = IF o = s THEN opened ELSE session[o]
    BY <2>2
  <2> QED BY <1>1, <2>1, <2>2, <2>3 DEF BusyOnTask
<1>2. CASE CreateBegin(s, t)
  <2> DEFINE begun == [at |-> "reserve", task |-> t, user |-> Creator(t),
                       next |-> "submitted", held |-> {Owner(t)},
                       copy |-> Snapshot({Owner(t)})]
  <2>1. begun \in Session
    BY OrderType, SnapshotType DEF Session, Points, Statuses
  <2>2. begun.task \in Tasks /\ begun.user \in Users
    BY OrderType
  <2>3. session' = [session EXCEPT ![s] = begun]
    BY <1>2 DEF CreateBegin
  <2> HIDE DEF begun
  <2>4. session' \in [Sessions -> Session] /\ BusyOnTask'
    BY <2>1, <2>2, <2>3 DEF TypeOK, BusyOnTask
  <2> QED BY <1>2, <2>4 DEF CreateBegin, TypeOK, table, background
<1>3. CASE ConfirmLoad(s, t)
  <2>1. PICK u \in Participants(t) :
          Open(s, t, u, IF PaysCredits(t) THEN "reserve" ELSE "submit", "submitted")
    BY <1>3 DEF ConfirmLoad
  <2>2. session' \in [Sessions -> Session] /\ BusyOnTask'
    BY <1>1, <2>1, OrderType DEF Points, Statuses, BusyOnTask
  <2> QED BY <1>3, <2>2 DEF ConfirmLoad, TypeOK, table, background
<1>4. CASE ReceiptLoad(s, t)
  <2>1. session' \in [Sessions -> Session] /\ BusyOnTask'
    BY <1>1, <1>4 DEF ReceiptLoad, Points, Statuses, BusyOnTask
  <2> QED BY <1>4, <2>1 DEF ReceiptLoad, TypeOK, table, background
<1>5. CASE CancelLoad(s, t)
  <2>1. PICK u \in Participants(t) : Open(s, t, u, "write", "canceled")
    BY <1>5 DEF CancelLoad
  <2>2. session' \in [Sessions -> Session] /\ BusyOnTask'
    BY <1>1, <2>1, OrderType DEF Points, Statuses, Terminal, BusyOnTask
  <2> QED BY <1>5, <2>2 DEF CancelLoad, TypeOK, table, background
<1>6. CASE MessageLoad(s, t)
  <2>1. session' \in [Sessions -> Session] /\ BusyOnTask'
    BY <1>1, <1>6 DEF MessageLoad, Points, Statuses, BusyOnTask
  <2> QED BY <1>6, <2>1 DEF MessageLoad, TypeOK, table, background
<1>7. ASSUME NEW new \in Statuses, UpdateLoad(s, t, new)
      PROVE  session' \in [Sessions -> Session] /\ BusyOnTask'
  BY <1>1, <1>7 DEF UpdateLoad, Points, BusyOnTask
<1>8. CASE WebhookLoad(s, t)
  <2>1. session' \in [Sessions -> Session] /\ BusyOnTask'
    BY <1>7, <1>8, AgentAssumption DEF WebhookLoad
  <2> QED BY <1>8, <2>1 DEF WebhookLoad, TypeOK, table, background
<1>9. CASE AgentResult(s, t)
  <2>1. session' \in [Sessions -> Session] /\ BusyOnTask'
    BY <1>7, <1>9, AgentAssumption DEF AgentResult, Statuses, Terminal
  <2> QED BY <1>9, <2>1 DEF AgentResult, TypeOK, table
<1>10. CASE StreamResult(s, t)
  <2>1. session' \in [Sessions -> Session] /\ BusyOnTask'
    BY <1>7, <1>10 DEF StreamResult, Statuses, Terminal
  <2> QED BY <1>10, <2>1 DEF StreamResult, TypeOK, table
<1> QED BY <1>2, <1>3, <1>4, <1>5, <1>6, <1>8, <1>9, <1>10 DEF Request

\* Going on leaves a session with the task it works on; ending it, idle.
LEMMA SessionStep ==
  ASSUME TypeInv, NEW s \in Sessions
  PROVE  /\ Close(s) => session' \in [Sessions -> Session] /\ BusyOnTask'
         /\ \A point \in Points \ {"reserve"} :
              session[s].at # "idle" /\ Advance(s, point)
                => session' \in [Sessions -> Session] /\ BusyOnTask'
<1>1. Close(s) => session' \in [Sessions -> Session] /\ BusyOnTask'
  BY IdleType DEF TypeInv, TypeOK, BusyOnTask, Close
<1>2. ASSUME NEW point \in Points \ {"reserve"}, session[s].at # "idle",
             Advance(s, point)
      PROVE  session' \in [Sessions -> Session] /\ BusyOnTask'
  <2> DEFINE moved == [session[s] EXCEPT !.at = point]
  <2>1. session[s] \in Session /\ session[s].task \in Tasks
    BY <1>2 DEF TypeInv, TypeOK, BusyOnTask
  <2>2. moved \in Session /\ moved.at = point /\ moved.task \in Tasks
    BY <2>1 DEF Session
  <2>3. session' = [session EXCEPT ![s] = moved]
    BY <1>2 DEF Advance
  <2> HIDE DEF moved
  <2> QED BY <2>2, <2>3 DEF TypeInv, TypeOK, BusyOnTask
<1> QED BY <1>1, <1>2

\* The steps of an open session.
LEMMA TypeProgress ==
  ASSUME TypeInv, NEW s \in Sessions, Progress(s)
  PROVE  TypeInv'
<1> DEFINE t == session[s].task
<1>1. session[s].at # "idle" => t \in Tasks
  BY DEF TypeInv, BusyOnTask
<1>2. session[s] \in Session
  BY DEF TypeInv, TypeOK
<1>3. CASE Reserve(s)
  <2>1. t \in Tasks /\ session[s].user \in Users
    BY <1>1, <1>3 DEF Reserve, TypeInv, BusyOnTask
  <2>2. account' \in [Users -> Account]
    BY <1>3, <2>1, LedgerType, LoadedType, OrderType DEF Reserve, TypeInv, TypeOK
  <2>3. session' \in [Sessions -> Session] /\ BusyOnTask'
    BY <1>3, SessionStep DEF Reserve, Points
  <2>4. holds' \in [Tasks -> Nat]
    BY <1>3, <2>1 DEF Reserve, TypeInv, TypeOK
  <2> QED BY <1>3, <2>2, <2>3, <2>4 DEF Reserve, TypeInv, TypeOK, background
<1>4. CASE ReserveRefused(s)
  BY <1>4, SessionStep DEF ReserveRefused, TypeInv, TypeOK, table, background
<1>5. CASE CreateInsert(s)
  BY <1>1, <1>5, SessionStep DEF CreateInsert, TypeInv, TypeOK, Statuses
<1>6. CASE ConfirmCommit(s)
  BY <1>1, <1>6, SessionStep DEF ConfirmCommit, TypeInv, TypeOK, Statuses
<1>7. CASE ReceiptCommit(s)
  <2>1. t \in Tasks
    BY <1>1, <1>7 DEF ReceiptCommit
  <2>2. receipt' \in [Tasks -> SUBSET Hashes]
    BY <1>7, <2>1 DEF ReceiptCommit, TypeInv, TypeOK
  <2> QED BY <1>7, <2>1, <2>2, SessionStep
          DEF ReceiptCommit, TypeInv, TypeOK, Statuses, background
<1>8. CASE ReceiptRefused(s)
  BY <1>8, SessionStep DEF ReceiptRefused, TypeInv, TypeOK, table, background
<1>9. CASE Flush(s)
  <2>1. t \in Tasks /\ Creator(t) \in Users
    BY <1>1, <1>9, OrderType DEF Flush, TypeInv
  <2>2. View(s, Creator(t)) \in Account
    BY <2>1, <1>2 DEF View, Session, TypeInv, TypeOK
  <2> DEFINE flushed == [session[s] EXCEPT !.at = "settle",
                           !.held = @ \cup {Creator(t)},
                           !.copy = [@ EXCEPT ![Creator(t)] = View(s, Creator(t))]]
  <2>3. flushed \in Session
    BY <1>2, <2>1, <2>2 DEF Session, Points
  <2>4. flushed.at = "settle" /\ flushed.task \in Tasks
    BY <1>2, <2>1 DEF Session
  <2>5. session' = [session EXCEPT ![s] = flushed]
    BY <1>2, <1>9, <2>1 DEF Flush, Session, TypeInv, TypeOK
  <2> HIDE DEF flushed
  <2>6. session' \in [Sessions -> Session] /\ BusyOnTask'
    BY <2>3, <2>4, <2>5 DEF TypeInv, TypeOK, BusyOnTask
  <2> QED BY <1>9, <2>6 DEF Flush, TypeInv, TypeOK, table, background
<1>10. CASE StatusCommit(s)
  <2>1. t \in Tasks /\ session[s].next \in Statuses
    BY <1>1, <1>2, <1>10 DEF StatusCommit, Session
  <2>2. status' \in [Tasks -> Statuses] /\ charged' \in [Tasks -> BOOLEAN]
    BY <1>10, <2>1 DEF StatusCommit, TypeInv, TypeOK
  <2> QED BY <1>10, <2>2, SessionStep
          DEF StatusCommit, TypeInv, TypeOK, background
<1>11. CASE ChargeCommit(s)
  <2>1. t \in Tasks
    BY <1>1, <1>11 DEF ChargeCommit
  <2>2. account' \in [Users -> Account]
    BY <1>11, <2>1, LedgerType, LoadedType, OrderType
    DEF ChargeCommit, TypeInv, TypeOK
  <2>3. session' \in [Sessions -> Session] /\ BusyOnTask'
    BY <1>11, SessionStep DEF ChargeCommit, Points
  <2>4. fees' \in Int
    BY <1>11, <2>1, OrderType DEF ChargeCommit, TypeInv, TypeOK, Fee
  <2> QED BY <1>11, <2>1, <2>2, <2>3, <2>4
          DEF ChargeCommit, TypeInv, TypeOK, Statuses, Terminal, background
<1>12. CASE ReleaseCommit(s)
  <2>1. t \in Tasks
    BY <1>1, <1>12 DEF ReleaseCommit
  <2>2. account' \in [Users -> Account]
    BY <1>12, <2>1, LedgerType, LoadedType, OrderType
    DEF ReleaseCommit, TypeInv, TypeOK
  <2>3. status' \in [Tasks -> Statuses]
    BY <1>12, <2>1 DEF ReleaseCommit, TypeInv, TypeOK, Statuses, Terminal
  <2> QED BY <1>12, <2>2, <2>3, SessionStep
          DEF ReleaseCommit, TypeInv, TypeOK, background
<1>13. CASE Finish(s)
  BY <1>1, <1>13, SessionStep DEF Finish, TypeInv, TypeOK, background
<1> QED BY <1>3, <1>4, <1>5, <1>6, <1>7, <1>8, <1>9, <1>10, <1>11, <1>12, <1>13
        DEF Progress

\* The coroutines, the relayed streams and the crash.
LEMMA TypeBackground ==
  ASSUME TypeInv, \/ \E t \in Tasks : Background(t)
                 \/ Crash
  PROVE  TypeInv'
<1> USE DEF TypeInv, TypeOK
<1>1. ASSUME NEW t \in Tasks, Background(t)
      PROVE  TypeInv'
  <2>1. CASE CreateUnreserved(t)
    BY <2>1 DEF CreateUnreserved, Statuses, BusyOnTask
  <2>2. CASE GraceCheck(t)
    BY <2>2 DEF GraceCheck, table, BusyOnTask
  <2>3. CASE Send(t)
    BY <2>3 DEF Send, table, BusyOnTask
  <2>4. CASE AgentNoResult(t)
    BY <2>4 DEF AgentNoResult, table, BusyOnTask
  <2>5. CASE StreamOpen(t)
    BY <2>5 DEF StreamOpen, table, BusyOnTask
  <2>6. CASE StreamEnd(t)
    BY <2>6 DEF StreamEnd, table, BusyOnTask
  <2> QED BY <1>1, <2>1, <2>2, <2>3, <2>4, <2>5, <2>6 DEF Background
<1>2. CASE Crash
  BY <1>2, IdleType DEF Crash, table, BusyOnTask
<1> QED BY <1>1, <1>2

LEMMA TypeStep == TypeInv /\ [Next]_vars => TypeInv'
<1> SUFFICES ASSUME TypeInv, [Next]_vars PROVE TypeInv'
  OBVIOUS
<1>1. CASE UNCHANGED vars
  BY <1>1 DEF vars, table, background, TypeInv, TypeOK, BusyOnTask
<1> QED BY <1>1, TypeRequest, TypeProgress, TypeBackground DEF Next

\* Every variable keeps its type, and an open session has a task of its own:
\* what the rows, the accounts and the coroutines hold is never undefined.
THEOREM TypeCorrect == Spec => []TypeOK
<1>1. Spec => []TypeInv
  BY TypeInit, TypeStep, PTL DEF Spec
<1> QED BY <1>1, PTL DEF TypeInv

-----------------------------------------------------------------------------
(* What the steps do to the sessions.                                      *)

\* A handler never takes a task back to before its reservation, unless the agent
\* asks for it, and decides it only on what an agent or a stream reports.
Ahead(t, new) ==
  /\ new # "absent"
  /\ new = "pending_approval" => "pending_approval" \in CallbackStatuses
  /\ new \in {"completed", "failed"} =>
       new \in CallbackStatuses \cup AgentReplies \/ streams[t] > 0

\* An idle session is opened for the task, with the status the task is read with.
Opens(s, t) ==
  /\ session[s] = Idle
  /\ Admit(t)
  /\ \E x \in Session :
       /\ session' = [session EXCEPT ![s] = x]
       /\ x.task = t
       /\ x.at \in {"reserve", "submit", "receipt", "write"}
       /\ x.held \subseteq Held(t)
       /\ x.copy = Snapshot(x.held)
       /\ x.at = "reserve" =>
            /\ PaysCredits(t)
            /\ \/ /\ status[t] = "absent" /\ holds[t] = 0
                  /\ x.user = Creator(t) /\ x.held = {Owner(t)}
               \/ status[t] = "pending_approval"
       /\ x.at = "submit" => status[t] = "pending_approval" /\ ~PaysCredits(t)
       /\ x.at = "receipt" => status[t] = "pending_payment" /\ order[t].method = "x402"
       /\ x.at = "write" => Live(t) /\ (x.next = "submitted" => "submitted" \in CallbackStatuses)
       /\ Ahead(t, x.next)

\* A request opens a session and leaves the tables alone.
LEMMA RequestOpens ==
  ASSUME TypeInv, NEW s \in Sessions, NEW t \in Tasks, Request(s, t)
  PROVE  /\ UNCHANGED <<order, table, grace, sending, dispatched, crashes>>
         /\ Opens(s, t)
<1> DEFINE Goal == /\ UNCHANGED <<order, table, grace, sending, dispatched, crashes>>
                   /\ Opens(s, t)
<1>1. ASSUME NEW u \in Users \cup {NoUser}, NEW new \in Statuses,
             NEW point \in {"reserve", "submit", "receipt", "write"},
             Open(s, t, u, point, new),
             UNCHANGED <<order, table, grace, sending, dispatched, crashes>>,
             point = "reserve" => PaysCredits(t) /\ status[t] = "pending_approval",
             point = "submit" => status[t] = "pending_approval" /\ ~PaysCredits(t),
             point = "receipt" => status[t] = "pending_payment" /\ order[t].method = "x402",
             point = "write" => Live(t) /\ (new = "submitted" => "submitted" \in CallbackStatuses),
             Ahead(t, new)
      PROVE  Goal
  <2>1. /\ Opened(t, u, point, new) \in Session
        /\ Opened(t, u, point, new).at = point
        /\ Opened(t, u, point, new).task = t
        /\ Opened(t, u, point, new).next = new
        /\ Opened(t, u, point, new).held \subseteq Held(t)
        /\ Opened(t, u, point, new).copy = Snapshot(Opened(t, u, point, new).held)
    BY OpenedType DEF TypeInv, Points, Opened
  <2>2. /\ session[s] = Idle /\ Admit(t)
        /\ session' = [session EXCEPT ![s] = Opened(t, u, point, new)]
    BY <1>1 DEF Open
  <2> QED BY <1>1, <2>1, <2>2 DEF Opens
<1>2. CASE CreateBegin(s, t)
  <2> DEFINE begun == [at |-> "reserve", task |-> t, user |-> Creator(t),
                       next |-> "submitted", held |-> {Owner(t)},
                       copy |-> Snapshot({Owner(t)})]
  <2>1. begun \in Session
    BY OrderType, SnapshotType DEF Session, Points, Statuses, TypeInv
  <2>2. /\ begun.task = t /\ begun.at = "reserve" /\ Ahead(t, begun.next)
        /\ begun.copy = Snapshot(begun.held) /\ begun.user = Creator(t)
        /\ begun.held = {Owner(t)} /\ begun.held \subseteq Held(t)
    BY DEF Ahead, Held
  <2>3. session' = [session EXCEPT ![s] = begun]
    BY <1>2 DEF CreateBegin
  <2> HIDE DEF begun
  <2> QED BY <1>2, <2>1, <2>2, <2>3 DEF CreateBegin, Unused, Opens, background
<1>3. CASE ConfirmLoad(s, t)
  <2>1. PICK u \in Participants(t) :
          Open(s, t, u, IF PaysCredits(t) THEN "reserve" ELSE "submit", "submitted")
    BY <1>3 DEF ConfirmLoad
  <2>2. u \in Users /\ "submitted" \in Statuses /\ Ahead(t, "submitted")
    BY OrderType DEF TypeInv, Statuses, Ahead
  <2>3. /\ status[t] = "pending_approval"
        /\ UNCHANGED <<order, table, grace, sending, dispatched, crashes>>
    BY <1>3 DEF ConfirmLoad, background
  <2>4. CASE PaysCredits(t)
    <3>1. Open(s, t, u, "reserve", "submitted")
      BY <2>1, <2>4
    <3> QED BY <1>1, <2>2, <2>3, <2>4, <3>1
  <2>5. CASE ~PaysCredits(t)
    <3>1. Open(s, t, u, "submit", "submitted")
      BY <2>1, <2>5
    <3> QED BY <1>1, <2>2, <2>3, <2>5, <3>1
  <2> QED BY <2>4, <2>5
<1>4. CASE ReceiptLoad(s, t)
  <2>1. /\ Open(s, t, NoUser, "receipt", "submitted")
        /\ status[t] = "pending_payment" /\ order[t].method = "x402"
        /\ UNCHANGED <<order, table, grace, sending, dispatched, crashes>>
    BY <1>4 DEF ReceiptLoad, background
  <2> QED BY <1>1, <2>1 DEF Statuses, Ahead
<1>5. CASE CancelLoad(s, t)
  <2>1. PICK u \in Participants(t) : Open(s, t, u, "write", "canceled")
    BY <1>5 DEF CancelLoad
  <2>2. u \in Users /\ "canceled" \in Statuses /\ Ahead(t, "canceled")
    BY OrderType DEF TypeInv, Statuses, Terminal, Ahead
  <2>3. Live(t) /\ UNCHANGED <<order, table, grace, sending, dispatched, crashes>>
    BY <1>5 DEF CancelLoad, background
  <2> QED BY <1>1, <2>1, <2>2, <2>3
<1>6. CASE MessageLoad(s, t)
  <2>1. /\ Open(s, t, NoUser, "write", "working")
        /\ Live(t)
        /\ UNCHANGED <<order, table, grace, sending, dispatched, crashes>>
    BY <1>6 DEF MessageLoad, Live, Terminal, background
  <2> QED BY <1>1, <2>1 DEF Statuses, Ahead
<1>7. ASSUME NEW new \in Statuses, Ahead(t, new), UpdateLoad(s, t, new),
             new = "submitted" => "submitted" \in CallbackStatuses,
             UNCHANGED <<order, table, grace, sending, dispatched, crashes>>
      PROVE  Goal
  <2>1. Open(s, t, NoUser, "write", new) /\ Live(t)
    BY <1>7 DEF UpdateLoad
  <2> QED BY <1>1, <1>7, <2>1
<1>8. CASE WebhookLoad(s, t)
  <2>1. PICK new \in CallbackStatuses : UpdateLoad(s, t, new)
    BY <1>8 DEF WebhookLoad
  <2>2. new \in Statuses /\ Ahead(t, new)
    BY AgentAssumption DEF Ahead
  <2> QED BY <1>7, <1>8, <2>1, <2>2 DEF WebhookLoad, background
<1>9. CASE AgentResult(s, t)
  <2>1. PICK new \in AgentReplies \ {"ack"} : UpdateLoad(s, t, new)
    BY <1>9 DEF AgentResult
  <2>2. new \in Statuses /\ new # "submitted" /\ Ahead(t, new)
    BY AgentAssumption DEF Statuses, Terminal, Ahead
  <2> QED BY <1>7, <1>9, <2>1, <2>2 DEF AgentResult
<1>10. CASE StreamResult(s, t)
  <2>1. /\ UpdateLoad(s, t, "completed")
        /\ "completed" \in Statuses /\ Ahead(t, "completed")
    BY <1>10 DEF StreamResult, Statuses, Terminal, Ahead
  <2> QED BY <1>7, <1>10, <2>1 DEF StreamResult
<1> QED BY <1>2, <1>3, <1>4, <1>5, <1>6, <1>8, <1>9, <1>10 DEF Request

\* Ending or advancing a session leaves the others alone, and the task with it.
LEMMA CloseSession ==
  ASSUME TypeInv, NEW s \in Sessions, Close(s)
  PROVE  /\ session'[s] = Idle
         /\ \A o \in Sessions \ {s} : session'[o] = session[o]
  BY DEF TypeInv, TypeOK, Close

LEMMA AdvanceSession ==
  ASSUME TypeInv, NEW s \in Sessions, NEW point \in Points, Advance(s, point)
  PROVE  /\ session'[s].at = point
         /\ session'[s].task = session[s].task
         /\ session'[s].next = session[s].next
         /\ \A o \in Sessions \ {s} : session'[o] = session[o]
<1>1. session[s] \in Session
  BY DEF TypeInv, TypeOK
<1> QED BY <1>1 DEF TypeInv, TypeOK, Advance, Session

LEMMA FlushSession ==
  ASSUME TypeInv, NEW s \in Sessions, Flush(s)
  PROVE  /\ session'[s].at = "settle"
         /\ session'[s].task = session[s].task
         /\ session'[s].next = session[s].next
         /\ \A o \in Sessions \ {s} : session'[o] = session[o]
<1>1. session[s] \in Session
  BY DEF TypeInv, TypeOK
<1> QED BY <1>1 DEF TypeInv, TypeOK, Flush, Session

-----------------------------------------------------------------------------
(* Completed and charged tasks have been paid for, however handlers        *)
(* interleave.                                                             *)

\* The second commit of update_task_status follows charge_credits.
FinishIsPaid ==
  \A s \in Sessions : session[s].at = "finish" => paid[session[s].task] > 0

PaidInv == TypeInv /\ CompletedIsPaid /\ ChargedIsPaid /\ FinishIsPaid

LEMMA PaidInit == Init => PaidInv
  BY TypeInit, IdleType
  DEF Init, PaidInv, CompletedIsPaid, ChargedIsPaid, FinishIsPaid

LEMMA PaidProgress ==
  ASSUME PaidInv, NEW s \in Sessions, Progress(s)
  PROVE  PaidInv'
<1> DEFINE t == session[s].task
<1>1. TypeInv /\ TypeInv'
  BY TypeProgress DEF PaidInv
<1>2. session[s].at # "idle" => t \in Tasks
  BY <1>1 DEF TypeInv, BusyOnTask
<1>3. ASSUME Close(s), UNCHANGED paid
      PROVE  FinishIsPaid'
  BY <1>1, <1>3, CloseSession, IdleType DEF PaidInv, FinishIsPaid
<1>4. ASSUME NEW point \in Points \ {"finish"}, Advance(s, point), UNCHANGED paid
      PROVE  FinishIsPaid'
  BY <1>1, <1>4, AdvanceSession DEF PaidInv, FinishIsPaid
<1>5. ASSUME UNCHANGED <<order, status, charged, paid>>
      PROVE  CompletedIsPaid' /\ ChargedIsPaid'
  BY <1>5 DEF PaidInv, CompletedIsPaid, ChargedIsPaid, PaysCredits, Quoted
<1>6. ASSUME NEW new \in Statuses \ {"completed"}, t \in Tasks,
             status' = [status EXCEPT ![t] = new],
             UNCHANGED <<order, charged, paid>>
      PROVE  CompletedIsPaid' /\ ChargedIsPaid'
  BY <1>1, <1>6
  DEF PaidInv, CompletedIsPaid, ChargedIsPaid, PaysCredits, Quoted, TypeInv, TypeOK
<1>7. CASE Reserve(s)
  BY <1>1, <1>4, <1>5, <1>7 DEF Reserve, PaidInv, Points
<1>8. CASE ReserveRefused(s)
  BY <1>1, <1>3, <1>5, <1>8 DEF ReserveRefused, PaidInv, table
<1>9. CASE CreateInsert(s)
  BY <1>1, <1>2, <1>3, <1>6, <1>9 DEF CreateInsert, PaidInv, Statuses
<1>10. CASE ConfirmCommit(s)
  BY <1>1, <1>2, <1>3, <1>6, <1>10 DEF ConfirmCommit, PaidInv, Statuses
<1>11. CASE ReceiptCommit(s)
  BY <1>1, <1>2, <1>3, <1>6, <1>11 DEF ReceiptCommit, PaidInv, Statuses
<1>12. CASE ReceiptRefused(s)
  BY <1>1, <1>3, <1>5, <1>12 DEF ReceiptRefused, PaidInv, table
<1>13. CASE Flush(s)
  <2>1. FinishIsPaid'
    BY <1>1, <1>13, FlushSession DEF Flush, table, PaidInv, FinishIsPaid
  <2> QED BY <1>1, <1>5, <1>13, <2>1 DEF Flush, PaidInv, table
<1>14. CASE StatusCommit(s)
  <2>1. t \in Tasks
    BY <1>2, <1>14 DEF StatusCommit
  <2>2. session[s].next = "completed" => ~PaysCredits(t)
    BY <1>14 DEF StatusCommit, Settles
  <2>3. CompletedIsPaid' /\ ChargedIsPaid'
    BY <1>1, <1>14, <2>1, <2>2
    DEF StatusCommit, PaidInv, CompletedIsPaid, ChargedIsPaid, PaysCredits,
        Quoted, TypeInv, TypeOK
  <2> QED BY <1>1, <1>3, <1>14, <2>3 DEF StatusCommit, PaidInv
<1>15. CASE ChargeCommit(s)
  <2>1. t \in Tasks /\ session[s].at = "settle"
    BY <1>2, <1>15 DEF ChargeCommit
  <2>2. /\ paid'[t] > 0
        /\ \A u \in Tasks : paid[u] > 0 => paid'[u] > 0
    BY <1>1, <1>15, <2>1 DEF ChargeCommit, TypeInv, TypeOK
  <2>3. CompletedIsPaid' /\ ChargedIsPaid'
    BY <1>1, <1>15, <2>1, <2>2
    DEF ChargeCommit, PaidInv, CompletedIsPaid, ChargedIsPaid, PaysCredits,
        Quoted, TypeInv, TypeOK
  <2>4. /\ session'[s].task = t
        /\ \A o \in Sessions \ {s} : session'[o] = session[o]
    BY <1>1, <1>15, AdvanceSession DEF ChargeCommit, Points
  <2>5. FinishIsPaid'
    BY <1>1, <2>1, <2>2, <2>4 DEF FinishIsPaid, PaidInv, TypeInv, BusyOnTask
  <2> QED BY <1>1, <2>3, <2>5 DEF PaidInv
<1>16. CASE ReleaseCommit(s)
  BY <1>1, <1>2, <1>3, <1>6, <1>16 DEF ReleaseCommit, PaidInv, Statuses, Terminal
<1>17. CASE Finish(s)
  <2>1. t \in Tasks /\ paid[t] > 0
    BY <1>2, <1>17 DEF Finish, PaidInv, FinishIsPaid
  <2>2. CompletedIsPaid' /\ ChargedIsPaid'
    BY <1>1, <1>17, <2>1
    DEF Finish, PaidInv, CompletedIsPaid, ChargedIsPaid, PaysCredits, Quoted,
        TypeInv, TypeOK
  <2> QED BY <1>1, <1>3, <1>17, <2>2 DEF Finish, PaidInv
<1> QED BY <1>7, <1>8, <1>9, <1>10, <1>11, <1>12, <1>13, <1>14, <1>15, <1>16,
           <1>17 DEF Progress

LEMMA PaidStep == PaidInv /\ [Next]_vars => PaidInv'
<1> SUFFICES ASSUME PaidInv, [Next]_vars PROVE PaidInv'
  OBVIOUS
<1>1. TypeInv /\ TypeInv'
  BY TypeStep DEF PaidInv
<1>2. CASE \E s \in Sessions : Progress(s)
  BY <1>2, PaidProgress
<1>3. ASSUME NEW s \in Sessions, NEW t \in Tasks, Request(s, t)
      PROVE  PaidInv'
  BY <1>1, <1>3, RequestOpens
  DEF Opens, PaidInv, CompletedIsPaid, ChargedIsPaid, FinishIsPaid, PaysCredits, Quoted,
      table, TypeInv, TypeOK
<1>4. ASSUME NEW t \in Tasks, Background(t)
      PROVE  PaidInv'
  <2>1. UNCHANGED <<order, charged, paid, session>>
    BY <1>4 DEF Background, CreateUnreserved, GraceCheck, Send, AgentNoResult,
               StreamOpen, StreamEnd, table
  <2>2. UNCHANGED status \/ CreateUnreserved(t)
    BY <1>4 DEF Background, GraceCheck, Send, AgentNoResult, StreamOpen,
               StreamEnd, table
  <2>3. CompletedIsPaid'
    BY <1>1, <2>1, <2>2
    DEF CreateUnreserved, PaidInv, CompletedIsPaid, PaysCredits, Quoted, TypeInv,
        TypeOK
  <2> QED BY <1>1, <2>1, <2>3
          DEF PaidInv, ChargedIsPaid, FinishIsPaid, PaysCredits, Quoted
<1>5. CASE Crash
  BY <1>1, <1>5, IdleType
  DEF Crash, table, PaidInv, CompletedIsPaid, ChargedIsPaid, FinishIsPaid,
      PaysCredits, Quoted
<1>6. CASE UNCHANGED vars
  BY <1>1, <1>6
  DEF vars, table, PaidInv, CompletedIsPaid, ChargedIsPaid, FinishIsPaid,
      PaysCredits, Quoted
<1> QED BY <1>2, <1>3, <1>4, <1>5, <1>6 DEF Next

\* Whatever the handlers of a task do to each other, and wherever the process
\* crashes, a completed task whose creator pays in credits has been paid for.
THEOREM CompletedTasksArePaid == Spec => []CompletedIsPaid
  BY PaidInit, PaidStep, PTL DEF Spec, PaidInv

\* The credits_charged column never runs ahead of the TASK_PAYMENT row.
THEOREM ChargedTasksArePaid == Spec => []ChargedIsPaid
  BY PaidInit, PaidStep, PTL DEF Spec, PaidInv

-----------------------------------------------------------------------------
(* The dispatcher calls no agent for a task nothing has been reserved for. *)

\* A session past its reservation has made it, if one is due.
PastReserved ==
  \A s \in Sessions :
    session[s].at \in {"insert", "submit"} /\ PaysCredits(session[s].task)
      => holds[session[s].task] > 0

\* A task on its way to the agent has its reservation, if one is due.
DispatchedReserved ==
  \A t \in Tasks :
    PaysCredits(t) /\ holds[t] = 0
      => grace[t] = 0 /\ sending[t] = 0 /\ t \notin dispatched

ReservedInv == TypeInv /\ PastReserved /\ DispatchedReserved

LEMMA ReservedInit == Init => ReservedInv
  BY TypeInit, IdleType DEF Init, ReservedInv, PastReserved, DispatchedReserved

LEMMA ReservedProgress ==
  ASSUME ReservedInv, NEW s \in Sessions, Progress(s)
  PROVE  ReservedInv'
<1> DEFINE t == session[s].task
<1>1. TypeInv /\ TypeInv'
  BY TypeProgress DEF ReservedInv
<1>2. session[s].at # "idle" => t \in Tasks
  BY <1>1 DEF TypeInv, BusyOnTask
<1>3. UNCHANGED <<order, dispatched>>
  BY DEF Progress, Reserve, ReserveRefused, CreateInsert, ConfirmCommit,
         ReceiptCommit, ReceiptRefused, Flush, StatusCommit, ChargeCommit,
         ReleaseCommit, Finish, background
<1>4. ASSUME Close(s), UNCHANGED holds
      PROVE  PastReserved'
  BY <1>1, <1>3, <1>4, CloseSession, IdleType
  DEF ReservedInv, PastReserved, PaysCredits, Quoted
<1>5. ASSUME NEW point \in Points \ {"insert", "submit"}, Advance(s, point),
             UNCHANGED holds
      PROVE  PastReserved'
  BY <1>1, <1>3, <1>5, AdvanceSession
  DEF ReservedInv, PastReserved, PaysCredits, Quoted
<1>6. ASSUME UNCHANGED <<holds, grace, sending>>
      PROVE  DispatchedReserved'
  BY <1>3, <1>6 DEF ReservedInv, DispatchedReserved, PaysCredits, Quoted
<1>7. CASE Reserve(s)
  <2>1. t \in Tasks
    BY <1>2, <1>7 DEF Reserve
  <2>2. /\ holds'[t] > 0
        /\ \A u \in Tasks : holds[u] > 0 => holds'[u] > 0
        /\ holds' \in [Tasks -> Nat] /\ holds \in [Tasks -> Nat]
    BY <1>1, <1>7, <2>1 DEF Reserve, TypeInv, TypeOK
  <2>3. /\ session'[s].task = t
        /\ \A o \in Sessions \ {s} : session'[o] = session[o]
    BY <1>1, <1>7, AdvanceSession DEF Reserve, Points
  <2>4. PastReserved'
    BY <1>1, <1>3, <2>2, <2>3
    DEF ReservedInv, PastReserved, PaysCredits, Quoted, TypeInv, BusyOnTask
  <2>5. DispatchedReserved'
    BY <1>3, <1>7, <2>2
    DEF Reserve, background, ReservedInv, DispatchedReserved, PaysCredits, Quoted
  <2> QED BY <1>1, <2>4, <2>5 DEF ReservedInv
<1>8. CASE ReserveRefused(s)
  BY <1>1, <1>4, <1>6, <1>8 DEF ReserveRefused, ReservedInv, table, background
<1>9. CASE CreateInsert(s)
  <2>1. t \in Tasks /\ (PaysCredits(t) => holds[t] > 0)
    BY <1>2, <1>9 DEF CreateInsert, ReservedInv, PastReserved
  <2>2. DispatchedReserved'
    BY <1>1, <1>3, <1>9, <2>1
    DEF CreateInsert, ReservedInv, DispatchedReserved, PaysCredits, Quoted,
        TypeInv, TypeOK
  <2> QED BY <1>1, <1>4, <1>9, <2>2 DEF CreateInsert, ReservedInv
<1>10. CASE ConfirmCommit(s)
  <2>1. t \in Tasks /\ (PaysCredits(t) => holds[t] > 0)
    BY <1>2, <1>10 DEF ConfirmCommit, ReservedInv, PastReserved
  <2>2. DispatchedReserved'
    BY <1>1, <1>3, <1>10, <2>1
    DEF ConfirmCommit, ReservedInv, DispatchedReserved, PaysCredits, Quoted,
        TypeInv, TypeOK
  <2> QED BY <1>1, <1>4, <1>10, <2>2 DEF ConfirmCommit, ReservedInv
<1>11. CASE ReceiptCommit(s)
  BY <1>1, <1>4, <1>6, <1>11 DEF ReceiptCommit, ReservedInv, background
<1>12. CASE ReceiptRefused(s)
  BY <1>1, <1>4, <1>6, <1>12 DEF ReceiptRefused, ReservedInv, table, background
<1>13. CASE Flush(s)
  <2>1. PastReserved'
    BY ZenonT(30), <1>1, <1>3, <1>13, FlushSession
    DEF Flush, table, ReservedInv, PastReserved, PaysCredits, Quoted
  <2> QED BY <1>1, <1>6, <1>13, <2>1 DEF Flush, ReservedInv, table, background
<1>14. CASE StatusCommit(s)
  BY <1>1, <1>4, <1>6, <1>14 DEF StatusCommit, ReservedInv, background
<1>15. CASE ChargeCommit(s)
  BY <1>1, <1>5, <1>6, <1>15 DEF ChargeCommit, ReservedInv, background, Points
<1>16. CASE ReleaseCommit(s)
  BY <1>1, <1>4, <1>6, <1>16 DEF ReleaseCommit, ReservedInv, background
<1>17. CASE Finish(s)
  BY <1>1, <1>4, <1>6, <1>17 DEF Finish, ReservedInv, background
<1> QED BY <1>7, <1>8, <1>9, <1>10, <1>11, <1>12, <1>13, <1>14, <1>15, <1>16,
           <1>17 DEF Progress

LEMMA ReservedBackground ==
  ASSUME ReservedInv, NEW t \in Tasks, Background(t)
  PROVE  ReservedInv'
<1>1. TypeInv /\ TypeInv'
  BY TypeBackground DEF ReservedInv
<1>2. UNCHANGED <<order, session, holds>>
  BY DEF Background, CreateUnreserved, GraceCheck, Send, AgentNoResult,
         StreamOpen, StreamEnd, table
<1>3. PastReserved'
  BY <1>2 DEF ReservedInv, PastReserved, PaysCredits, Quoted
<1> USE DEF ReservedInv, DispatchedReserved, PaysCredits, Quoted, TypeInv, TypeOK
<1>4. CASE CreateUnreserved(t)
  BY <1>1, <1>2, <1>3, <1>4 DEF CreateUnreserved
<1>5. CASE GraceCheck(t)
  BY <1>1, <1>2, <1>3, <1>5 DEF GraceCheck
<1>6. CASE Send(t)
  BY <1>1, <1>2, <1>3, <1>6 DEF Send
<1>7. CASE AgentNoResult(t)
  BY <1>1, <1>2, <1>3, <1>7 DEF AgentNoResult
<1>8. CASE StreamOpen(t)
  BY <1>1, <1>2, <1>3, <1>8 DEF StreamOpen
<1>9. CASE StreamEnd(t)
  BY <1>1, <1>2, <1>3, <1>9 DEF StreamEnd
<1> QED BY <1>4, <1>5, <1>6, <1>7, <1>8, <1>9 DEF Background

LEMMA ReservedStep ==
  ASSUME ReservedInv, [Next]_vars
  PROVE  ReservedInv'
<1>1. TypeInv /\ TypeInv'
  BY TypeStep DEF ReservedInv
<1>2. CASE \E s \in Sessions : Progress(s)
  BY <1>2, ReservedProgress
<1>3. ASSUME NEW s \in Sessions, NEW t \in Tasks, Request(s, t)
      PROVE  ReservedInv'
  <2>1. PICK x \in Session :
          /\ session' = [session EXCEPT ![s] = x]
          /\ x.task = t
          /\ x.at \in {"reserve", "submit", "receipt", "write"}
          /\ x.at = "submit" => ~PaysCredits(t)
    BY <1>1, <1>3, RequestOpens DEF Opens
  <2>2. UNCHANGED <<order, table, grace, sending, dispatched>>
    BY <1>1, <1>3, RequestOpens
  <2>3. PastReserved'
    BY <1>1, <2>1, <2>2
    DEF ReservedInv, PastReserved, PaysCredits, Quoted, table, TypeInv, TypeOK
  <2>4. DispatchedReserved'
    BY <2>2 DEF ReservedInv, DispatchedReserved, PaysCredits, Quoted, table
  <2> QED BY <1>1, <2>3, <2>4 DEF ReservedInv
<1>4. CASE \E t \in Tasks : Background(t)
  BY <1>4, ReservedBackground
<1>5. CASE Crash
  BY <1>1, <1>5, IdleType
  DEF Crash, table, ReservedInv, PastReserved, DispatchedReserved, PaysCredits,
      Quoted
<1>6. CASE UNCHANGED vars
  BY <1>1, <1>6
  DEF vars, table, background, ReservedInv, PastReserved, DispatchedReserved,
      PaysCredits, Quoted
<1> QED BY <1>2, <1>3, <1>4, <1>5, <1>6 DEF Next

\* An agent the dispatcher has called for a task that is paid in credits can count
\* on a reservation made for it.
THEOREM DispatchedTasksAreReserved == Spec => []DispatchedIsReserved
<1>1. Spec => []ReservedInv
  BY ReservedInit, ReservedStep, PTL DEF Spec
<1>2. ReservedInv => DispatchedIsReserved
  BY DEF ReservedInv, DispatchedReserved, DispatchedIsReserved, TypeInv, TypeOK
<1> QED BY <1>1, <1>2, PTL

-----------------------------------------------------------------------------
(* A transaction hash pays for one task.                                   *)

LEMMA ReceiptStep ==
  ASSUME TypeInv, ReceiptPaysOneTask, [Next]_vars
  PROVE  ReceiptPaysOneTask'
<1>1. ASSUME NEW s \in Sessions, ReceiptCommit(s)
      PROVE  ReceiptPaysOneTask'
  <2> DEFINE t == session[s].task
  <2>1. PICK h \in Hashes : /\ \A o \in Tasks : h \notin receipt[o]
                            /\ receipt' = [receipt EXCEPT ![t] = @ \cup {h}]
    BY <1>1 DEF ReceiptCommit
  <2>2. \A u \in Tasks : receipt'[u] = IF u = t THEN receipt[u] \cup {h} ELSE receipt[u]
    BY <2>1 DEF TypeInv, TypeOK
  <2> QED BY <2>1, <2>2 DEF ReceiptPaysOneTask
<1>2. ASSUME UNCHANGED receipt
      PROVE  ReceiptPaysOneTask'
  BY <1>2 DEF ReceiptPaysOneTask
<1>3. ASSUME NEW s \in Sessions, Progress(s)
      PROVE  UNCHANGED receipt \/ ReceiptCommit(s)
  BY <1>3 DEF Progress, Reserve, ReserveRefused, CreateInsert, ConfirmCommit,
              ReceiptRefused, Flush, StatusCommit, ChargeCommit, ReleaseCommit,
              Finish, table
<1>4. ASSUME NEW s \in Sessions, NEW t \in Tasks, Request(s, t)
      PROVE  UNCHANGED receipt
  BY <1>4, RequestOpens DEF table
<1>5. ASSUME NEW t \in Tasks, Background(t)
      PROVE  UNCHANGED receipt
  BY <1>5 DEF Background, CreateUnreserved, GraceCheck, Send, AgentNoResult,
              StreamOpen, StreamEnd, table
<1>6. Crash \/ UNCHANGED vars => UNCHANGED receipt
  BY DEF Crash, vars, table
<1> QED BY <1>1, <1>2, <1>3, <1>4, <1>5, <1>6 DEF Next

\* However many receipts pass check_replay together, a transaction hash is
\* recorded for one task only.
THEOREM ReceiptsPayOneTask == Spec => []ReceiptPaysOneTask
<1>1. Init => ReceiptPaysOneTask
  BY DEF Init, ReceiptPaysOneTask
<1>2. TypeInv /\ ReceiptPaysOneTask /\ [Next]_vars => (TypeInv /\ ReceiptPaysOneTask)'
  BY TypeStep, ReceiptStep
<1> QED BY <1>1, <1>2, TypeInit, PTL DEF Spec

-----------------------------------------------------------------------------
(* A task stands "submitted" with its price behind it.                     *)

\* The tasks that wait for a receipt: those paid by x402 below the threshold.
ByReceipt(t) == order[t].method = "x402" /\ ~HighCost(t)

\* A task that waits for a receipt waits for no approval, and only a receipt, a
\* cancel or a report works on it; no report makes a task submitted.
AwaitsReceipt ==
  /\ \A t \in Tasks : ByReceipt(t) => status[t] # "pending_approval"
  /\ \A s \in Sessions :
       /\ session[s].at = "write" => session[s].next \notin {"submitted", "pending_approval"}
       /\ session[s].at = "receipt" => order[session[s].task].method = "x402"
       /\ session[s].at # "idle" /\ ByReceipt(session[s].task)
          => session[s].at \in {"receipt", "write"}

FundedInv == ReservedInv /\ AwaitsReceipt /\ SubmittedIsFunded

LEMMA FundedInit == Init => FundedInv
  BY ReservedInit, IdleType DEF Init, FundedInv, AwaitsReceipt, SubmittedIsFunded

\* A request opens a session, and none that would make a task submitted unpaid.
LEMMA FundedRequest ==
  ASSUME {"submitted", "pending_approval"} \cap CallbackStatuses = {},
         FundedInv, NEW s \in Sessions, NEW t \in Tasks, Request(s, t)
  PROVE  AwaitsReceipt' /\ SubmittedIsFunded'
<1>1. UNCHANGED <<order, table>> /\ Opens(s, t) /\ TypeOK
  BY RequestOpens DEF FundedInv, ReservedInv, TypeInv
<1>2. PICK x \in Session :
        /\ session' = [session EXCEPT ![s] = x]
        /\ x.task = t
        /\ x.at \in {"reserve", "submit", "receipt", "write"}
        /\ x.at = "reserve" => PaysCredits(t)
        /\ x.at = "submit" => status[t] = "pending_approval"
        /\ x.at = "receipt" => order[t].method = "x402"
        /\ x.at = "write" => (x.next = "submitted" => "submitted" \in CallbackStatuses)
        /\ Ahead(t, x.next)
  BY <1>1 DEF Opens
<1>3. /\ session'[s] = x
      /\ \A o \in Sessions \ {s} : session'[o] = session[o]
  BY <1>1, <1>2 DEF TypeOK
<1>4. SubmittedIsFunded'
  BY <1>1 DEF FundedInv, SubmittedIsFunded, table, PaysCredits, HighCost, Quoted
<1>5. /\ x.at = "write" => x.next \notin {"submitted", "pending_approval"}
      /\ ByReceipt(t) => x.at \in {"receipt", "write"}
  BY <1>2 DEF Ahead, FundedInv, AwaitsReceipt, ByReceipt, PaysCredits
<1>6. AwaitsReceipt'
  BY <1>1, <1>2, <1>3, <1>5 DEF FundedInv, AwaitsReceipt, ByReceipt, HighCost, Quoted, table
<1> QED
  BY <1>4, <1>6

\* A session makes its task submitted once it has reserved or recorded a receipt.
LEMMA FundedProgress ==
  ASSUME FundedInv, NEW s \in Sessions, Progress(s)
  PROVE  AwaitsReceipt' /\ SubmittedIsFunded'
<1> DEFINE t == session[s].task
<1>1. TypeInv /\ TypeOK /\ t \in Tasks /\ session[s].at # "idle" /\ order' = order
  BY DEF Progress, Reserve, ReserveRefused, CreateInsert, ConfirmCommit, ReceiptCommit,
     ReceiptRefused, Flush, StatusCommit, ChargeCommit, ReleaseCommit, Finish,
     FundedInv, ReservedInv, TypeInv, BusyOnTask
<1>2. \A u \in Tasks : /\ PaysCredits(u)' = PaysCredits(u) /\ ByReceipt(u)' = ByReceipt(u)
                       /\ PaysCredits(u) => ~ByReceipt(u)
  BY <1>1 DEF PaysCredits, ByReceipt, HighCost, Quoted
<1>3. /\ \A u \in Tasks : holds[u] > 0 => holds'[u] > 0
      /\ \A u \in Tasks : receipt[u] # {} => receipt'[u] # {}
      /\ \A u \in Tasks \ {t} : status'[u] = status[u]
  BY <1>1 DEF Progress, Reserve, ReserveRefused, CreateInsert, ConfirmCommit, ReceiptCommit,
     ReceiptRefused, Flush, StatusCommit, ChargeCommit, ReleaseCommit, Finish, table, TypeOK
<1>4. ASSUME status'[t] = status[t]
               \/ /\ status'[t] # "pending_approval"
                  /\ status'[t] = "submitted" =>
                       (PaysCredits(t) => holds'[t] > 0) /\ (ByReceipt(t) => receipt'[t] # {})
      PROVE  /\ \A u \in Tasks : ByReceipt(u)' => status'[u] # "pending_approval"
             /\ SubmittedIsFunded'
  <2>1. ASSUME NEW u \in Tasks
        PROVE  /\ ByReceipt(u) => status'[u] # "pending_approval"
               /\ status'[u] = "submitted" =>
                    (PaysCredits(u) => holds'[u] > 0) /\ (ByReceipt(u) => receipt'[u] # {})
    BY <1>3, <1>4 DEF FundedInv, AwaitsReceipt, SubmittedIsFunded, ByReceipt
  <2>2. \A u \in Tasks : (order[u].method = "x402" /\ ~HighCost(u))' <=> ByReceipt(u)
    BY <1>2 DEF ByReceipt
  <2> QED
    BY <1>2, <2>1, <2>2 DEF SubmittedIsFunded
<1>5. ASSUME \/ session'[s] = Idle
             \/ /\ session'[s].at \in {"insert", "submit", "settle", "finish"}
                /\ session'[s].task = t /\ ~ByReceipt(t),
             \A o \in Sessions \ {s} : session'[o] = session[o],
             \A u \in Tasks : ByReceipt(u)' => status'[u] # "pending_approval"
      PROVE  AwaitsReceipt'
  <2>1. ASSUME NEW o \in Sessions
        PROVE  /\ session'[o].at = "write" => session'[o].next \notin {"submitted", "pending_approval"}
               /\ session'[o].at = "receipt" => order[session'[o].task].method = "x402"
               /\ session'[o].at # "idle" /\ ByReceipt(session'[o].task)
                  => session'[o].at \in {"receipt", "write"}
    BY <1>5, IdleType DEF FundedInv, AwaitsReceipt
  <2>2. \A o \in Sessions : session'[o].at # "idle" => ByReceipt(session[o].task)' = ByReceipt(session'[o].task)
    BY <1>1 DEF ByReceipt, HighCost, Quoted
  <2> QED
    BY <1>1, <1>5, <2>1, <2>2 DEF AwaitsReceipt
<1>6. ASSUME Close(s), status'[t] = status[t]
               \/ /\ status'[t] # "pending_approval"
                  /\ status'[t] = "submitted" =>
                       (PaysCredits(t) => holds'[t] > 0) /\ (ByReceipt(t) => receipt'[t] # {})
      PROVE  AwaitsReceipt' /\ SubmittedIsFunded'
  BY <1>1, <1>4, <1>5, <1>6, CloseSession
<1>7. ASSUME NEW point \in {"insert", "submit", "settle", "finish"}, Advance(s, point),
             ~ByReceipt(t), status'[t] = status[t] \/ status'[t] = "completed"
      PROVE  AwaitsReceipt' /\ SubmittedIsFunded'
  BY <1>1, <1>4, <1>5, <1>7, AdvanceSession DEF Points
<1>8. CASE Reserve(s)
  <2>1. session[s].at = "reserve" /\ ~ByReceipt(t)
    BY <1>1, <1>8 DEF Reserve, FundedInv, AwaitsReceipt
  <2> QED BY <1>7, <1>8, <2>1 DEF Reserve
<1>9. CASE ReserveRefused(s) \/ ReceiptRefused(s) \/ Finish(s)
  BY <1>6, <1>9 DEF ReserveRefused, ReceiptRefused, Finish, table
<1>10. CASE CreateInsert(s) \/ ConfirmCommit(s)
  <2>1. /\ session[s].at \in {"insert", "submit"} /\ ~ByReceipt(t)
        /\ PaysCredits(t) => holds[t] > 0
    BY <1>1, <1>10 DEF CreateInsert, ConfirmCommit, FundedInv, AwaitsReceipt, ReservedInv, PastReserved
  <2>2. status'[t] = "submitted" /\ Close(s)
    BY <1>1, <1>10 DEF CreateInsert, ConfirmCommit, TypeOK
  <2>3. PaysCredits(t) => holds'[t] > 0
    BY <1>1, <1>3, <2>1
  <2> HIDE DEF t
  <2> QED BY <1>6, <2>1, <2>2, <2>3
<1>11. CASE ReceiptCommit(s)
  <2>1. PICK h \in Hashes : receipt' = [receipt EXCEPT ![t] = @ \cup {h}]
    BY <1>11 DEF ReceiptCommit
  <2>2. receipt'[t] # {} /\ status'[t] = "submitted" /\ ~PaysCredits(t)
    BY <1>1, <1>11, <2>1 DEF ReceiptCommit, TypeOK, FundedInv, AwaitsReceipt, PaysCredits
  <2> QED BY <1>6, <1>11, <2>2 DEF ReceiptCommit
<1>12. CASE Flush(s)
  <2>1. ~ByReceipt(t)
    BY <1>1, <1>2, <1>12 DEF Flush, Settles
  <2> QED BY <1>1, <1>4, <1>5, <1>12, <2>1, FlushSession DEF Flush, table
<1>13. CASE StatusCommit(s)
  <2>1. status'[t] = session[s].next /\ session[s].next \notin {"submitted", "pending_approval"}
    BY <1>1, <1>13 DEF StatusCommit, TypeOK, FundedInv, AwaitsReceipt
  <2> QED BY <1>6, <1>13, <2>1 DEF StatusCommit
<1>14. CASE ChargeCommit(s)
  <2>1. ~ByReceipt(t) /\ status'[t] = "completed"
    BY <1>1, <1>14 DEF ChargeCommit, TypeOK, FundedInv, AwaitsReceipt
  <2> QED BY <1>7, <1>14, <2>1 DEF ChargeCommit
<1>15. CASE ReleaseCommit(s)
  <2>1. status'[t] \in {"failed", "canceled"}
    BY <1>1, <1>15 DEF ReleaseCommit, TypeOK
  <2> QED BY <1>6, <1>15, <2>1 DEF ReleaseCommit
<1> QED
  BY <1>8, <1>9, <1>10, <1>11, <1>12, <1>13, <1>14, <1>15 DEF Progress

LEMMA FundedBackground ==
  ASSUME FundedInv, NEW t \in Tasks, Background(t)
  PROVE  AwaitsReceipt' /\ SubmittedIsFunded'
<1>1. UNCHANGED <<order, session, holds, receipt>>
  BY DEF Background, CreateUnreserved, GraceCheck, Send, AgentNoResult, StreamOpen, StreamEnd, table
<1>2. \A u \in Tasks : \/ status'[u] = status[u]
                       \/ status'[u] = "pending_approval" /\ HighCost(u)
                       \/ status'[u] = "pending_payment"
                       \/ status'[u] = "submitted" /\ order[u].method = "credits" /\ Quoted(u) = 0
  BY DEF Background, CreateUnreserved, GraceCheck, Send, AgentNoResult, StreamOpen, StreamEnd, table,
     FundedInv, ReservedInv, TypeInv, TypeOK
<1> QED
  BY <1>1, <1>2 DEF FundedInv, AwaitsReceipt, SubmittedIsFunded, ByReceipt, HighCost, PaysCredits, Quoted

LEMMA FundedStep ==
  ASSUME {"submitted", "pending_approval"} \cap CallbackStatuses = {},
         FundedInv, [Next]_vars
  PROVE  FundedInv'
<1>1. ReservedInv'
  BY ReservedStep DEF FundedInv
<1>2. CASE Crash
  BY <1>1, <1>2, IdleType
  DEF Crash, table, FundedInv, AwaitsReceipt, SubmittedIsFunded, ByReceipt, HighCost,
      PaysCredits, Quoted
<1>3. CASE UNCHANGED vars
  BY <1>1, <1>3
  DEF vars, table, FundedInv, AwaitsReceipt, SubmittedIsFunded, ByReceipt, HighCost,
      PaysCredits, Quoted
<1> QED
  BY <1>1, <1>2, <1>3, FundedRequest, FundedProgress, FundedBackground DEF Next, FundedInv

\* As long as no agent reports a task as submitted or as waiting for approval, a
\* task stands "submitted" only with credits reserved for it or a receipt on
\* record, and the dispatcher calls no agent for a task without its reservation,
\* wherever handlers overlap and the process stops.
THEOREM TasksAreFundedBeforeWork ==
  ASSUME {"submitted", "pending_approval"} \cap CallbackStatuses = {}
  PROVE  Spec => []FundedBeforeWork
<1>1. FundedInv => FundedBeforeWork
  BY DEF FundedInv, FundedBeforeWork, ReservedInv, DispatchedReserved, DispatchedIsReserved,
         TypeInv, TypeOK
<1> QED BY <1>1, FundedInit, FundedStep, PTL DEF Spec

-----------------------------------------------------------------------------
(* The row lock of a reservation protects an account not read before.      *)

\* A handler about to reserve has read the accounts its task reaches, at most.
ReservesUnread ==
  \A s \in Sessions :
    session[s].at = "reserve" => session[s].held \subseteq Held(session[s].task)

LEMMA UnreadStep ==
  ASSUME TypeInv, ReservesUnread, [Next]_vars
  PROVE  ReservesUnread'
<1>1. ASSUME NEW s \in Sessions, Progress(s)
      PROVE  ReservesUnread'
  <2>1. order' = order
    BY <1>1 DEF Progress, Reserve, ReserveRefused, CreateInsert, ConfirmCommit, ReceiptCommit,
       ReceiptRefused, Flush, StatusCommit, ChargeCommit, ReleaseCommit, Finish
  <2>2. \/ Close(s) \/ Flush(s)
        \/ \E point \in {"insert", "submit", "finish"} : Advance(s, point)
    BY <1>1 DEF Progress, Reserve, ReserveRefused, CreateInsert, ConfirmCommit, ReceiptCommit,
       ReceiptRefused, StatusCommit, ChargeCommit, ReleaseCommit, Finish
  <2>3. /\ session'[s].at # "reserve"
        /\ \A o \in Sessions \ {s} : session'[o] = session[o]
    BY <2>2, CloseSession, FlushSession, AdvanceSession, IdleType DEF Points
  <2> QED
    BY <2>1, <2>3 DEF ReservesUnread, Held, Owner, Creator
<1>2. ASSUME NEW s \in Sessions, NEW t \in Tasks, Request(s, t)
      PROVE  ReservesUnread'
  <2>1. PICK x \in Session : /\ session' = [session EXCEPT ![s] = x]
                            /\ x.task = t /\ x.held \subseteq Held(t)
    BY <1>2, RequestOpens DEF Opens
  <2>2. /\ session'[s] = x
        /\ \A o \in Sessions \ {s} : session'[o] = session[o]
    BY <2>1 DEF TypeInv, TypeOK
  <2>3. order' = order
    BY <1>2, RequestOpens
  <2> QED
    BY <2>1, <2>2, <2>3 DEF ReservesUnread, Held, Owner, Creator
<1>3. ASSUME NEW t \in Tasks, Background(t)
      PROVE  ReservesUnread'
  BY <1>3 DEF Background, CreateUnreserved, GraceCheck, Send, AgentNoResult, StreamOpen, StreamEnd,
     ReservesUnread, Held, Owner, Creator
<1>4. Crash \/ UNCHANGED vars => ReservesUnread'
  BY IdleType DEF Crash, vars, ReservesUnread, Held, Owner, Creator
<1> QED
  BY <1>1, <1>2, <1>3, <1>4 DEF Next

\* What a reservation writes to an account it had not read before.
LEMMA ReservesWhatIsThere ==
  ASSUME TypeInv, ReservesUnread, NEW s \in Sessions, Reserve(s),
         NEW t \in Tasks, holds'[t] > holds[t],
         NEW u \in Users, account'[u].reserved > account[u].reserved, u \notin Held(t)
  PROVE  account'[u].reserved <= account'[u].balance
<1> DEFINE c == session[s].user
           q == Quoted(session[s].task)
<1>1. TypeOK /\ session[s].task \in Tasks /\ c \in Users /\ session[s].at = "reserve"
  BY DEF Reserve, TypeInv, BusyOnTask
<1>2. t = session[s].task
  BY <1>1 DEF Reserve, TypeOK
<1>3. q \in Nat /\ account \in [Users -> Account]
  BY <1>1, OrderType DEF TypeOK
<1>4. account' = ReserveCredits(account, Loaded(s), c, q) /\ Available(View(s, c)) >= q
  BY DEF Reserve
<1>5. u = c
  BY <1>1, <1>3, <1>4 DEF ReserveCredits, SetReserved, Account
<1>6. View(s, c) = account[c] /\ Loaded(s)[c] = account[c]
  BY <1>1, <1>2, <1>5 DEF ReservesUnread, View, Loaded
<1> HIDE DEF c, q
<1>7. /\ account'[u].balance = account[u].balance
      /\ account'[u].reserved = account[u].reserved + q
  BY <1>1, <1>3, <1>4, <1>5, <1>6 DEF ReserveCredits, SetReserved, Column, Account
<1>8. account[u].balance \in Int /\ account[u].reserved \in Int
  BY <1>3 DEF Account
<1> QED
  BY <1>3, <1>4, <1>5, <1>6, <1>7, <1>8 DEF Available

\* Whatever handlers, settlements and crashes do beside it, a reservation on an
\* account its handler had not read before stays within the balance.
THEOREM ReservationsAreBacked == Spec => ReservationIsBacked
<1>1. Init => ReservesUnread
  BY IdleType DEF Init, ReservesUnread
<1>2. ASSUME TypeInv, ReservesUnread, [Next]_vars,
             NEW t \in Tasks, NEW u \in Users,
             holds'[t] > holds[t], account'[u].reserved > account[u].reserved, u \notin Held(t)
      PROVE  account'[u].reserved <= account'[u].balance
  <2>1. holds[t] \in Nat /\ holds' # holds
    BY <1>2 DEF TypeInv, TypeOK
  <2>2. \E s \in Sessions : Reserve(s)
    <3>1. ASSUME NEW s \in Sessions, NEW o \in Tasks, Request(s, o)
          PROVE  holds' = holds
      BY <1>2, <3>1, RequestOpens DEF table
    <3> QED
      BY <1>2, <2>1, <3>1
      DEF Next, Progress, ReserveRefused, CreateInsert, ConfirmCommit, ReceiptCommit,
          ReceiptRefused, Flush, StatusCommit, ChargeCommit, ReleaseCommit, Finish, Background,
          CreateUnreserved, GraceCheck, Send, AgentNoResult, StreamOpen, StreamEnd, Crash, vars, table
  <2> QED
    BY <1>2, <2>2, ReservesWhatIsThere
<1>3. TypeInv /\ ReservesUnread /\ [Next]_vars =>
        [\A t \in Tasks, u \in Users :
          /\ holds'[t] > holds[t]
          /\ account'[u].reserved > account[u].reserved
          /\ u \notin Held(t)
          => account'[u].reserved <= account'[u].balance]_vars
  BY <1>2
<1>4. TypeInv /\ ReservesUnread /\ [Next]_vars => (TypeInv /\ ReservesUnread)'
  BY TypeStep, UnreadStep
<1> QED
  BY <1>1, <1>3, <1>4, TypeInit, PTL DEF Spec, ReservationIsBacked

-----------------------------------------------------------------------------
(* The broker keeps the promise of TaskEscrow as long as the handlers of   *)
(* one task do not overlap, however those of different tasks interleave.   *)

\* No two sessions work on one task.
AloneOnTask ==
  \A s1, s2 \in Sessions :
    s1 # s2 /\ session[s1].at # "idle" /\ session[s2].at # "idle"
      => session[s1].task # session[s2].task

\* What a session has read of its task is still so when it acts on it.
StillAsRead(s) ==
  LET st == status[session[s].task]
  IN  /\ session[s].at = "reserve" => st \in {"absent", "pending_approval"}
      /\ session[s].at = "insert" => st = "absent"
      /\ session[s].at = "submit" => st = "pending_approval"
      /\ session[s].at = "receipt" => st = "pending_payment"
      /\ session[s].at \in {"write", "settle"} => Live(session[s].task)
      /\ session[s].at = "settle" => PaysCredits(session[s].task)

\* The payments of a task are one when it is completed against credits and
\* none before.
PaidWhenCompleted ==
  \A t \in Tasks :
    paid[t] = IF status[t] = "completed" /\ PaysCredits(t) THEN 1 ELSE 0

IsolatedInv ==
  /\ TypeInv
  /\ AloneOnTask
  /\ \A s \in Sessions : StillAsRead(s)
  /\ PaidWhenCompleted

\* A step gives an open task a new status, with the payment that goes with it.
Decides(t) ==
  /\ status[t] \notin Terminal
  /\ \E new \in Statuses :
       /\ status' = [status EXCEPT ![t] = new]
       /\ paid' = [paid EXCEPT ![t] =
                     IF new = "completed" /\ PaysCredits(t) THEN @ + 1 ELSE @]

Undecided == UNCHANGED <<status, paid>>

LEMMA IsolatedInit == Init => IsolatedInv
  BY TypeInit, IdleType
  DEF Init, IsolatedInv, AloneOnTask, StillAsRead, PaidWhenCompleted

\* Deciding a task keeps its payments right.
LEMMA DecidesPays ==
  ASSUME IsolatedInv, UNCHANGED order,
         Undecided \/ \E t \in Tasks : Decides(t)
  PROVE  PaidWhenCompleted'
<1>1. CASE Undecided
  BY <1>1 DEF Undecided, IsolatedInv, PaidWhenCompleted, PaysCredits, Quoted
<1>2. ASSUME NEW t \in Tasks, Decides(t)
      PROVE  PaidWhenCompleted'
  <2>1. status[t] # "completed" /\ paid[t] = 0
    BY <1>2 DEF Decides, Terminal, IsolatedInv, PaidWhenCompleted
  <2>2. PICK new \in Statuses :
          /\ status' = [status EXCEPT ![t] = new]
          /\ paid' = [paid EXCEPT ![t] =
                        IF new = "completed" /\ PaysCredits(t) THEN @ + 1 ELSE @]
    BY <1>2 DEF Decides
  <2>3. /\ status'[t] = new
        /\ paid'[t] = IF new = "completed" /\ PaysCredits(t) THEN 1 ELSE 0
        /\ \A u \in Tasks \ {t} : status'[u] = status[u] /\ paid'[u] = paid[u]
    BY <2>1, <2>2 DEF IsolatedInv, TypeInv, TypeOK
  <2> QED BY <2>3 DEF IsolatedInv, PaidWhenCompleted, PaysCredits, Quoted
<1> QED BY <1>1, <1>2

\* A step of one session leaves the others alone on their tasks.
LEMMA OthersStay ==
  ASSUME IsolatedInv, NEW s \in Sessions, UNCHANGED order,
         session[s].at # "idle",
         \A o \in Sessions \ {s} : session'[o] = session[o],
         session'[s].at = "idle" \/ session'[s].task = session[s].task,
         \A u \in Tasks \ {session[s].task} : status'[u] = status[u]
  PROVE  /\ AloneOnTask'
         /\ \A o \in Sessions \ {s} : StillAsRead(o)'
<1>1. AloneOnTask'
  BY DEF IsolatedInv, AloneOnTask
<1>2. ASSUME NEW o \in Sessions \ {s}
      PROVE  StillAsRead(o)'
  <2>1. CASE session[o].at = "idle"
    BY <1>2, <2>1 DEF StillAsRead
  <2>2. CASE session[o].at # "idle"
    <3>1. session[o].task \in Tasks \ {session[s].task}
      BY <2>2 DEF IsolatedInv, TypeInv, BusyOnTask, AloneOnTask
    <3>2. status'[session[o].task] = status[session[o].task]
      BY <3>1
    <3> QED BY <1>2, <3>2
            DEF IsolatedInv, StillAsRead, Live, PaysCredits, Quoted
  <2> QED BY <2>1, <2>2
<1> QED BY <1>1, <1>2

\* A session that goes on decides its task, or nothing, and still sees it as
\* it has read it.
LEMMA ProgressDecides ==
  ASSUME IsolatedInv, NEW s \in Sessions, Progress(s)
  PROVE  /\ UNCHANGED order
         /\ session[s].task \in Tasks
         /\ session[s].at # "idle"
         /\ \A o \in Sessions \ {s} : session'[o] = session[o]
         /\ session'[s].at = "idle" \/ session'[s].task = session[s].task
         /\ Undecided \/ Decides(session[s].task)
         /\ StillAsRead(s)'
<1> DEFINE t == session[s].task
           Kept == \A o \in Sessions \ {s} : session'[o] = session[o]
           Same == session'[s].at = "idle" \/ session'[s].task = t
           Outcome == Undecided \/ Decides(t)
<1>1. TypeInv /\ StillAsRead(s)
  BY DEF IsolatedInv
<1>2. session[s].at # "idle" => t \in Tasks
  BY <1>1 DEF TypeInv, BusyOnTask
<1>3. session[s].at # "idle"
  BY DEF Progress, Reserve, ReserveRefused, CreateInsert, ConfirmCommit,
         ReceiptCommit, ReceiptRefused, Flush, StatusCommit, ChargeCommit,
         ReleaseCommit, Finish
<1>4. UNCHANGED order
  BY DEF Progress, Reserve, ReserveRefused, CreateInsert, ConfirmCommit,
         ReceiptCommit, ReceiptRefused, Flush, StatusCommit, ChargeCommit,
         ReleaseCommit, Finish
<1>5. ASSUME Close(s)
      PROVE  Kept /\ Same /\ StillAsRead(s)'
  <2>1. session'[s] = Idle /\ Kept
    BY <1>1, <1>5, CloseSession
  <2> QED BY <2>1, IdleType DEF StillAsRead
<1>6. ASSUME NEW new \in Statuses \ {"completed"},
             status' = [status EXCEPT ![t] = new], UNCHANGED paid,
             status[t] \notin Terminal
      PROVE  Decides(t)
  <2>1. paid' = [paid EXCEPT ![t] = IF new = "completed" /\ PaysCredits(t)
                                    THEN @ + 1 ELSE @]
    BY <1>1, <1>2, <1>3, <1>6 DEF TypeInv, TypeOK
  <2> QED BY <1>6, <2>1 DEF Decides
<1>7. CASE Reserve(s)
  <2>1. /\ Kept
        /\ session'[s].task = t
        /\ session'[s].at = IF status[t] = "absent" THEN "insert" ELSE "submit"
    BY <1>1, <1>7, AdvanceSession DEF Reserve, Points
  <2>2. status[t] \in {"absent", "pending_approval"} /\ Undecided
    BY <1>1, <1>7 DEF Reserve, StillAsRead, Undecided
  <2>3. StillAsRead(s)'
    BY <2>1, <2>2 DEF StillAsRead, Undecided
  <2> QED BY <1>2, <1>3, <1>4, <2>1, <2>2, <2>3
<1>8. CASE ReserveRefused(s)
  BY <1>2, <1>3, <1>4, <1>5, <1>8 DEF ReserveRefused, Undecided, table
<1>9. CASE CreateInsert(s)
  BY <1>1, <1>2, <1>3, <1>4, <1>5, <1>6, <1>9
  DEF CreateInsert, StillAsRead, Statuses, Terminal
<1>10. CASE ConfirmCommit(s)
  BY <1>1, <1>2, <1>3, <1>4, <1>5, <1>6, <1>10
  DEF ConfirmCommit, StillAsRead, Statuses, Terminal
<1>11. CASE ReceiptCommit(s)
  BY <1>1, <1>2, <1>3, <1>4, <1>5, <1>6, <1>11
  DEF ReceiptCommit, StillAsRead, Statuses, Terminal
<1>12. CASE ReceiptRefused(s)
  BY <1>2, <1>3, <1>4, <1>5, <1>12 DEF ReceiptRefused, Undecided, table
<1>13. CASE Flush(s)
  <2>1. Kept /\ session'[s].task = t /\ session'[s].at = "settle"
    BY <1>1, <1>13, FlushSession
  <2>2. Live(t) /\ PaysCredits(t) /\ UNCHANGED <<order, status, paid>>
    BY <1>1, <1>13 DEF Flush, Settles, StillAsRead, table
  <2>3. StillAsRead(s)'
    BY <2>1, <2>2 DEF StillAsRead, Live, PaysCredits, Quoted
  <2> QED BY <1>2, <1>3, <1>4, <2>1, <2>2, <2>3 DEF Undecided
<1>14. CASE StatusCommit(s)
  <2>1. /\ t \in Tasks /\ session[s].next \in Statuses
        /\ status[t] \notin Terminal
    BY <1>1, <1>2, <1>14
    DEF StatusCommit, StillAsRead, Live, TypeInv, TypeOK, Session
  <2>2. ~(session[s].next = "completed" /\ PaysCredits(t))
    BY <1>14 DEF StatusCommit, Settles
  <2>3. paid' = [paid EXCEPT ![t] =
                   IF session[s].next = "completed" /\ PaysCredits(t)
                   THEN @ + 1 ELSE @]
    BY <1>1, <1>14, <2>1, <2>2 DEF StatusCommit, TypeInv, TypeOK
  <2>4. Decides(t)
    BY <1>14, <2>1, <2>3 DEF StatusCommit, Decides
  <2> QED BY <1>3, <1>4, <1>5, <1>14, <2>1, <2>4 DEF StatusCommit
<1>15. CASE ChargeCommit(s)
  <2>1. /\ t \in Tasks
        /\ status[t] \notin Terminal
        /\ PaysCredits(t)
    BY <1>1, <1>2, <1>15 DEF ChargeCommit, StillAsRead, Live
  <2>2. Kept /\ session'[s].task = t /\ session'[s].at = "finish"
    BY <1>1, <1>15, AdvanceSession DEF ChargeCommit, Points
  <2>3. StillAsRead(s)'
    BY <2>2 DEF StillAsRead
  <2>4. Decides(t)
    BY <1>15, <2>1 DEF ChargeCommit, Decides, Statuses, Terminal
  <2> QED BY <1>3, <1>4, <2>1, <2>2, <2>3, <2>4
<1>16. CASE ReleaseCommit(s)
  BY <1>1, <1>2, <1>3, <1>4, <1>5, <1>6, <1>16
  DEF ReleaseCommit, StillAsRead, Live, Statuses, Terminal
<1>17. CASE Finish(s)
  BY <1>2, <1>3, <1>4, <1>5, <1>17 DEF Finish, Undecided
<1> QED BY <1>7, <1>8, <1>9, <1>10, <1>11, <1>12, <1>13, <1>14, <1>15, <1>16,
           <1>17 DEF Progress

\* A request finds its task to itself.
LEMMA RequestIsolated ==
  ASSUME IsolatedInv, Isolation # "none",
         NEW s \in Sessions, NEW t \in Tasks, Request(s, t)
  PROVE  /\ UNCHANGED order
         /\ Undecided
         /\ AloneOnTask'
         /\ \A o \in Sessions : StillAsRead(o)'
<1>1. TypeInv
  BY DEF IsolatedInv
<1>2. UNCHANGED <<order, table>> /\ Admit(t)
  BY <1>1, RequestOpens DEF Opens
<1>3. \A o \in Sessions : session[o].at # "idle" => session[o].task # t
  BY <1>2, IsolationAssumption, IdleType DEF Admit
<1>4. PICK x \in Session :
        /\ session' = [session EXCEPT ![s] = x]
        /\ x.task = t
        /\ x.at \in {"reserve", "submit", "receipt", "write"}
        /\ x.at = "reserve" => status[t] \in {"absent", "pending_approval"}
        /\ x.at = "submit" => status[t] = "pending_approval"
        /\ x.at = "receipt" => status[t] = "pending_payment"
        /\ x.at = "write" => Live(t)
  BY <1>1, RequestOpens DEF Opens
<1>5. session'[s] = x /\ \A o \in Sessions \ {s} : session'[o] = session[o]
  BY <1>1, <1>4 DEF TypeInv, TypeOK
<1>6. AloneOnTask'
  BY <1>3, <1>4, <1>5 DEF IsolatedInv, AloneOnTask
<1>7. \A o \in Sessions : StillAsRead(o)'
  BY <1>2, <1>4, <1>5
  DEF IsolatedInv, StillAsRead, Live, PaysCredits, Quoted, table
<1> QED BY <1>2, <1>6, <1>7 DEF Undecided, table

\* The background creates tasks nobody works on, and decides none.
LEMMA BackgroundIsolated ==
  ASSUME IsolatedInv, NEW t \in Tasks, Background(t)
  PROVE  /\ UNCHANGED order
         /\ Undecided \/ Decides(t)
         /\ AloneOnTask'
         /\ \A o \in Sessions : StillAsRead(o)'
<1>1. UNCHANGED <<order, session, paid>>
  BY DEF Background, CreateUnreserved, GraceCheck, Send, AgentNoResult,
         StreamOpen, StreamEnd, table
<1>2. AloneOnTask'
  BY <1>1 DEF IsolatedInv, AloneOnTask
<1>3. CASE CreateUnreserved(t)
  <2>1. PICK new \in {"pending_approval", "pending_payment", "submitted"} :
          status' = [status EXCEPT ![t] = new]
    BY <1>3 DEF CreateUnreserved
  <2>2. /\ status[t] = "absent"
        /\ \A o \in Sessions : session[o].task # t
    BY <1>3 DEF CreateUnreserved, Unused
  <2>3. paid' = [paid EXCEPT ![t] =
                   IF new = "completed" /\ PaysCredits(t) THEN @ + 1 ELSE @]
    BY <1>1, <2>1 DEF IsolatedInv, TypeInv, TypeOK
  <2>4. Decides(t)
    BY <2>1, <2>2, <2>3 DEF Decides, Statuses, Terminal
  <2>5. ASSUME NEW o \in Sessions
        PROVE  StillAsRead(o)'
    <3>1. CASE session[o].at = "idle"
      BY <1>1, <3>1 DEF StillAsRead
    <3>2. CASE session[o].at # "idle"
      <4>1. session[o].task \in Tasks \ {t}
        BY <2>2, <3>2 DEF IsolatedInv, TypeInv, BusyOnTask
      <4>2. status'[session[o].task] = status[session[o].task]
        BY <2>1, <4>1 DEF IsolatedInv, TypeInv, TypeOK
      <4> QED BY <1>1, <4>2
              DEF IsolatedInv, StillAsRead, Live, PaysCredits, Quoted
    <3> QED BY <3>1, <3>2
  <2> QED BY <1>1, <1>2, <2>4, <2>5
<1>4. CASE ~CreateUnreserved(t)
  <2>1. UNCHANGED status
    BY <1>4 DEF Background, GraceCheck, Send, AgentNoResult, StreamOpen,
               StreamEnd, table
  <2>2. \A o \in Sessions : StillAsRead(o)'
    BY <1>1, <2>1 DEF IsolatedInv, StillAsRead, Live, PaysCredits, Quoted
  <2> QED BY <1>1, <1>2, <2>1, <2>2 DEF Undecided
<1> QED BY <1>3, <1>4

\* Every step decides one open task, or nothing, and keeps the invariant.
LEMMA IsolatedStep ==
  ASSUME Isolation # "none", IsolatedInv, [Next]_vars
  PROVE  /\ IsolatedInv'
         /\ UNCHANGED order
         /\ Undecided \/ \E t \in Tasks : Decides(t)
<1> DEFINE Goal == /\ UNCHANGED order
                   /\ AloneOnTask'
                   /\ \A o \in Sessions : StillAsRead(o)'
                   /\ Undecided \/ \E t \in Tasks : Decides(t)
<1>1. ASSUME NEW s \in Sessions, Progress(s)
      PROVE  Goal
  <2>1. /\ UNCHANGED order
        /\ session[s].task \in Tasks
        /\ session[s].at # "idle"
        /\ \A o \in Sessions \ {s} : session'[o] = session[o]
        /\ session'[s].at = "idle" \/ session'[s].task = session[s].task
        /\ Undecided \/ Decides(session[s].task)
        /\ StillAsRead(s)'
    BY <1>1, ProgressDecides
  <2>2. \A u \in Tasks \ {session[s].task} : status'[u] = status[u]
    BY <2>1 DEF Undecided, Decides, IsolatedInv, TypeInv, TypeOK
  <2>3. AloneOnTask' /\ \A o \in Sessions \ {s} : StillAsRead(o)'
    BY <2>1, <2>2, OthersStay
  <2> QED BY <2>1, <2>3
<1>2. ASSUME NEW s \in Sessions, NEW t \in Tasks, Request(s, t)
      PROVE  Goal
  BY <1>2, RequestIsolated
<1>3. ASSUME NEW t \in Tasks, Background(t)
      PROVE  Goal
  BY <1>3, BackgroundIsolated
<1>4. ASSUME Crash
      PROVE  Goal
  BY <1>4, IdleType DEF Crash, table, AloneOnTask, StillAsRead, Undecided
<1>5. ASSUME UNCHANGED vars
      PROVE  Goal
  BY <1>5
  DEF vars, table, IsolatedInv, AloneOnTask, StillAsRead, Live, PaysCredits,
      Quoted, Undecided
<1>6. Goal
  BY <1>1, <1>2, <1>3, <1>4, <1>5 DEF Next
<1>7. PaidWhenCompleted'
  BY <1>6, DecidesPays
<1>8. TypeInv'
  BY TypeStep DEF IsolatedInv
<1> QED BY <1>6, <1>7, <1>8 DEF IsolatedInv

LEMMA IsolatedAlways ==
  ASSUME Isolation # "none"
  PROVE  Spec => []IsolatedInv
  BY IsolatedInit, IsolatedStep, PTL DEF Spec

-----------------------------------------------------------------------------

\* A task that is completed, failed or canceled stays so.
THEOREM TerminalStaysFinal ==
  ASSUME Isolation # "none"
  PROVE  Spec => TerminalIsFinal
<1>1. ASSUME IsolatedInv, [Next]_vars
      PROVE  \A t \in Tasks : status[t] \in Terminal => status'[t] = status[t]
  <2>1. Undecided \/ \E t \in Tasks : Decides(t)
    BY <1>1, IsolatedStep
  <2> QED BY <1>1, <2>1 DEF Undecided, Decides, IsolatedInv, TypeInv, TypeOK
<1> QED BY <1>1, IsolatedAlways, PTL DEF Spec, TerminalIsFinal

\* However often its completion is reported, a task is paid for at most once.
THEOREM PaymentsAreSingle ==
  ASSUME Isolation # "none"
  PROVE  Spec => []PaidAtMostOnce
<1>1. IsolatedInv => PaidAtMostOnce
  BY DEF IsolatedInv, PaidWhenCompleted, PaidAtMostOnce
<1> QED BY <1>1, IsolatedAlways, PTL

\* No payment is ever made for a task that is not, or does not stay, completed.
THEOREM PaymentsAreForCompleted ==
  ASSUME Isolation # "none"
  PROVE  Spec => []PaidIsCompleted
<1>1. IsolatedInv => PaidIsCompleted
  BY DEF IsolatedInv, PaidWhenCompleted, PaidIsCompleted
<1> QED BY <1>1, IsolatedAlways, PTL

\* Every behaviour of the broker is one of TaskEscrow: an order is decided once,
\* and paid for exactly when it is completed against credits.
THEOREM BrokerKeepsEscrow ==
  ASSUME Isolation # "none"
  PROVE  Spec => KeepsEscrow
<1>1. Init => Escrow!Init
  BY DEF Init, Escrow!Init, Terminal, PaysCredits
<1>2. ASSUME IsolatedInv, [Next]_vars
      PROVE  [Escrow!Next]_(Escrow!vars)
  <2> DEFINE outcome(t) == IF status[t] \in Terminal THEN status[t] ELSE "open"
             due(t) == PaysCredits(t)
  <2>1. UNCHANGED order
    BY <1>2, IsolatedStep
  <2>2. [t \in Tasks |-> PaysCredits(t)]' = [t \in Tasks |-> PaysCredits(t)]
    BY <2>1 DEF PaysCredits, Quoted
  <2>3. CASE Undecided
    BY <2>2, <2>3 DEF Undecided, Escrow!vars
  <2>4. ASSUME NEW t \in Tasks, Decides(t)
        PROVE  [Escrow!Next]_(Escrow!vars)
    <3>1. PICK new \in Statuses :
            /\ status' = [status EXCEPT ![t] = new]
            /\ paid' = [paid EXCEPT ![t] =
                          IF new = "completed" /\ PaysCredits(t) THEN @ + 1 ELSE @]
      BY <2>4 DEF Decides
    <3>2. status[t] \notin Terminal /\ status \in [Tasks -> Statuses]
          /\ paid \in [Tasks -> Nat]
      BY <1>2, <2>4 DEF Decides, IsolatedInv, TypeInv, TypeOK
    <3>3. CASE new = "completed"
      <4>1. [u \in Tasks |-> outcome(u)]'
              = [[u \in Tasks |-> outcome(u)] EXCEPT ![t] = "completed"]
        BY <3>1, <3>2, <3>3 DEF Terminal
      <4>2. paid' = [paid EXCEPT ![t] =
                       IF [u \in Tasks |-> PaysCredits(u)][t] THEN @ + 1 ELSE @]
        BY <3>1, <3>3
      <4>3. Escrow!Complete(t)
        BY <2>2, <3>2, <4>1, <4>2 DEF Escrow!Complete
      <4> QED BY <4>3 DEF Escrow!Next
    <3>4. CASE new \in {"failed", "canceled"}
      <4>1. [u \in Tasks |-> outcome(u)]'
              = [[u \in Tasks |-> outcome(u)] EXCEPT ![t] = new]
        BY <3>1, <3>2, <3>4 DEF Terminal
      <4>2. paid' = paid
        BY <3>1, <3>2, <3>4
      <4>3. Escrow!Release(t)
        BY <2>2, <3>2, <3>4, <4>1, <4>2 DEF Escrow!Release
      <4> QED BY <4>3 DEF Escrow!Next
    <3>5. CASE new \notin Terminal
      <4>1. [u \in Tasks |-> outcome(u)]' = [u \in Tasks |-> outcome(u)]
        BY <3>1, <3>2, <3>5
      <4>2. paid' = paid
        BY <3>1, <3>2, <3>5 DEF Terminal
      <4> QED BY <2>2, <4>1, <4>2 DEF Escrow!vars
    <3> QED BY <3>3, <3>4, <3>5 DEF Terminal
  <2>5. Undecided \/ \E t \in Tasks : Decides(t)
    BY <1>2, IsolatedStep
  <2> QED BY <2>3, <2>4, <2>5
<1> QED BY <1>1, <1>2, IsolatedAlways, PTL DEF Spec, KeepsEscrow, Escrow!Spec

-----------------------------------------------------------------------------
(* One reservation per task.                                               *)

\* A reservation whose task still reads as unconfirmed has a session that is
\* about to change that.
ReservationUnderWay ==
  \A t \in Tasks :
    holds[t] > 0 /\ status[t] \in {"absent", "pending_approval"}
      => \E s \in Sessions : /\ session[s].task = t
                            /\ session[s].at \in {"insert", "submit"}

\* No session takes its task back to wait for an approval.
GoesAhead ==
  \A s \in Sessions :
    session[s].at # "idle" => session[s].next \notin {"absent", "pending_approval"}

ReservedOnceInv ==
  IsolatedInv /\ ReservedAtMostOnce /\ ReservationUnderWay /\ GoesAhead

LEMMA ReservedOnceInit == Init => ReservedOnceInv
  BY IsolatedInit, IdleType
  DEF Init, ReservedOnceInv, ReservedAtMostOnce, ReservationUnderWay, GoesAhead

LEMMA ReservedOnceProgress ==
  ASSUME ReservedOnceInv, NEW s \in Sessions, Progress(s)
  PROVE  ReservedAtMostOnce' /\ ReservationUnderWay' /\ GoesAhead'
<1> DEFINE t == session[s].task
<1>1. /\ TypeInv /\ StillAsRead(s) /\ t \in Tasks /\ session[s].at # "idle"
      /\ session[s].next \notin {"absent", "pending_approval"}
  BY ProgressDecides DEF ReservedOnceInv, IsolatedInv, GoesAhead
\* Every step but Reserve leaves the reservations alone; the task it works on
\* is past its approval when its session ends.
<1>2. ASSUME UNCHANGED holds,
             \A o \in Sessions \ {s} : session'[o] = session[o],
             session'[s].at \in {"idle", "settle", "finish"},
             session'[s].at # "idle" => session'[s].next = session[s].next,
             \A u \in Tasks \ {t} : status'[u] = status[u],
             \/ holds[t] = 0
             \/ status'[t] \notin {"absent", "pending_approval"}
      PROVE  ReservedAtMostOnce' /\ ReservationUnderWay' /\ GoesAhead'
  <2>1. ReservedAtMostOnce' /\ GoesAhead'
    BY <1>1, <1>2 DEF ReservedOnceInv, ReservedAtMostOnce, GoesAhead
  <2>2. ASSUME NEW u \in Tasks, holds'[u] > 0,
               status'[u] \in {"absent", "pending_approval"}
        PROVE  \E o \in Sessions : /\ session'[o].task = u
                                   /\ session'[o].at \in {"insert", "submit"}
    <3>1. u # t
      BY <1>1, <1>2, <2>2 DEF TypeInv, TypeOK
    <3>2. PICK o \in Sessions : /\ session[o].task = u
                                /\ session[o].at \in {"insert", "submit"}
      BY <1>2, <2>2, <3>1 DEF ReservedOnceInv, ReservationUnderWay
    <3>3. o # s
      BY <3>1, <3>2
    <3> QED BY <1>2, <3>2, <3>3
  <2> QED BY <2>1, <2>2 DEF ReservationUnderWay
<1>3. ASSUME Close(s)
      PROVE  /\ session'[s].at = "idle"
             /\ \A o \in Sessions \ {s} : session'[o] = session[o]
  BY <1>1, <1>3, CloseSession, IdleType
\* Nothing has been reserved for a task whose session is at none of "insert"
\* and "submit" and which waits for its approval.
<1>4. ASSUME session[s].at \notin {"insert", "submit"}
      PROVE  holds[t] = 0 \/ status[t] \notin {"absent", "pending_approval"}
  <2>1. ASSUME NEW o \in Sessions, session[o].task = t,
               session[o].at \in {"insert", "submit"}
        PROVE  FALSE
    BY <1>1, <1>4, <2>1 DEF ReservedOnceInv, IsolatedInv, AloneOnTask
  <2> QED BY <1>1, <2>1 DEF ReservedOnceInv, ReservationUnderWay, TypeInv, TypeOK
<1>5. CASE Reserve(s)
  <2>1. holds[t] = 0
    BY <1>1, <1>4, <1>5 DEF Reserve, StillAsRead
  <2>2. /\ holds'[t] = 1
        /\ \A u \in Tasks \ {t} : holds'[u] = holds[u]
        /\ UNCHANGED status
    BY <1>1, <1>5, <2>1 DEF Reserve, TypeInv, TypeOK
  <2>3. /\ session'[s].task = t
        /\ session'[s].at \in {"insert", "submit"}
        /\ session'[s].next = session[s].next
        /\ \A o \in Sessions \ {s} : session'[o] = session[o]
    BY <1>1, <1>5, AdvanceSession DEF Reserve, Points
  <2>4. ReservedAtMostOnce' /\ GoesAhead'
    BY <1>1, <2>2, <2>3 DEF ReservedOnceInv, ReservedAtMostOnce, GoesAhead
  <2>5. ASSUME NEW u \in Tasks, holds'[u] > 0,
               status'[u] \in {"absent", "pending_approval"}
        PROVE  \E o \in Sessions : /\ session'[o].task = u
                                   /\ session'[o].at \in {"insert", "submit"}
    <3>1. CASE u = t
      BY <2>3, <3>1
    <3>2. CASE u # t
      <4>1. PICK o \in Sessions : /\ session[o].task = u
                                  /\ session[o].at \in {"insert", "submit"}
        BY <2>2, <2>5, <3>2 DEF ReservedOnceInv, ReservationUnderWay
      <4> QED BY <2>3, <3>2, <4>1
    <3> QED BY <3>1, <3>2
  <2> QED BY <2>4, <2>5 DEF ReservationUnderWay
<1>6. CASE ReserveRefused(s)
  BY <1>1, <1>2, <1>3, <1>4, <1>6 DEF ReserveRefused, table
<1>7. CASE CreateInsert(s)
  BY <1>1, <1>2, <1>3, <1>7 DEF CreateInsert, TypeInv, TypeOK
<1>8. CASE ConfirmCommit(s)
  BY <1>1, <1>2, <1>3, <1>8 DEF ConfirmCommit, TypeInv, TypeOK
<1>9. CASE ReceiptCommit(s)
  BY <1>1, <1>2, <1>3, <1>9 DEF ReceiptCommit, TypeInv, TypeOK
<1>10. CASE ReceiptRefused(s)
  BY <1>1, <1>2, <1>3, <1>4, <1>10 DEF ReceiptRefused, table
<1>11. CASE Flush(s)
  <2>1. /\ session'[s].at = "settle"
        /\ session'[s].next = session[s].next
        /\ \A o \in Sessions \ {s} : session'[o] = session[o]
    BY <1>1, <1>11, FlushSession
  <2> QED BY <1>1, <1>2, <1>4, <1>11, <2>1 DEF Flush, table
<1>12. CASE StatusCommit(s)
  BY <1>1, <1>2, <1>3, <1>12 DEF StatusCommit, TypeInv, TypeOK
<1>13. CASE ChargeCommit(s)
  <2>1. /\ session'[s].at = "finish"
        /\ session'[s].next = session[s].next
        /\ \A o \in Sessions \ {s} : session'[o] = session[o]
    BY <1>1, <1>13, AdvanceSession DEF ChargeCommit, Points
  <2> QED BY <1>1, <1>2, <1>13, <2>1 DEF ChargeCommit, TypeInv, TypeOK
<1>14. CASE ReleaseCommit(s)
  BY <1>1, <1>2, <1>3, <1>14 DEF ReleaseCommit, TypeInv, TypeOK
<1>15. CASE Finish(s)
  BY <1>1, <1>2, <1>3, <1>4, <1>15 DEF Finish
<1> QED BY <1>5, <1>6, <1>7, <1>8, <1>9, <1>10, <1>11, <1>12, <1>13, <1>14,
           <1>15 DEF Progress

LEMMA ReservedOnceStep ==
  ASSUME Isolation # "none", MaxCrashes = 0,
         "pending_approval" \notin CallbackStatuses,
         ReservedOnceInv, [Next]_vars
  PROVE  ReservedOnceInv'
<1> DEFINE Goal == ReservedAtMostOnce' /\ ReservationUnderWay' /\ GoesAhead'
<1>1. TypeInv /\ TypeInv' /\ IsolatedInv'
  BY IsolatedStep, TypeStep DEF ReservedOnceInv, IsolatedInv
<1>2. ASSUME NEW s \in Sessions, Progress(s)
      PROVE  Goal
  BY <1>2, ReservedOnceProgress
<1>3. ASSUME NEW s \in Sessions, NEW t \in Tasks, Request(s, t)
      PROVE  Goal
  <2>1. PICK x \in Session : session' = [session EXCEPT ![s] = x] /\ Ahead(t, x.next)
    BY <1>1, <1>3, RequestOpens DEF Opens
  <2>2. UNCHANGED <<order, table>> /\ session[s] = Idle
    BY <1>1, <1>3, RequestOpens DEF Opens
  <2>3. session'[s] = x /\ \A o \in Sessions \ {s} : session'[o] = session[o]
    BY <1>1, <2>1 DEF TypeInv, TypeOK
  <2>4. ReservedAtMostOnce' /\ GoesAhead'
    BY <2>1, <2>2, <2>3
    DEF ReservedOnceInv, ReservedAtMostOnce, GoesAhead, Ahead, table
  <2>5. ReservationUnderWay'
    <3>1. \A o \in Sessions : session[o].at \in {"insert", "submit"} => o # s
      BY <2>2, IdleType
    <3> QED BY <2>2, <2>3, <3>1
            DEF ReservedOnceInv, ReservationUnderWay, table
  <2> QED BY <2>4, <2>5
<1>4. ASSUME NEW t \in Tasks, Background(t)
      PROVE  Goal
  <2>1. UNCHANGED <<session, holds>>
    BY <1>4 DEF Background, CreateUnreserved, GraceCheck, Send, AgentNoResult,
               StreamOpen, StreamEnd, table
  <2>2. ReservedAtMostOnce' /\ GoesAhead'
    BY <2>1 DEF ReservedOnceInv, ReservedAtMostOnce, GoesAhead
  <2>3. CASE CreateUnreserved(t)
    <3>1. holds[t] = 0 /\ \A u \in Tasks \ {t} : status'[u] = status[u]
      BY <1>1, <2>3 DEF CreateUnreserved, Unused, TypeInv, TypeOK
    <3> QED BY <2>1, <2>2, <3>1 DEF ReservedOnceInv, ReservationUnderWay
  <2>4. CASE ~CreateUnreserved(t)
    <3>1. UNCHANGED status
      BY <1>4, <2>4 DEF Background, GraceCheck, Send, AgentNoResult, StreamOpen,
                        StreamEnd, table
    <3> QED BY <2>1, <2>2, <3>1 DEF ReservedOnceInv, ReservationUnderWay
  <2> QED BY <2>3, <2>4
<1>5. ASSUME Crash
      PROVE  Goal
  BY <1>1, <1>5 DEF Crash, TypeInv, TypeOK
<1>6. ASSUME UNCHANGED vars
      PROVE  Goal
  BY <1>6
  DEF vars, table, ReservedOnceInv, ReservedAtMostOnce, ReservationUnderWay,
      GoesAhead
<1>7. Goal
  BY <1>2, <1>3, <1>4, <1>5, <1>6 DEF Next
<1> QED BY <1>1, <1>7 DEF ReservedOnceInv

\* However often a task is confirmed, one reservation is made for it, as long as
\* the process does not stop between the reservation and the new status and no
\* agent reports a task back to waiting for its approval.
THEOREM ReservationsAreSingle ==
  ASSUME Isolation # "none", MaxCrashes = 0,
         "pending_approval" \notin CallbackStatuses
  PROVE  Spec => []ReservedAtMostOnce
<1>1. Spec => []ReservedOnceInv
  BY ReservedOnceInit, ReservedOnceStep, PTL DEF Spec
<1> QED BY <1>1, PTL DEF ReservedOnceInv

-----------------------------------------------------------------------------
(***************************************************************************)
(* The accounts, as long as no two handlers overlap: what a handler has    *)
(* read of an account is what the account still holds when it writes it    *)
(* back.  Then transfers move credits and create none, and what is         *)
(* reserved is what the open tasks have set aside, for every set of users  *)
(* and tasks, every price and wherever the process crashes.                *)
(***************************************************************************)

\* One handler is at work, at most.
OneAtATime ==
  \A s1, s2 \in Sessions : s1 # s2 => session[s1] = Idle \/ session[s2] = Idle

\* The accounts it keeps are as it has read them, until it has settled.
FreshCopies ==
  \A s \in Sessions :
    session[s].at \in {"reserve", "write", "settle"}
      => \A u \in session[s].held : session[s].copy[u] = account[u]

AccountsInv == IsolatedInv /\ OneAtATime /\ FreshCopies

LEMMA AccountsInit == Init => AccountsInv
  BY IsolatedInit, IdleType DEF Init, AccountsInv, OneAtATime, FreshCopies

\* What a session about to write an account has loaded are the accounts.
LEMMA LoadedIsAccount ==
  ASSUME TypeInv, FreshCopies, NEW s \in Sessions,
         session[s].at \in {"reserve", "write", "settle"}
  PROVE  Loaded(s) = account
  BY DEF TypeInv, TypeOK, FreshCopies, Loaded, View

\* A step that ends with the session idle or past its writes keeps the copies
\* of the others, which have none.
LEMMA OthersIdle ==
  ASSUME OneAtATime, NEW s \in Sessions, session[s].at # "idle",
         \A o \in Sessions \ {s} : session'[o] = session[o]
  PROVE  /\ \A o \in Sessions \ {s} : session'[o] = Idle
         /\ OneAtATime'
<1>1. \A o \in Sessions \ {s} : session'[o] = Idle
  BY IdleType DEF OneAtATime
<1> QED
  BY <1>1 DEF OneAtATime

LEMMA FlushCopies ==
  ASSUME TypeInv, FreshCopies, NEW s \in Sessions, Flush(s)
  PROVE  \A u \in session'[s].held : session'[s].copy[u] = account[u]
<1> DEFINE c == Creator(session[s].task)
<1>1. /\ session[s] \in Session /\ session[s].at = "write"
      /\ \A u \in session[s].held : session[s].copy[u] = account[u]
  BY DEF TypeInv, TypeOK, FreshCopies, Flush
<1>2. c \in Users /\ View(s, c) = account[c]
  BY <1>1, OrderType DEF View, TypeInv, BusyOnTask
<1>3. /\ session'[s].held = session[s].held \cup {c}
      /\ session'[s].copy = [session[s].copy EXCEPT ![c] = View(s, c)]
  BY <1>1 DEF Flush, TypeInv, TypeOK, Session
<1> QED
  BY <1>1, <1>2, <1>3 DEF Session

LEMMA AccountsStep ==
  ASSUME Isolation = "request", AccountsInv, [Next]_vars
  PROVE  AccountsInv'
<1> DEFINE Goal == OneAtATime' /\ FreshCopies'
<1>1. IsolatedInv' /\ TypeInv
  BY IsolatedStep DEF AccountsInv, IsolatedInv
<1>2. ASSUME NEW s \in Sessions, Progress(s)
      PROVE  Goal
  <2>1. session[s].at # "idle" /\ \A o \in Sessions \ {s} : session'[o] = session[o]
    BY <1>2, ProgressDecides DEF AccountsInv
  <2>2. OneAtATime' /\ \A o \in Sessions \ {s} : session'[o] = Idle
    BY <2>1, OthersIdle DEF AccountsInv
  <2>3. CASE Flush(s)
    <3>1. \A u \in session'[s].held : session'[s].copy[u] = account[u]
      BY <1>1, <2>3, FlushCopies DEF AccountsInv
    <3>2. UNCHANGED account
      BY <2>3 DEF Flush, table
    <3> QED
      BY <2>2, <3>1, <3>2, IdleType DEF FreshCopies
  <2>4. CASE ~Flush(s)
    <3>1. \/ Close(s)
          \/ \E point \in {"insert", "submit", "finish"} : Advance(s, point)
      BY <1>2, <2>4
      DEF Progress, Reserve, ReserveRefused, CreateInsert, ConfirmCommit,
          ReceiptCommit, ReceiptRefused, StatusCommit, ChargeCommit,
          ReleaseCommit, Finish
    <3>2. session'[s].at \notin {"reserve", "write", "settle"}
      BY <1>1, <3>1, CloseSession, AdvanceSession, IdleType DEF Points
    <3> QED
      BY <2>2, <3>2, IdleType DEF FreshCopies
  <2> QED
    BY <2>3, <2>4
<1>3. ASSUME NEW s \in Sessions, NEW t \in Tasks, Request(s, t)
      PROVE  Goal
  <2>1. UNCHANGED account /\ Admit(t)
    BY <1>1, <1>3, RequestOpens DEF Opens, table
  <2>2. PICK x \in Session : /\ session' = [session EXCEPT ![s] = x]
                             /\ x.copy = Snapshot(x.held)
    BY <1>1, <1>3, RequestOpens DEF Opens
  <2>3. \A o \in Sessions : session[o] = Idle
    BY <2>1 DEF Admit
  <2>4. session'[s] = x /\ \A o \in Sessions \ {s} : session'[o] = Idle
    BY <1>1, <2>2, <2>3 DEF TypeInv, TypeOK
  <2>5. \A u \in x.held : x.copy[u] = account[u]
    BY <2>2 DEF Snapshot, Session
  <2> QED
    BY <2>1, <2>4, <2>5, IdleType DEF OneAtATime, FreshCopies
<1>4. ASSUME NEW t \in Tasks, Background(t)
      PROVE  Goal
  <2>1. UNCHANGED <<session, account>>
    BY <1>4 DEF Background, CreateUnreserved, GraceCheck, Send, AgentNoResult,
               StreamOpen, StreamEnd, table
  <2> QED
    BY <2>1 DEF AccountsInv, OneAtATime, FreshCopies
<1>5. ASSUME Crash
      PROVE  Goal
  BY <1>5, IdleType DEF Crash, OneAtATime, FreshCopies
<1>6. ASSUME UNCHANGED vars
      PROVE  Goal
  BY <1>6 DEF vars, table, AccountsInv, OneAtATime, FreshCopies
<1>7. Goal
  BY <1>2, <1>3, <1>4, <1>5, <1>6 DEF Next
<1> QED
  BY <1>1, <1>7 DEF AccountsInv

-----------------------------------------------------------------------------
(* What the ledger's operations do to accounts that are as loaded.         *)

LEMMA ReserveEffect ==
  ASSUME NEW a \in [Users -> Account], NEW u \in Users, NEW amount \in Nat, NEW v \in Users
  PROVE  /\ ReserveCredits(a, a, u, amount)[v].balance = a[v].balance
         /\ ReserveCredits(a, a, u, amount)[v].reserved =
              a[v].reserved + IF v = u THEN amount ELSE 0
  BY DEF ReserveCredits, SetReserved, Column, Account

LEMMA ReleaseEffect ==
  ASSUME NEW a \in [Users -> Account], NEW u \in Users, NEW amount \in Nat, NEW v \in Users
  PROVE  /\ ReleaseCredits(a, a, u, amount)[v].balance = a[v].balance
         /\ amount <= a[u].reserved
              => ReleaseCredits(a, a, u, amount)[v].reserved =
                   a[v].reserved - IF v = u THEN amount ELSE 0
  BY DEF ReleaseCredits, SetReserved, Column, Account

\* A transfer takes the amount from the client and gives it, without the fee, to
\* the provider, also when they are one.
LEMMA ChargeEffect ==
  ASSUME NEW a \in [Users -> Account], NEW c \in Users, NEW p \in Users,
         NEW amount \in Nat, NEW v \in Users
  PROVE  /\ ChargeCredits(a, a, c, p, amount)[v].balance =
              a[v].balance - (IF v = c THEN amount ELSE 0)
                           + (IF v = p THEN amount - Fee(amount) ELSE 0)
         /\ ChargeCredits(a, a, c, p, amount)[v].reserved =
              a[v].reserved - IF v = c THEN amount ELSE 0
<1> DEFINE debited == SetReserved(a, a, c, a[c].reserved - amount)
           earned == amount - Fee(amount)
<1>1. earned \in Int /\ a[v].balance \in Int /\ a[v].reserved \in Int
  BY DEF Fee, Account
<1>2. /\ debited \in [Users -> Account]
      /\ \A w \in Users :
           /\ debited[w].balance = a[w].balance
           /\ debited[w].reserved = a[w].reserved - IF w = c THEN amount ELSE 0
  BY DEF SetReserved, Column, Account
<1> HIDE DEF debited, earned
<1>3. CASE c = p
  <2>1. ChargeCredits(a, a, c, p, amount) =
          SetBalance(debited, a, c, a[c].balance - amount + earned)
    BY <1>3 DEF ChargeCredits, debited, earned
  <2> QED
    BY <1>1, <1>2, <1>3, <2>1 DEF SetBalance, Column, Account, earned
<1>4. CASE c # p
  <2> DEFINE once == SetBalance(debited, a, c, a[c].balance - amount)
  <2>1. ChargeCredits(a, a, c, p, amount) =
          SetBalance(once, a, p, a[p].balance + earned)
    BY <1>4 DEF ChargeCredits, debited, earned
  <2>2. /\ once \in [Users -> Account]
        /\ \A w \in Users :
             /\ once[w].balance = a[w].balance - IF w = c THEN amount ELSE 0
             /\ once[w].reserved = debited[w].reserved
    BY <1>2 DEF SetBalance, Column, Account
  <2> HIDE DEF once
  <2> QED
    BY <1>1, <1>2, <1>4, <2>1, <2>2 DEF SetBalance, Column, Account, earned
<1> QED
  BY <1>3, <1>4

-----------------------------------------------------------------------------
(* Credits are conserved.                                                  *)

Balances(a) == [u \in Users |-> a[u].balance]

LEMMA SameBalances ==
  ASSUME NEW a \in [Users -> Account], NEW b, \A v \in Users : b[v].balance = a[v].balance
  PROVE  Balances(b) = Balances(a)
  BY DEF Balances

\* A transfer takes the fee out of the sum of the balances.
LEMMA ChargeTakesFee ==
  ASSUME IsFiniteSet(Users), NEW a \in [Users -> Account],
         NEW c \in Users, NEW p \in Users, NEW amount \in Nat
  PROVE  SumFunctionOnSet(Balances(ChargeCredits(a, a, c, p, amount)), Users) =
           SumFunctionOnSet(Balances(a), Users) - Fee(amount)
<1> DEFINE g == Balances(a)
           k == [g EXCEPT ![c] = @ - amount]
           h == Balances(ChargeCredits(a, a, c, p, amount))
<1>1. Fee(amount) \in Int /\ \A v \in Users : g[v] \in Int /\ k[v] \in Int
  BY DEF Fee, Balances, Account
<1>2. \A v \in Users : h[v] = k[v] + IF v = p THEN amount - Fee(amount) ELSE 0
  BY <1>1, ChargeEffect DEF Balances, Account
<1>3. k[c] = g[c] - amount /\ \A v \in Users : v # c => k[v] = g[v]
  BY DEF Balances
<1>4. h[p] \in Int /\ h[p] = k[p] + amount - Fee(amount) /\ \A v \in Users : v # p => h[v] = k[v]
  BY <1>1, <1>2
<1>5. SumFunctionOnSet(g, Users) \in Int
  <2> HIDE DEF g
  <2> QED
    BY <1>1, SumWithout
<1>6. SumFunctionOnSet(k, Users) = SumFunctionOnSet(g, Users) - g[c] + k[c]
  <2> HIDE DEF g, k
  <2> QED
    BY <1>1, <1>3, SumChange
<1>7. SumFunctionOnSet(h, Users) = SumFunctionOnSet(k, Users) - k[p] + h[p]
  <2> HIDE DEF k, h
  <2> QED
    BY <1>1, <1>4, SumChange
<1> HIDE DEF g, k, h
<1>8. SumFunctionOnSet(h, Users) = SumFunctionOnSet(g, Users) - Fee(amount)
  BY <1>1, <1>3, <1>4, <1>5, <1>6, <1>7
<1> QED
  BY <1>8 DEF g, h

Conserved ==
  SumFunctionOnSet(Balances(account), Users) + fees = InitialCredits * Cardinality(Users)

\* Accounts change where credits are reserved, released or charged.
LEMMA AccountWriters ==
  ASSUME TypeInv, [Next]_vars
  PROVE  \/ UNCHANGED <<account, fees>>
         \/ \E s \in Sessions : Reserve(s) \/ ReleaseCommit(s) \/ ChargeCommit(s)
<1>1. ASSUME NEW s \in Sessions, NEW t \in Tasks, Request(s, t)
      PROVE  UNCHANGED <<account, fees>>
  BY <1>1, RequestOpens DEF table
<1>2. ASSUME NEW t \in Tasks, Background(t)
      PROVE  UNCHANGED <<account, fees>>
  BY <1>2 DEF Background, CreateUnreserved, GraceCheck, Send, AgentNoResult,
             StreamOpen, StreamEnd, table
<1>3. ASSUME NEW s \in Sessions, Progress(s)
      PROVE  \/ UNCHANGED <<account, fees>>
             \/ Reserve(s) \/ ReleaseCommit(s) \/ ChargeCommit(s)
  BY <1>3 DEF Progress, ReserveRefused, CreateInsert, ConfirmCommit,
             ReceiptCommit, ReceiptRefused, Flush, StatusCommit, Finish, table
<1>4. Crash \/ UNCHANGED vars => UNCHANGED <<account, fees>>
  BY DEF Crash, vars, table
<1> QED
  BY <1>1, <1>2, <1>3, <1>4 DEF Next

LEMMA ConservedStep ==
  ASSUME IsFiniteSet(Users), Isolation = "request", AccountsInv, Conserved, [Next]_vars
  PROVE  Conserved'
<1>1. TypeInv /\ account \in [Users -> Account] /\ fees \in Int
  BY DEF AccountsInv, IsolatedInv, TypeInv, TypeOK
<1>2. ASSUME UNCHANGED fees, Balances(account') = Balances(account)
      PROVE  Conserved'
  BY <1>2 DEF Conserved
<1>3. ASSUME NEW s \in Sessions, Reserve(s)
      PROVE  Conserved'
  <2>1. session[s].user \in Users /\ session[s].task \in Tasks /\ session[s].at = "reserve"
    BY <1>1, <1>3 DEF Reserve, TypeInv, BusyOnTask
  <2>2. Loaded(s) = account /\ Quoted(session[s].task) \in Nat
    BY <1>1, <2>1, LoadedIsAccount, OrderType DEF AccountsInv, TypeInv
  <2>3. account' = ReserveCredits(account, account, session[s].user, Quoted(session[s].task))
    BY <1>3, <2>2 DEF Reserve
  <2>4. \A v \in Users : account'[v].balance = account[v].balance
    BY <1>1, <2>1, <2>2, <2>3, ReserveEffect
  <2> QED
    BY <1>1, <1>2, <1>3, <2>4, SameBalances DEF Reserve
<1>4. ASSUME NEW s \in Sessions, ReleaseCommit(s)
      PROVE  Conserved'
  <2>1. session[s].task \in Tasks /\ session[s].at = "settle"
    BY <1>1, <1>4 DEF ReleaseCommit, TypeInv, BusyOnTask
  <2>2. /\ Loaded(s) = account
        /\ Creator(session[s].task) \in Users /\ Quoted(session[s].task) \in Nat
    BY <1>1, <2>1, LoadedIsAccount, OrderType DEF AccountsInv, TypeInv
  <2>3. account' = ReleaseCredits(account, account, Creator(session[s].task),
                                  Quoted(session[s].task))
    BY <1>4, <2>2 DEF ReleaseCommit
  <2>4. \A v \in Users : account'[v].balance = account[v].balance
    BY <1>1, <2>2, <2>3, ReleaseEffect
  <2> QED
    BY <1>1, <1>2, <1>4, <2>4, SameBalances DEF ReleaseCommit
<1>5. ASSUME NEW s \in Sessions, ChargeCommit(s)
      PROVE  Conserved'
  <2> DEFINE t == session[s].task
  <2>1. t \in Tasks /\ session[s].at = "settle"
    BY <1>1, <1>5 DEF ChargeCommit, TypeInv, BusyOnTask
  <2>2. /\ Loaded(s) = account
        /\ Creator(t) \in Users /\ Owner(t) \in Users /\ Quoted(t) \in Nat
    BY <1>1, <2>1, LoadedIsAccount, OrderType DEF AccountsInv, TypeInv
  <2>3. /\ account' = ChargeCredits(account, account, Creator(t), Owner(t), Quoted(t))
        /\ fees' = fees + Fee(Quoted(t))
    BY <1>5, <2>2 DEF ChargeCommit
  <2>4. SumFunctionOnSet(Balances(account'), Users) =
          SumFunctionOnSet(Balances(account), Users) - Fee(Quoted(t))
    BY <1>1, <2>2, <2>3, ChargeTakesFee
  <2>5. SumFunctionOnSet(Balances(account), Users) \in Int /\ Fee(Quoted(t)) \in Int
    <3>1. \A v \in Users : Balances(account)[v] \in Int
      BY <1>1 DEF Balances, Account
    <3> QED
      BY <2>2, <3>1, SumWithout DEF Fee
  <2> QED
    BY <1>1, <2>3, <2>4, <2>5 DEF Conserved
<1>6. CASE UNCHANGED <<account, fees>>
  BY <1>2, <1>6
<1> QED
  BY <1>1, <1>3, <1>4, <1>5, <1>6, AccountWriters

LEMMA ConservedInit ==
  ASSUME IsFiniteSet(Users), Init PROVE Conserved
<1>1. \A v \in Users : Balances(account)[v] = InitialCredits
  BY DEF Init, Balances
<1>2. SumFunctionOnSet(Balances(account), Users) = InitialCredits * Cardinality(Users)
  BY <1>1, CreditsAssumption, SumOfConstant
<1> QED
  BY <1>2, CreditsAssumption, FS_CardinalityType DEF Init, Conserved

\* Transfers move credits: the balances of all accounts and the platform's fees
\* add up to what was put in, whatever the orders, also when a client hires an
\* agent of its own, and wherever the process stops, as long as no two handlers
\* work on accounts they have read at the same time.
THEOREM CreditsAreConserved ==
  ASSUME Isolation = "request", IsFiniteSet(Users)
  PROVE  Spec => []CreditsConserved
<1>1. Init => AccountsInv /\ Conserved
  BY AccountsInit, ConservedInit
<1>2. (AccountsInv /\ Conserved) /\ [Next]_vars => (AccountsInv /\ Conserved)'
  BY AccountsStep, ConservedStep
<1>3. Conserved => CreditsConserved
  BY DEF Conserved, CreditsConserved, Balances
<1> QED
  BY <1>1, <1>2, <1>3, PTL DEF Spec

-----------------------------------------------------------------------------
(* What the open tasks of a user have set aside.                           *)

\* Credits set aside for a task as long as it is not settled.
Amount(t) == IF status[t] \in Terminal THEN 0 ELSE holds[t] * Quoted(t)

LEMMA AmountType ==
  ASSUME TypeOK, NEW t \in Tasks
  PROVE  Amount(t) \in Nat
<1>1. holds[t] \in Nat /\ Quoted(t) \in Nat
  BY OrderType DEF TypeOK
<1>2. \A m, n \in Nat : m * n \in Nat
  OBVIOUS
<1> QED
  BY <1>1, <1>2 DEF Amount

LEMMA SetAsideIsAmount ==
  ASSUME NEW u
  PROVE  SetAside(u) = [t \in Tasks |-> IF Creator(t) = u THEN Amount(t) ELSE 0]
  BY DEF SetAside, Amount

LEMMA OutstandingType ==
  ASSUME TypeOK, IsFiniteSet(Tasks), NEW u
  PROVE  /\ Outstanding(u) \in Nat
         /\ \A t \in Tasks : Creator(t) = u => Amount(t) <= Outstanding(u)
<1> DEFINE g == SetAside(u)
<1>1. \A t \in Tasks : g[t] \in Nat
  BY AmountType, SetAsideIsAmount
<1>2. \A t \in Tasks : Creator(t) = u => g[t] = Amount(t)
  BY SetAsideIsAmount
<1>3. SumFunctionOnSet(g, Tasks) \in Nat /\ \A t \in Tasks : g[t] <= SumFunctionOnSet(g, Tasks)
  <2> HIDE DEF g
  <2> QED
    BY <1>1, SumOfNats
<1> QED
  BY <1>2, <1>3 DEF Outstanding

\* A step that changes what one task has set aside changes what its creator has
\* outstanding by as much, and nobody else's.
LEMMA OutstandingChange ==
  ASSUME TypeOK, TypeOK', IsFiniteSet(Tasks), UNCHANGED order, NEW t \in Tasks,
         \A o \in Tasks \ {t} : Amount(o)' = Amount(o), NEW u
  PROVE  Outstanding(u)' = Outstanding(u) + IF Creator(t) = u THEN Amount(t)' - Amount(t) ELSE 0
<1> DEFINE g == SetAside(u)
           h == SetAside(u)'
<1>1. \A o \in Tasks : Amount(o) \in Int
  BY AmountType
<1>2. \A o \in Tasks : Amount(o)' \in Int
  <2> TAKE o \in Tasks
  <2>1. holds'[o] \in Nat /\ Quoted(o)' \in Nat
    BY OrdersAssumption DEF TypeOK, Order, Quoted
  <2>2. holds'[o] * Quoted(o)' \in Nat
    BY <2>1
  <2> QED
    BY <2>2 DEF Amount
<1>3. \A o \in Tasks : Creator(o)' = Creator(o)
  BY DEF Creator
<1>4. \A o \in Tasks : g[o] = IF Creator(o) = u THEN Amount(o) ELSE 0
  BY SetAsideIsAmount
<1>5. \A o \in Tasks : h[o] = IF Creator(o) = u THEN Amount(o)' ELSE 0
  BY <1>3 DEF SetAside, Amount
<1>6. \A o \in Tasks : g[o] \in Int /\ h[o] \in Int /\ (o # t => h[o] = g[o])
  BY <1>1, <1>2, <1>4, <1>5
<1>7. Outstanding(u) = SumFunctionOnSet(g, Tasks) /\ Outstanding(u)' = SumFunctionOnSet(h, Tasks)
  BY DEF Outstanding
<1>8. SumFunctionOnSet(g, Tasks) \in Int
  <2> HIDE DEF g
  <2> QED
    BY <1>6, SumWithout
<1>9. SumFunctionOnSet(h, Tasks) = SumFunctionOnSet(g, Tasks) - g[t] + h[t]
  <2>1. PICK before, after : before = g /\ after = h
    OBVIOUS
  <2>2. /\ \A y \in Tasks : before[y] \in Int
        /\ after[t] \in Int
        /\ \A y \in Tasks : y # t => after[y] = before[y]
    BY <1>6, <2>1
  <2>3. SumFunctionOnSet(after, Tasks) =
          SumFunctionOnSet(before, Tasks) - before[t] + after[t]
    BY <2>2, SumChange
  <2> HIDE DEF g, h
  <2> QED
    BY <2>1, <2>3
<1>10. /\ g[t] = IF Creator(t) = u THEN Amount(t) ELSE 0
       /\ h[t] = IF Creator(t) = u THEN Amount(t)' ELSE 0
       /\ Amount(t) \in Int /\ Amount(t)' \in Int
  BY <1>1, <1>2, <1>4, <1>5
<1> HIDE DEF g, h
<1> QED
  BY <1>7, <1>8, <1>9, <1>10

LEMMA OutstandingSame ==
  ASSUME UNCHANGED order, \A t \in Tasks : Amount(t)' = Amount(t), NEW u
  PROVE  Outstanding(u)' = Outstanding(u)
<1>1. \A t \in Tasks : SetAside(u)'[t] = SetAside(u)[t]
  BY DEF SetAside, Amount, Creator
<1>2. SetAside(u)' = SetAside(u)
  BY <1>1 DEF SetAside
<1> QED
  BY <1>2 DEF Outstanding

-----------------------------------------------------------------------------
(* What is reserved is what is outstanding.                                *)

(***************************************************************************)
(* The orders of which that can be said: those that cost credits are       *)
(* delegated, so that a cancel releases them, and below the approval       *)
(* threshold, so that the user who confirms pays nobody else's task.       *)
(***************************************************************************)
PlainOrders ==
  \A o \in Orders :
    o.method = "credits" /\ o.quoted > 0 => o.delegated /\ o.quoted <= ApprovalThreshold

\* A task that costs credits has its reservation from the moment its row exists,
\* and never waits for an approval.
ReservedOnCreation ==
  \A t \in Tasks :
    /\ ~PaysCredits(t) => holds[t] = 0
    /\ PaysCredits(t) => /\ status[t] # "pending_approval"
                         /\ status[t] # "absent" => holds[t] = 1

\* A handler that is going to reserve or to insert finds no reservation, or its own.
HandlerReserves(s) ==
  /\ session[s].at = "reserve" =>
       /\ PaysCredits(session[s].task)
       /\ holds[session[s].task] = 0
       /\ session[s].user = Creator(session[s].task)
  /\ session[s].at = "insert" =>
       PaysCredits(session[s].task) /\ holds[session[s].task] = 1

HandlersReserve == \A s \in Sessions : HandlerReserves(s)

ReservedInvariant ==
  /\ AccountsInv
  /\ ReservedOnCreation
  /\ HandlersReserve
  /\ GoesAhead
  /\ ReservedIsOutstanding

LEMMA PlainTask ==
  ASSUME PlainOrders, TypeOK, NEW t \in Tasks, PaysCredits(t)
  PROVE  order[t].delegated /\ ~HighCost(t)
<1>1. order[t] \in Orders /\ Quoted(t) \in Nat
  BY OrderType DEF TypeOK
<1>2. order[t].delegated /\ Quoted(t) <= ApprovalThreshold
  BY <1>1 DEF PlainOrders, PaysCredits, Quoted
<1> QED
  BY <1>1, <1>2, CreditsAssumption DEF HighCost

LEMMA ReservedInvInit ==
  ASSUME IsFiniteSet(Tasks), Init PROVE ReservedInvariant
<1>1. ReservedOnCreation /\ HandlersReserve /\ GoesAhead
  BY IdleType DEF Init, ReservedOnCreation, HandlersReserve, HandlerReserves, GoesAhead
<1>2. ASSUME NEW u \in Users PROVE Outstanding(u) = 0
  <2>1. TypeOK
    BY TypeInit DEF TypeInv
  <2>2. \A t \in Tasks : Amount(t) = 0
    BY <2>1, OrderType DEF Init, Amount
  <2>3. \A t \in Tasks : SetAside(u)[t] = 0
    BY <2>2, SetAsideIsAmount
  <2> QED
    BY <2>3, SumOfZeros DEF Outstanding
<1>3. ReservedIsOutstanding
  BY <1>2 DEF Init, ReservedIsOutstanding
<1> QED
  BY <1>1, <1>3, AccountsInit DEF ReservedInvariant

\* A handler that is done with the task it works on, and has taken or given back
\* what the task has set aside, keeps the invariant.
LEMMA HandlersKeep ==
  ASSUME ReservedInvariant, NEW s \in Sessions, UNCHANGED order,
         \A o \in Sessions \ {s} : session'[o] = Idle,
         session'[s].at \notin {"reserve", "insert"},
         session'[s].at # "idle" => session'[s].next \notin {"absent", "pending_approval"}
  PROVE  HandlersReserve' /\ GoesAhead'
  BY IdleType DEF HandlersReserve, HandlerReserves, GoesAhead

LEMMA RowsKeep ==
  ASSUME ReservedInvariant, UNCHANGED <<order, holds>>, NEW t \in Tasks,
         \A o \in Tasks \ {t} : status'[o] = status[o],
         status'[t] # "pending_approval",
         PaysCredits(t) => holds[t] = 1
  PROVE  ReservedOnCreation'
<1>1. \A o \in Tasks : PaysCredits(o)' = PaysCredits(o)
  BY DEF PaysCredits, Quoted
<1> QED
  BY <1>1 DEF ReservedInvariant, ReservedOnCreation

LEMMA LedgerKeeps ==
  ASSUME ReservedInvariant, UNCHANGED <<order, holds>>, NEW t \in Tasks,
         \A u \in Users : account'[u].reserved = account[u].reserved,
         \A o \in Tasks \ {t} : status'[o] = status[o],
         status[t] \notin Terminal,
         status'[t] \notin Terminal \/ holds[t] = 0
  PROVE  ReservedIsOutstanding'
<1>1. \A o \in Tasks : Amount(o)' = Amount(o)
  <2> TAKE o \in Tasks
  <2>1. TypeOK /\ Quoted(o)' = Quoted(o) /\ Quoted(o) \in Nat
    BY OrderType DEF ReservedInvariant, AccountsInv, IsolatedInv, TypeInv, Quoted
  <2>2. 0 * Quoted(o) = 0
    BY <2>1
  <2> QED
    BY <2>1, <2>2 DEF Amount
<1>2. \A u \in Users : Outstanding(u)' = Outstanding(u)
  BY <1>1, OutstandingSame
<1> QED
  BY <1>2 DEF ReservedInvariant, ReservedIsOutstanding

\* The creator's reservation grows or shrinks with what the task has set aside.
LEMMA LedgerFollows ==
  ASSUME IsFiniteSet(Tasks), ReservedInvariant, TypeOK', UNCHANGED order, NEW t \in Tasks,
         \A o \in Tasks \ {t} : status'[o] = status[o] /\ holds'[o] = holds[o],
         \A u \in Users : account'[u].reserved = account[u].reserved +
                            IF u = Creator(t) THEN Amount(t)' - Amount(t) ELSE 0
  PROVE  ReservedIsOutstanding'
<1>1. TypeOK
  BY DEF ReservedInvariant, AccountsInv, IsolatedInv, TypeInv
<1>2. \A o \in Tasks \ {t} : Amount(o)' = Amount(o)
  BY DEF Amount, Quoted
<1>3. ASSUME NEW u \in Users PROVE account'[u].reserved = Outstanding(u)'
  <2>1. Outstanding(u)' = Outstanding(u) + IF Creator(t) = u THEN Amount(t)' - Amount(t) ELSE 0
    BY <1>1, <1>2, OutstandingChange
  <2>2. account[u].reserved = Outstanding(u)
    BY DEF ReservedInvariant, ReservedIsOutstanding
  <2>3. account'[u].reserved = account[u].reserved +
          IF Creator(t) = u THEN Amount(t)' - Amount(t) ELSE 0
    OBVIOUS
  <2> QED
    BY <2>1, <2>2, <2>3
<1> QED
  BY <1>3 DEF ReservedIsOutstanding

\* A task that is being settled has its price reserved.
LEMMA SettledIsReserved ==
  ASSUME IsFiniteSet(Tasks), ReservedInvariant, NEW s \in Sessions, NEW t \in Tasks,
         t = session[s].task, session[s].at = "settle"
  PROVE  Quoted(t) <= account[Creator(t)].reserved
<1>1. TypeOK /\ Creator(t) \in Users /\ Quoted(t) \in Nat
  BY OrderType DEF ReservedInvariant, AccountsInv, IsolatedInv, TypeInv
<1>2. Live(t) /\ PaysCredits(t)
  BY DEF ReservedInvariant, AccountsInv, IsolatedInv, StillAsRead
<1>3. Amount(t) = Quoted(t)
  BY <1>1, <1>2 DEF ReservedInvariant, ReservedOnCreation, Amount, Live
<1>4. Amount(t) <= Outstanding(Creator(t))
  BY <1>1, OutstandingType
<1> QED
  BY <1>1, <1>3, <1>4 DEF ReservedInvariant, ReservedIsOutstanding

LEMMA ReservedInvProgress ==
  ASSUME IsFiniteSet(Tasks), PlainOrders, ReservedInvariant, TypeOK',
         NEW s \in Sessions, Progress(s), NEW t \in Tasks, t = session[s].task
  PROVE  ReservedOnCreation' /\ HandlersReserve' /\ GoesAhead' /\ ReservedIsOutstanding'
<1> DEFINE Goal == ReservedOnCreation' /\ HandlersReserve' /\ GoesAhead' /\ ReservedIsOutstanding'
<1>1. /\ TypeInv /\ TypeOK /\ StillAsRead(s) /\ AccountsInv
      /\ session[s].next \notin {"absent", "pending_approval"}
      /\ UNCHANGED order /\ t \in Tasks /\ session[s].at # "idle"
      /\ \A o \in Sessions \ {s} : session'[o] = session[o]
  BY ProgressDecides DEF ReservedInvariant, AccountsInv, IsolatedInv, TypeInv, GoesAhead
<1>2. \A o \in Sessions \ {s} : session'[o] = Idle
  BY <1>1, OthersIdle DEF AccountsInv
<1>3. /\ Creator(t) \in Users /\ Owner(t) \in Users /\ Quoted(t) \in Nat
      /\ Creator(t)' = Creator(t) /\ Quoted(t)' = Quoted(t)
  BY <1>1, OrderType DEF Creator, Quoted
<1>4. /\ ~PaysCredits(t) => holds[t] = 0
      /\ PaysCredits(t) => /\ order[t].delegated
                           /\ status[t] # "pending_approval"
                           /\ status[t] # "absent" => holds[t] = 1
  BY <1>1, PlainTask DEF ReservedInvariant, ReservedOnCreation
<1>5. ASSUME Close(s) PROVE HandlersReserve' /\ GoesAhead'
  BY <1>1, <1>2, <1>5, CloseSession, HandlersKeep, IdleType
<1>6. ASSUME UNCHANGED <<status, holds, account>>
      PROVE  ReservedOnCreation' /\ ReservedIsOutstanding'
  <2>1. \A o \in Tasks : Amount(o)' = Amount(o) /\ PaysCredits(o)' = PaysCredits(o)
    BY <1>1, <1>6 DEF Amount, Quoted, PaysCredits
  <2>2. \A u \in Users : Outstanding(u)' = Outstanding(u)
    BY <1>1, <2>1, OutstandingSame
  <2> QED
    BY <1>6, <2>1, <2>2 DEF ReservedInvariant, ReservedOnCreation, ReservedIsOutstanding
<1>7. CASE Reserve(s)
  <2>1. /\ session[s].at = "reserve" /\ session[s].user = Creator(t)
        /\ PaysCredits(t) /\ holds[t] = 0 /\ status[t] = "absent"
    BY <1>1, <1>4, <1>7
    DEF Reserve, ReservedInvariant, HandlersReserve, HandlerReserves, StillAsRead
  <2>2. Loaded(s) = account
    BY <1>1, <2>1, LoadedIsAccount DEF AccountsInv
  <2>3. account' = ReserveCredits(account, account, Creator(t), Quoted(t))
    BY <1>7, <2>1, <2>2 DEF Reserve
  <2>4. /\ UNCHANGED status
        /\ holds'[t] = 1
        /\ \A o \in Tasks \ {t} : holds'[o] = holds[o]
    BY <1>1, <1>7, <2>1 DEF Reserve, TypeOK
  <2>5. Amount(t) = 0 /\ Amount(t)' = Quoted(t)
    BY <1>3, <2>1, <2>4 DEF Amount, Terminal
  <2>6. \A u \in Users : account'[u].reserved = account[u].reserved +
                            IF u = Creator(t) THEN Amount(t)' - Amount(t) ELSE 0
    <3> TAKE u \in Users
    <3>1. account \in [Users -> Account]
      BY <1>1 DEF TypeOK
    <3>2. account'[u].reserved = account[u].reserved + IF u = Creator(t) THEN Quoted(t) ELSE 0
      BY <1>3, <2>3, <3>1, ReserveEffect
    <3> QED
      BY <1>3, <2>5, <3>2
  <2>7. ReservedIsOutstanding'
    BY <1>1, <2>4, <2>6, LedgerFollows
  <2>8. \A o \in Tasks : PaysCredits(o)' = PaysCredits(o)
    BY <1>1 DEF PaysCredits, Quoted
  <2>9. ReservedOnCreation'
    BY <2>1, <2>4, <2>8 DEF ReservedInvariant, ReservedOnCreation
  <2>10. /\ session'[s].at = "insert" /\ session'[s].task = t
         /\ session'[s].next = session[s].next
    BY <1>1, <1>7, <2>1, AdvanceSession DEF Reserve, Points
  <2>11. HandlersReserve' /\ GoesAhead'
    BY <1>1, <1>2, <2>1, <2>4, <2>8, <2>10, IdleType DEF HandlersReserve, HandlerReserves, GoesAhead
  <2> QED
    BY <2>7, <2>9, <2>11
<1>8. CASE ReserveRefused(s) \/ ReceiptRefused(s)
  BY <1>5, <1>6, <1>8 DEF ReserveRefused, ReceiptRefused, table
<1>9. CASE Finish(s)
  BY <1>5, <1>6, <1>9 DEF Finish
<1>10. CASE Flush(s)
  <2>1. session'[s].at = "settle" /\ session'[s].next = session[s].next
    BY <1>1, <1>10, FlushSession
  <2>2. HandlersReserve' /\ GoesAhead'
    BY <1>1, <1>2, <2>1, HandlersKeep
  <2> QED
    BY <1>6, <1>10, <2>2 DEF Flush, table
<1>11. ASSUME Close(s), UNCHANGED <<holds, account>>, status[t] \notin Terminal,
              NEW new, status' = [status EXCEPT ![t] = new], new # "pending_approval",
              PaysCredits(t) => holds[t] = 1 /\ new \notin Terminal
       PROVE  Goal
  <2>1. /\ status'[t] = new
        /\ \A o \in Tasks \ {t} : status'[o] = status[o]
    BY <1>1, <1>11 DEF TypeOK
  <2>2. ReservedOnCreation'
    BY <1>1, <1>11, <2>1, RowsKeep
  <2>3. status'[t] \notin Terminal \/ holds[t] = 0
    BY <1>4, <1>11, <2>1
  <2>4. ReservedIsOutstanding'
    BY <1>1, <1>11, <2>1, <2>3, LedgerKeeps
  <2> QED
    BY <1>5, <1>11, <2>2, <2>4
<1>12. CASE CreateInsert(s)
  <2>1. PaysCredits(t) /\ holds[t] = 1 /\ status[t] = "absent"
    BY <1>1, <1>12
    DEF CreateInsert, ReservedInvariant, HandlersReserve, HandlerReserves, StillAsRead
  <2> QED
    BY <1>11, <1>12, <2>1 DEF CreateInsert, Terminal
<1>13. CASE ConfirmCommit(s)
  <2>1. status[t] = "pending_approval"
    BY <1>1, <1>13 DEF ConfirmCommit, StillAsRead
  <2> QED
    BY <1>4, <1>11, <1>13, <2>1 DEF ConfirmCommit, Terminal
<1>14. CASE ReceiptCommit(s)
  <2>1. status[t] = "pending_payment"
    BY <1>1, <1>14 DEF ReceiptCommit, StillAsRead
  <2> QED
    BY <1>4, <1>11, <1>14, <2>1 DEF ReceiptCommit, Terminal
<1>15. CASE StatusCommit(s)
  <2>1. Live(t) /\ ~Settles(s) /\ status' = [status EXCEPT ![t] = session[s].next]
    BY <1>1, <1>15 DEF StatusCommit, StillAsRead
  <2>2. PaysCredits(t) => holds[t] = 1 /\ session[s].next \notin Terminal
    BY <1>4, <2>1 DEF Settles, Terminal, Live
  <2> QED
    BY <1>1, <1>11, <1>15, <2>1, <2>2 DEF StatusCommit, Live
\* The two steps that settle.
<1>16. ASSUME session[s].at = "settle", UNCHANGED holds, NEW new \in Terminal,
              status' = [status EXCEPT ![t] = new],
              \A u \in Users : account'[u].reserved =
                                 account[u].reserved - IF u = Creator(t) THEN Quoted(t) ELSE 0
       PROVE  ReservedOnCreation' /\ ReservedIsOutstanding'
  <2>1. Live(t) /\ PaysCredits(t) /\ holds[t] = 1
    BY <1>1, <1>4, <1>16 DEF StillAsRead, Live
  <2>2. /\ status'[t] = new
        /\ \A o \in Tasks \ {t} : status'[o] = status[o]
    BY <1>1, <1>16 DEF TypeOK
  <2>3. Amount(t) = Quoted(t) /\ Amount(t)' = 0
    BY <1>3, <1>16, <2>1, <2>2 DEF Amount, Live
  <2>4. ASSUME NEW u \in Users
        PROVE  account'[u].reserved = account[u].reserved +
                 IF u = Creator(t) THEN Amount(t)' - Amount(t) ELSE 0
    <3>1. account[u].reserved \in Int
      BY <1>1 DEF TypeOK, Account
    <3> QED
      BY <1>3, <1>16, <2>3, <3>1
  <2>5. ReservedIsOutstanding'
    BY <1>1, <1>16, <2>2, <2>4, LedgerFollows
  <2>6. ReservedOnCreation'
    BY <1>1, <1>16, <2>1, <2>2, RowsKeep DEF Terminal
  <2> QED
    BY <2>5, <2>6
<1>17. CASE ChargeCommit(s)
  <2>1. Loaded(s) = account
    BY <1>1, <1>17, LoadedIsAccount DEF AccountsInv, ChargeCommit
  <2>2. account' = ChargeCredits(account, account, Creator(t), Owner(t), Quoted(t))
    BY <1>17, <2>1 DEF ChargeCommit
  <2>3. \A u \in Users : account'[u].reserved =
                           account[u].reserved - IF u = Creator(t) THEN Quoted(t) ELSE 0
    <3> TAKE u \in Users
    <3>1. account \in [Users -> Account]
      BY <1>1 DEF TypeOK
    <3> QED
      BY <1>3, <2>2, <3>1, ChargeEffect
  <2>4. ReservedOnCreation' /\ ReservedIsOutstanding'
    BY <1>16, <1>17, <2>3 DEF ChargeCommit, Terminal
  <2>5. session'[s].at = "finish" /\ session'[s].next = session[s].next
    BY <1>1, <1>17, AdvanceSession DEF ChargeCommit, Points
  <2>6. HandlersReserve' /\ GoesAhead'
    BY <1>1, <1>2, <2>5, HandlersKeep
  <2> QED
    BY <2>4, <2>6
<1>18. CASE ReleaseCommit(s)
  <2>1. Loaded(s) = account /\ session[s].at = "settle"
    BY <1>1, <1>18, LoadedIsAccount DEF AccountsInv, ReleaseCommit
  <2>2. account' = ReleaseCredits(account, account, Creator(t), Quoted(t))
    BY <1>18, <2>1 DEF ReleaseCommit
  <2>3. Quoted(t) <= account[Creator(t)].reserved
    BY <2>1, SettledIsReserved
  <2>4. \A u \in Users : account'[u].reserved =
                           account[u].reserved - IF u = Creator(t) THEN Quoted(t) ELSE 0
    BY <1>1, <1>3, <2>2, <2>3, ReleaseEffect DEF TypeOK
  <2>5. ReservedOnCreation' /\ ReservedIsOutstanding'
    BY <1>16, <1>18, <2>4 DEF ReleaseCommit, Terminal
  <2> QED
    BY <1>5, <1>18, <2>5 DEF ReleaseCommit
<1> QED
  BY <1>7, <1>8, <1>9, <1>10, <1>12, <1>13, <1>14, <1>15, <1>17, <1>18 DEF Progress

LEMMA ReservedInvRequest ==
  ASSUME "pending_approval" \notin CallbackStatuses, ReservedInvariant,
         NEW s \in Sessions, NEW t \in Tasks, Request(s, t)
  PROVE  ReservedOnCreation' /\ HandlersReserve' /\ GoesAhead' /\ ReservedIsOutstanding'
<1>1. TypeInv /\ TypeOK
  BY DEF ReservedInvariant, AccountsInv, IsolatedInv, TypeInv
<1>2. UNCHANGED <<order, status, holds, account>>
  BY <1>1, RequestOpens DEF table
<1>3. PICK x \in Session :
        /\ session' = [session EXCEPT ![s] = x]
        /\ x.task = t
        /\ x.at \in {"reserve", "submit", "receipt", "write"}
        /\ x.at = "reserve" =>
             /\ PaysCredits(t)
             /\ \/ status[t] = "absent" /\ holds[t] = 0 /\ x.user = Creator(t)
                \/ status[t] = "pending_approval"
        /\ Ahead(t, x.next)
  BY <1>1, RequestOpens DEF Opens
<1>4. session'[s] = x /\ \A o \in Sessions \ {s} : session'[o] = session[o]
  BY <1>1, <1>3 DEF TypeOK
<1>5. GoesAhead'
  BY <1>3, <1>4 DEF ReservedInvariant, GoesAhead, Ahead
<1>6. \A o \in Tasks : /\ Amount(o)' = Amount(o)
                       /\ PaysCredits(o)' = PaysCredits(o)
                       /\ Creator(o)' = Creator(o)
  BY <1>2 DEF Amount, Quoted, PaysCredits, Creator
<1>7. \A u \in Users : Outstanding(u)' = Outstanding(u)
  BY <1>2, <1>6, OutstandingSame
<1>8. ReservedOnCreation' /\ ReservedIsOutstanding'
  BY <1>2, <1>6, <1>7 DEF ReservedInvariant, ReservedOnCreation, ReservedIsOutstanding
<1>9. HandlersReserve'
  <2>1. ASSUME NEW o \in Sessions \ {s} PROVE HandlerReserves(o)'
    BY <1>2, <1>4
    DEF ReservedInvariant, HandlersReserve, HandlerReserves, PaysCredits, Quoted, Creator
  <2>2. x.at # "insert" /\ x.at = "reserve" => holds[t] = 0 /\ x.user = Creator(t) /\ PaysCredits(t)
    BY <1>3 DEF ReservedInvariant, ReservedOnCreation
  <2>3. HandlerReserves(s)'
    BY <1>2, <1>3, <1>4, <2>2 DEF HandlerReserves, PaysCredits, Quoted, Creator
  <2> QED
    BY <2>1, <2>3 DEF HandlersReserve
<1> QED
  BY <1>5, <1>8, <1>9

LEMMA ReservedInvBackground ==
  ASSUME PlainOrders, ReservedInvariant, NEW t \in Tasks, Background(t)
  PROVE  ReservedOnCreation' /\ HandlersReserve' /\ GoesAhead' /\ ReservedIsOutstanding'
<1>1. TypeOK
  BY DEF ReservedInvariant, AccountsInv, IsolatedInv, TypeInv
<1>2. UNCHANGED <<order, session, holds, account>>
  BY DEF Background, CreateUnreserved, GraceCheck, Send, AgentNoResult,
         StreamOpen, StreamEnd, table
<1>3. HandlersReserve' /\ GoesAhead'
  BY <1>2
  DEF ReservedInvariant, HandlersReserve, HandlerReserves, GoesAhead, PaysCredits,
      Quoted, Creator
<1>4. CASE CreateUnreserved(t)
  <2>1. PICK new \in {"pending_approval", "pending_payment", "submitted"} :
          status' = [status EXCEPT ![t] = new]
    BY <1>4 DEF CreateUnreserved
  <2>2. status[t] = "absent" /\ holds[t] = 0
    BY <1>4 DEF CreateUnreserved, Unused
  <2>3. /\ status'[t] = new
        /\ \A o \in Tasks \ {t} : status'[o] = status[o]
    BY <1>1, <2>1 DEF TypeOK
  <2>4. ~PaysCredits(t)
    BY <1>1, <1>4, PlainTask DEF CreateUnreserved, PaysCredits
  <2>5. ReservedOnCreation'
    <3>1. \A o \in Tasks : PaysCredits(o)' = PaysCredits(o)
      BY <1>2 DEF PaysCredits, Quoted
    <3> QED
      BY <1>2, <2>3, <2>4, <3>1 DEF ReservedInvariant, ReservedOnCreation
  <2>6. ReservedIsOutstanding'
    BY <1>2, <2>2, <2>3, LedgerKeeps DEF Terminal
  <2> QED
    BY <1>3, <2>5, <2>6
<1>5. CASE ~CreateUnreserved(t)
  <2>1. UNCHANGED status
    BY <1>5 DEF Background, GraceCheck, Send, AgentNoResult, StreamOpen,
               StreamEnd, table
  <2>2. \A o \in Tasks : Amount(o)' = Amount(o) /\ PaysCredits(o)' = PaysCredits(o)
    BY <1>2, <2>1 DEF Amount, Quoted, PaysCredits
  <2>3. \A u \in Users : Outstanding(u)' = Outstanding(u)
    BY <1>2, <2>2, OutstandingSame
  <2> QED
    BY <1>2, <1>3, <2>1, <2>2, <2>3
    DEF ReservedInvariant, ReservedOnCreation, ReservedIsOutstanding
<1> QED
  BY <1>4, <1>5

LEMMA ReservedInvStep ==
  ASSUME Isolation = "request", IsFiniteSet(Tasks), PlainOrders,
         "pending_approval" \notin CallbackStatuses, ReservedInvariant, [Next]_vars
  PROVE  ReservedInvariant'
<1> DEFINE Goal == ReservedOnCreation' /\ HandlersReserve' /\ GoesAhead' /\ ReservedIsOutstanding'
<1>1. TypeInv /\ AccountsInv /\ AccountsInv' /\ TypeOK'
  BY AccountsStep, TypeStep DEF ReservedInvariant, AccountsInv, IsolatedInv, TypeInv
<1>2. ASSUME NEW s \in Sessions, Progress(s)
      PROVE  Goal
  <2>1. session[s].task \in Tasks
    BY <1>1, <1>2, ProgressDecides DEF AccountsInv
  <2>2. PICK t \in Tasks : t = session[s].task
    BY <2>1
  <2> QED
    BY <1>1, <1>2, <2>2, ReservedInvProgress
<1>3. ASSUME NEW s \in Sessions, NEW t \in Tasks, Request(s, t)
      PROVE  Goal
  BY <1>3, ReservedInvRequest
<1>4. ASSUME NEW t \in Tasks, Background(t)
      PROVE  Goal
  BY <1>4, ReservedInvBackground
<1>5. ASSUME Crash \/ UNCHANGED vars
      PROVE  Goal
  <2>1. UNCHANGED <<order, status, holds, account>>
    BY <1>5 DEF Crash, vars, table
  <2>2. \A o \in Tasks : Amount(o)' = Amount(o) /\ PaysCredits(o)' = PaysCredits(o)
    BY <2>1 DEF Amount, Quoted, PaysCredits
  <2>3. \A u \in Users : Outstanding(u)' = Outstanding(u)
    BY <2>1, <2>2, OutstandingSame
  <2>4. \A s \in Sessions : session'[s] = session[s] \/ session'[s] = Idle
    BY <1>5 DEF Crash, vars
  <2>5. HandlersReserve' /\ GoesAhead'
    BY <2>1, <2>4, IdleType
    DEF ReservedInvariant, HandlersReserve, HandlerReserves, GoesAhead, PaysCredits, Quoted, Creator
  <2> QED
    BY <2>1, <2>2, <2>3, <2>5
    DEF ReservedInvariant, ReservedOnCreation, ReservedIsOutstanding
<1>6. Goal
  BY <1>2, <1>3, <1>4, <1>5 DEF Next
<1> QED
  BY <1>1, <1>6 DEF ReservedInvariant

LEMMA ReservedAlways ==
  ASSUME Isolation = "request", IsFiniteSet(Tasks), PlainOrders,
         "pending_approval" \notin CallbackStatuses
  PROVE  Spec => []ReservedInvariant
<1>1. Init => ReservedInvariant
  BY ReservedInvInit
<1>2. ReservedInvariant /\ [Next]_vars => ReservedInvariant'
  BY ReservedInvStep
<1> QED
  BY <1>1, <1>2, PTL DEF Spec

\* What an account has reserved is what the open tasks of its user have set
\* aside: charging and releasing each take back exactly what the reservation
\* put in, for any prices and however many tasks one user has, also when the
\* process stops between a reservation and its row.
THEOREM ReservedIsWhatTasksHold ==
  ASSUME Isolation = "request", IsFiniteSet(Tasks), PlainOrders,
         "pending_approval" \notin CallbackStatuses
  PROVE  Spec => []ReservedIsOutstanding
<1>1. Spec => []ReservedInvariant
  BY ReservedAlways
<1> QED
  BY <1>1, PTL DEF ReservedInvariant

-----------------------------------------------------------------------------
(* No account promises more than it has.                                   *)

Covered == \A u \in Users : account[u].reserved <= account[u].balance

LEMMA FeeIsPart ==
  ASSUME NEW amount \in Nat PROVE Fee(amount) \in Nat /\ Fee(amount) <= amount
  BY DEF Fee

\* Charging takes the amount out of the reservation, and no more than that out
\* of the balance.
LEMMA ChargeKeepsCovered ==
  ASSUME NEW a \in [Users -> Account], NEW c \in Users, NEW p \in Users,
         NEW amount \in Nat, NEW v \in Users, a[v].reserved <= a[v].balance
  PROVE  ChargeCredits(a, a, c, p, amount)[v].reserved
           <= ChargeCredits(a, a, c, p, amount)[v].balance
<1> DEFINE new == ChargeCredits(a, a, c, p, amount)[v]
<1>1. /\ new.balance = a[v].balance - (IF v = c THEN amount ELSE 0)
                                    + (IF v = p THEN amount - Fee(amount) ELSE 0)
      /\ new.reserved = a[v].reserved - IF v = c THEN amount ELSE 0
  BY ChargeEffect
<1>2. Fee(amount) \in Nat /\ Fee(amount) <= amount
  BY FeeIsPart
<1>3. a[v].reserved \in Int /\ a[v].balance \in Int
  BY DEF Account
<1> HIDE DEF new
<1>4. new.reserved <= new.balance
  BY <1>1, <1>2, <1>3
<1> QED
  BY <1>4 DEF new

LEMMA CoveredStep ==
  ASSUME IsFiniteSet(Tasks), ReservedInvariant, Covered, [Next]_vars
  PROVE  Covered'
<1>1. TypeInv /\ account \in [Users -> Account] /\ AccountsInv
  BY DEF ReservedInvariant, AccountsInv, IsolatedInv, TypeInv, TypeOK
<1>2. CASE UNCHANGED account
  BY <1>2 DEF Covered
<1>3. ASSUME NEW s \in Sessions, Reserve(s)
      PROVE  Covered'
  <2>1. /\ session[s].user \in Users /\ session[s].task \in Tasks
        /\ session[s].at = "reserve"
    BY <1>1, <1>3 DEF Reserve, TypeInv, BusyOnTask
  <2>2. Loaded(s) = account /\ Quoted(session[s].task) \in Nat
    BY <1>1, <2>1, LoadedIsAccount, OrderType DEF AccountsInv, TypeInv
  <2>3. PICK u \in Users, amount \in Nat :
          u = session[s].user /\ amount = Quoted(session[s].task)
    BY <2>1, <2>2
  <2>4. account' = ReserveCredits(account, account, u, amount)
    BY <1>3, <2>2, <2>3 DEF Reserve
  <2>5. account[u].balance - account[u].reserved >= amount
    <3>1. View(s, u) = account[u]
      BY <2>2 DEF Loaded
    <3> QED
      BY <1>3, <2>3, <3>1 DEF Reserve, Available
  <2>6. ASSUME NEW v \in Users PROVE account'[v].reserved <= account'[v].balance
    <3>1. /\ account'[v].balance = account[v].balance
          /\ account'[v].reserved = account[v].reserved + IF v = u THEN amount ELSE 0
      BY <1>1, <2>4, ReserveEffect
    <3>2. account[v].balance \in Int /\ account[v].reserved \in Int
      BY <1>1 DEF Account
    <3>3. account[v].reserved <= account[v].balance
      BY DEF Covered
    <3> QED
      BY <2>5, <3>1, <3>2, <3>3
  <2> QED
    BY <2>6 DEF Covered
<1>4. ASSUME NEW s \in Sessions, ReleaseCommit(s)
      PROVE  Covered'
  <2>1. session[s].task \in Tasks /\ session[s].at = "settle"
    BY <1>1, <1>4 DEF ReleaseCommit, TypeInv, BusyOnTask
  <2>2. PICK t \in Tasks : t = session[s].task
    BY <2>1
  <2>3. Loaded(s) = account /\ Creator(t) \in Users /\ Quoted(t) \in Nat
    BY <1>1, <2>1, LoadedIsAccount, OrderType DEF AccountsInv, TypeInv
  <2>4. account' = ReleaseCredits(account, account, Creator(t), Quoted(t))
    BY <1>4, <2>2, <2>3 DEF ReleaseCommit
  <2>5. Quoted(t) <= account[Creator(t)].reserved
    BY <1>1, <2>1, <2>2, <2>3, SettledIsReserved DEF TypeInv
  <2>6. ASSUME NEW v \in Users PROVE account'[v].reserved <= account'[v].balance
    <3>1. /\ account'[v].balance = account[v].balance
          /\ account'[v].reserved = account[v].reserved - IF v = Creator(t) THEN Quoted(t) ELSE 0
      BY <1>1, <2>3, <2>4, <2>5, ReleaseEffect
    <3>2. account[v].balance \in Int /\ account[v].reserved \in Int
      BY <1>1 DEF Account
    <3>3. account[v].reserved <= account[v].balance
      BY DEF Covered
    <3> QED
      BY <2>3, <3>1, <3>2, <3>3
  <2> QED
    BY <2>6 DEF Covered
<1>5. ASSUME NEW s \in Sessions, ChargeCommit(s)
      PROVE  Covered'
  <2>1. session[s].task \in Tasks /\ session[s].at = "settle"
    BY <1>1, <1>5 DEF ChargeCommit, TypeInv, BusyOnTask
  <2>2. PICK t \in Tasks : t = session[s].task
    BY <2>1
  <2>3. /\ Loaded(s) = account
        /\ Creator(t) \in Users /\ Owner(t) \in Users /\ Quoted(t) \in Nat
    BY <1>1, <2>1, LoadedIsAccount, OrderType DEF AccountsInv, TypeInv
  <2>4. account' = ChargeCredits(account, account, Creator(t), Owner(t), Quoted(t))
    BY <1>5, <2>2, <2>3 DEF ChargeCommit
  <2> QED
    BY <1>1, <2>3, <2>4, ChargeKeepsCovered DEF Covered
<1> QED
  BY <1>1, <1>2, <1>3, <1>4, <1>5, AccountWriters

\* The balance of an account covers all that its tasks have set aside, also when
\* tasks are charged and released, as long as no two handlers overlap.
THEOREM SettledOutstandingIsCovered ==
  ASSUME Isolation = "request", IsFiniteSet(Tasks), PlainOrders,
         "pending_approval" \notin CallbackStatuses, InitialCredits >= 0
  PROVE  Spec => []OutstandingIsCovered
<1>1. Init => ReservedInvariant /\ Covered
  BY ReservedInvInit DEF Init, Covered
<1>2. (ReservedInvariant /\ Covered) /\ [Next]_vars => (ReservedInvariant /\ Covered)'
  BY ReservedInvStep, CoveredStep
<1>3. ReservedInvariant /\ Covered => OutstandingIsCovered
  BY DEF ReservedInvariant, Covered, ReservedIsOutstanding, OutstandingIsCovered
<1> QED
  BY <1>1, <1>2, <1>3, PTL DEF Spec

-----------------------------------------------------------------------------
(* Reservations while nothing is settled: the handlers that create, cancel *)
(* and report overlap as they like, and no task is completed or fails.     *)
(* The stale balance a settlement writes over another one's does break     *)
(* what follows.                                                           *)

\* The orders are those of clients who hire the agents of others, in person,
\* below the approval threshold.
PersonalOrders ==
  \A o \in Orders :
    o.method = "credits" /\ o.quoted > 0
      => ~o.delegated /\ o.owner # o.creator /\ o.quoted <= ApprovalThreshold

\* The agents acknowledge and go on working.
AgentsGoOn ==
  /\ AgentReplies \subseteq {"ack"}
  /\ CallbackStatuses \cap {"completed", "failed", "pending_approval"} = {}
  /\ MaxStreams = 0

\* What has ever been reserved for a task, and for the tasks of a user.
Reservations(t) == holds[t] * Quoted(t)
Promised(u) ==
  SumFunctionOnSet([t \in Tasks |-> IF Creator(t) = u THEN Reservations(t) ELSE 0], Tasks)

\* A handler that is going to reserve has not read the account it reserves from.
Unread(s) ==
  session[s].at = "reserve" =>
    /\ session[s].user = Creator(session[s].task)
    /\ session[s].user \notin session[s].held

\* No handler is going to decide its task, or to take it back.
GoesOn(s) ==
  session[s].at # "idle" =>
    /\ session[s].at \notin {"settle", "finish"}
    /\ session[s].next \notin {"absent", "pending_approval", "completed", "failed"}

PromiseInv ==
  /\ TypeInv
  /\ \A t \in Tasks : /\ PaysCredits(t) => status[t] # "pending_approval"
                      /\ streams[t] = 0
  /\ \A s \in Sessions : Unread(s) /\ GoesOn(s)
  /\ \A u \in Users : account[u].reserved = Promised(u)
  /\ Covered

LEMMA PersonalTask ==
  ASSUME PersonalOrders, TypeOK, NEW t \in Tasks, PaysCredits(t)
  PROVE  ~order[t].delegated /\ Owner(t) # Creator(t) /\ ~HighCost(t)
<1>1. order[t] \in Orders /\ Quoted(t) \in Nat
  BY OrderType DEF TypeOK
<1>2. ~order[t].delegated /\ Owner(t) # Creator(t) /\ Quoted(t) <= ApprovalThreshold
  BY <1>1 DEF PersonalOrders, PaysCredits, Quoted, Owner, Creator
<1> QED
  BY <1>1, <1>2, CreditsAssumption DEF HighCost

LEMMA PromiseInit ==
  ASSUME IsFiniteSet(Tasks), InitialCredits >= 0, Init PROVE PromiseInv
<1>1. TypeInv /\ TypeOK
  BY TypeInit DEF TypeInv
<1>2. ASSUME NEW u \in Users PROVE Promised(u) = 0
  <2> DEFINE g == [t \in Tasks |-> IF Creator(t) = u THEN Reservations(t) ELSE 0]
  <2>1. \A t \in Tasks : g[t] = 0
    BY <1>1, OrderType DEF Init, Reservations
  <2> HIDE DEF g
  <2>2. SumFunctionOnSet(g, Tasks) = 0
    BY <2>1, SumOfZeros
  <2> QED
    BY <2>2 DEF Promised, g
<1>3. \A s \in Sessions : Unread(s) /\ GoesOn(s)
  BY IdleType DEF Init, Unread, GoesOn
<1> QED
  BY <1>1, <1>2, <1>3 DEF Init, PromiseInv, Covered

\* One reservation more for a task is its price more for its creator.
LEMMA PromiseGrows ==
  ASSUME IsFiniteSet(Tasks), TypeOK, UNCHANGED order, NEW t \in Tasks,
         holds' = [holds EXCEPT ![t] = @ + 1], NEW u
  PROVE  Promised(u)' = Promised(u) + IF Creator(t) = u THEN Quoted(t) ELSE 0
<1> DEFINE g == [o \in Tasks |-> IF Creator(o) = u THEN Reservations(o) ELSE 0]
           h == [o \in Tasks |-> IF Creator(o)' = u THEN Reservations(o)' ELSE 0]
<1>1. ASSUME NEW o \in Tasks
      PROVE  /\ Creator(o)' = Creator(o) /\ Quoted(o)' = Quoted(o)
             /\ holds[o] \in Nat /\ Quoted(o) \in Nat
             /\ Reservations(o) \in Int
             /\ Reservations(o)' = Reservations(o) + IF o = t THEN Quoted(t) ELSE 0
  <2>1. /\ Creator(o)' = Creator(o) /\ Quoted(o)' = Quoted(o)
        /\ holds[o] \in Nat /\ Quoted(o) \in Nat
    BY OrderType DEF TypeOK, Creator, Quoted
  <2>2. holds[o] * Quoted(o) \in Int /\ (holds[o] + 1) * Quoted(o) = holds[o] * Quoted(o) + Quoted(o)
    BY <2>1
  <2>3. holds'[o] = IF o = t THEN holds[o] + 1 ELSE holds[o]
    BY DEF TypeOK
  <2>4. CASE o = t
    BY <2>1, <2>2, <2>3, <2>4 DEF Reservations
  <2>5. CASE o # t
    BY <2>1, <2>2, <2>3, <2>5 DEF Reservations
  <2> QED
    BY <2>1, <2>2, <2>4, <2>5 DEF Reservations
<1>2. /\ \A o \in Tasks : g[o] \in Int
      /\ \A o \in Tasks : o # t => h[o] = g[o]
      /\ h[t] \in Int /\ Quoted(t) \in Int
      /\ h[t] = g[t] + IF Creator(t) = u THEN Quoted(t) ELSE 0
  BY <1>1
<1>3. Promised(u) = SumFunctionOnSet(g, Tasks) /\ Promised(u)' = SumFunctionOnSet(h, Tasks)
  BY DEF Promised
<1>4. PICK before, after : before = g /\ after = h
  OBVIOUS
<1>5. /\ SumFunctionOnSet(after, Tasks) = SumFunctionOnSet(before, Tasks) - before[t] + after[t]
      /\ SumFunctionOnSet(before, Tasks) \in Int
  <2>1. /\ \A o \in Tasks : before[o] \in Int
        /\ after[t] \in Int
        /\ \A o \in Tasks : o # t => after[o] = before[o]
    BY <1>2, <1>4
  <2> HIDE DEF g, h
  <2>2. SumFunctionOnSet(after, Tasks) = SumFunctionOnSet(before, Tasks) - before[t] + after[t]
    BY ONLY <2>1, IsFiniteSet(Tasks), t \in Tasks, SumChange
  <2>3. SumFunctionOnSet(before, Tasks) \in Int
    BY <2>1, SumWithout
  <2> QED
    BY <2>2, <2>3
<1> HIDE DEF g, h
<1> QED
  BY <1>2, <1>3, <1>4, <1>5

LEMMA PromiseSame ==
  ASSUME UNCHANGED <<order, holds>>, NEW u
  PROVE  Promised(u)' = Promised(u)
  BY DEF Promised, Reservations, Creator, Quoted

\* A session that goes on as it was, or ends, is as the invariant wants it.
LEMMA SessionsGoOn ==
  ASSUME PromiseInv, UNCHANGED order,
         \A o \in Sessions : session'[o] = session[o] \/ session'[o] = Idle
  PROVE  \A o \in Sessions : (Unread(o) /\ GoesOn(o))'
  BY IdleType DEF PromiseInv, Unread, GoesOn, Creator

LEMMA PromiseProgress ==
  ASSUME IsFiniteSet(Tasks), PersonalOrders, PromiseInv,
         NEW s \in Sessions, Progress(s), NEW t \in Tasks, t = session[s].task
  PROVE  /\ \A o \in Tasks : /\ PaysCredits(o)' => status'[o] # "pending_approval"
                             /\ streams'[o] = 0
         /\ \A o \in Sessions : (Unread(o) /\ GoesOn(o))'
         /\ \A u \in Users : account'[u].reserved = Promised(u)'
         /\ Covered'
<1> DEFINE Rows == \A o \in Tasks : /\ PaysCredits(o)' => status'[o] # "pending_approval"
                                    /\ streams'[o] = 0
           Others == \A o \in Sessions : (Unread(o) /\ GoesOn(o))'
           Ledger == (\A u \in Users : account'[u].reserved = Promised(u)') /\ Covered'
<1>1. TypeInv /\ TypeOK /\ Unread(s) /\ GoesOn(s)
  BY DEF PromiseInv, TypeInv
<1>2. UNCHANGED <<order, streams>> /\ \A o \in Tasks : PaysCredits(o)' = PaysCredits(o)
  BY DEF Progress, Reserve, ReserveRefused, CreateInsert, ConfirmCommit,
         ReceiptCommit, ReceiptRefused, Flush, StatusCommit, ChargeCommit,
         ReleaseCommit, Finish, background, PaysCredits, Quoted
<1>3. ASSUME Close(s) PROVE Others
  <2>1. \A o \in Sessions : session'[o] = session[o] \/ session'[o] = Idle
    BY <1>1, <1>3, CloseSession
  <2> QED
    BY <1>2, <2>1, SessionsGoOn
<1>4. ASSUME UNCHANGED <<account, holds>> PROVE Ledger
  <2>1. \A u \in Users : Promised(u)' = Promised(u)
    BY <1>2, <1>4, PromiseSame
  <2> QED
    BY <1>4, <2>1 DEF PromiseInv, Covered
<1>5. ASSUME NEW new, new # "pending_approval", status' = [status EXCEPT ![t] = new]
      PROVE  Rows
  BY <1>1, <1>2, <1>5 DEF PromiseInv, TypeOK
<1>6. ASSUME UNCHANGED status PROVE Rows
  BY <1>2, <1>6 DEF PromiseInv
<1>7. CASE Reserve(s)
  <2> DEFINE q == Quoted(t)
             c == Creator(t)
  <2>1. /\ session[s].at = "reserve" /\ session[s].user = c
        /\ c \notin session[s].held
    BY <1>1, <1>7 DEF Reserve, Unread
  <2>2. c \in Users /\ q \in Nat /\ account \in [Users -> Account]
    BY <1>1, OrderType DEF TypeOK
  <2>3. View(s, c) = account[c] /\ Loaded(s)[c] = account[c]
    BY <2>1, <2>2 DEF View, Loaded
  <2>4. account' = ReserveCredits(account, Loaded(s), c, q) /\ Available(account[c]) >= q
    BY <1>7, <2>1, <2>3 DEF Reserve
  <2> HIDE DEF q, c
  <2>5. ASSUME NEW u \in Users
        PROVE  /\ account'[u].balance = account[u].balance
               /\ account'[u].reserved = account[u].reserved + IF u = c THEN q ELSE 0
    BY <2>2, <2>3, <2>4 DEF ReserveCredits, SetReserved, Column, Account
  <2>6. ASSUME NEW u \in Users
        PROVE  account'[u].reserved = Promised(u)' /\ account'[u].reserved <= account'[u].balance
    <3>1. Promised(u)' = Promised(u) + IF c = u THEN q ELSE 0
      BY <1>1, <1>2, <1>7, PromiseGrows DEF Reserve, q, c
    <3>2. account[u].reserved = Promised(u) /\ account[u].reserved <= account[u].balance
      BY DEF PromiseInv, Covered
    <3>3. account[u].balance \in Int /\ account[u].reserved \in Int
      BY <2>2 DEF Account
    <3> QED
      BY <2>2, <2>4, <2>5, <3>1, <3>2, <3>3 DEF Available
  <2>7. Ledger
    BY <2>6 DEF Covered
  <2>8. /\ session'[s].at \in {"insert", "submit"}
        /\ session'[s].next = session[s].next
        /\ \A o \in Sessions \ {s} : session'[o] = session[o]
    BY <1>1, <1>7, AdvanceSession DEF Reserve, Points
  <2>9. Others
    BY <1>1, <1>2, <2>1, <2>8 DEF PromiseInv, Unread, GoesOn, Creator
  <2> QED
    BY <1>6, <1>7, <2>7, <2>9 DEF Reserve
<1>8. CASE ReserveRefused(s) \/ ReceiptRefused(s)
  BY <1>3, <1>4, <1>6, <1>8 DEF ReserveRefused, ReceiptRefused, table
<1>9. CASE CreateInsert(s)
  BY <1>3, <1>4, <1>5, <1>9 DEF CreateInsert
<1>10. CASE ConfirmCommit(s)
  BY <1>3, <1>4, <1>5, <1>10 DEF ConfirmCommit
<1>11. CASE ReceiptCommit(s)
  BY <1>3, <1>4, <1>5, <1>11 DEF ReceiptCommit
<1>12. CASE StatusCommit(s)
  <2>1. session[s].next # "pending_approval"
    BY <1>1, <1>12 DEF StatusCommit, GoesOn
  <2> QED
    BY <1>3, <1>4, <1>5, <1>12, <2>1 DEF StatusCommit
<1>13. ~Flush(s)
  <2>1. PaysCredits(t) => ~order[t].delegated
    BY <1>1, PersonalTask
  <2> QED
    BY <1>1, <2>1 DEF Flush, Settles, GoesOn
<1>14. ~ChargeCommit(s) /\ ~ReleaseCommit(s) /\ ~Finish(s)
  BY <1>1 DEF ChargeCommit, ReleaseCommit, Finish, GoesOn
<1> QED
  BY <1>7, <1>8, <1>9, <1>10, <1>11, <1>12, <1>13, <1>14 DEF Progress

LEMMA PromiseStep ==
  ASSUME IsFiniteSet(Tasks), PersonalOrders, AgentsGoOn, PromiseInv, [Next]_vars
  PROVE  PromiseInv'
<1> DEFINE Goal == /\ \A o \in Tasks : /\ PaysCredits(o)' => status'[o] # "pending_approval"
                                       /\ streams'[o] = 0
                   /\ \A o \in Sessions : (Unread(o) /\ GoesOn(o))'
                   /\ \A u \in Users : account'[u].reserved = Promised(u)'
                   /\ Covered'
<1>1. TypeInv /\ TypeOK /\ TypeInv'
  BY TypeStep DEF PromiseInv, TypeInv
<1>2. ASSUME NEW s \in Sessions, Progress(s)
      PROVE  Goal
  <2>1. session[s].at # "idle"
    BY <1>2 DEF Progress, Reserve, ReserveRefused, CreateInsert, ConfirmCommit,
         ReceiptCommit, ReceiptRefused, Flush, StatusCommit, ChargeCommit,
         ReleaseCommit, Finish
  <2>2. PICK t \in Tasks : t = session[s].task
    BY <1>1, <2>1 DEF TypeInv, BusyOnTask
  <2> QED
    BY <1>2, <2>2, PromiseProgress
\* The other steps leave the ledger alone, and open a session at most.
<1>3. ASSUME UNCHANGED <<order, holds, account>>,
             \A o \in Tasks : PaysCredits(o) => status'[o] # "pending_approval",
             \A o \in Tasks : streams'[o] = 0,
             \A o \in Sessions : (Unread(o) /\ GoesOn(o))'
      PROVE  Goal
  <2>1. \A u \in Users : Promised(u)' = Promised(u)
    BY <1>3, PromiseSame
  <2>2. \A o \in Tasks : PaysCredits(o)' = PaysCredits(o)
    BY <1>3 DEF PaysCredits, Quoted
  <2> QED
    BY <1>3, <2>1, <2>2 DEF PromiseInv, Covered
<1>4. ASSUME NEW s \in Sessions, NEW t \in Tasks, Request(s, t)
      PROVE  Goal
  <2>1. UNCHANGED <<order, status, holds, account>>
    BY <1>1, <1>4, RequestOpens DEF table
  <2>2. \A o \in Tasks : streams'[o] = 0
    BY <1>1, <1>4
    DEF PromiseInv, Request, CreateBegin, ConfirmLoad, ReceiptLoad, CancelLoad,
        MessageLoad, WebhookLoad, AgentResult, StreamResult, background
  <2>3. PICK x \in Session :
          /\ session' = [session EXCEPT ![s] = x]
          /\ x.task = t
          /\ x.at \in {"reserve", "submit", "receipt", "write"}
          /\ x.at = "reserve" =>
               /\ PaysCredits(t)
               /\ \/ /\ status[t] = "absent" /\ holds[t] = 0
                     /\ x.user = Creator(t) /\ x.held = {Owner(t)}
                  \/ status[t] = "pending_approval"
          /\ Ahead(t, x.next)
    BY <1>1, <1>4, RequestOpens DEF Opens
  <2>4. session'[s] = x /\ \A o \in Sessions \ {s} : session'[o] = session[o]
    BY <1>1, <2>3 DEF TypeOK
  <2>5. GoesOn(s)'
    BY <2>3, <2>4 DEF GoesOn, Ahead, AgentsGoOn, PromiseInv
  <2>6. Unread(s)'
    <3>1. x.at = "reserve" => x.user = Creator(t) /\ x.user \notin x.held
      BY <1>1, <2>3, PersonalTask DEF PromiseInv
    <3> QED
      BY <2>1, <2>3, <2>4, <3>1 DEF Unread, Creator
  <2>7. \A o \in Sessions \ {s} : (Unread(o) /\ GoesOn(o))'
    BY <2>1, <2>4 DEF PromiseInv, Unread, GoesOn, Creator
  <2>8. \A o \in Tasks : PaysCredits(o) => status'[o] # "pending_approval"
    BY <2>1 DEF PromiseInv
  <2> QED
    BY <1>3, <2>1, <2>2, <2>5, <2>6, <2>7, <2>8
<1>5. ASSUME NEW t \in Tasks, Background(t)
      PROVE  Goal
  <2>1. UNCHANGED <<order, session, holds, account>>
    BY <1>5 DEF Background, CreateUnreserved, GraceCheck, Send, AgentNoResult,
               StreamOpen, StreamEnd, table
  <2>2. \A o \in Sessions : (Unread(o) /\ GoesOn(o))'
    BY <2>1, SessionsGoOn
  <2>3. \A o \in Tasks : streams'[o] = 0
    BY <1>1, <1>5
    DEF PromiseInv, AgentsGoOn, Background, CreateUnreserved, GraceCheck, Send,
        AgentNoResult, StreamOpen, StreamEnd
  <2>4. \A o \in Tasks : PaysCredits(o) => status'[o] # "pending_approval"
    <3>1. CASE CreateUnreserved(t)
      <4>1. ~PaysCredits(t) /\ \A o \in Tasks \ {t} : status'[o] = status[o]
        BY <1>1, <3>1, PersonalTask DEF CreateUnreserved, PaysCredits, TypeOK
      <4> QED
        BY <4>1 DEF PromiseInv
    <3>2. CASE ~CreateUnreserved(t)
      BY <1>5, <3>2 DEF PromiseInv, Background, GraceCheck, Send, AgentNoResult,
               StreamOpen, StreamEnd, table
    <3> QED
      BY <3>1, <3>2
  <2> QED
    BY <1>3, <2>1, <2>2, <2>3, <2>4
<1>6. ASSUME Crash \/ UNCHANGED vars
      PROVE  Goal
  <2>1. UNCHANGED <<order, status, holds, account>>
    BY <1>6 DEF Crash, vars, table
  <2>2. \A s \in Sessions : session'[s] = session[s] \/ session'[s] = Idle
    BY <1>6 DEF Crash, vars
  <2>3. \A o \in Sessions : (Unread(o) /\ GoesOn(o))'
    BY <2>1, <2>2, SessionsGoOn
  <2>4. \A o \in Tasks : streams'[o] = 0
    BY <1>6 DEF PromiseInv, Crash, vars, background
  <2>5. \A o \in Tasks : PaysCredits(o) => status'[o] # "pending_approval"
    BY <2>1 DEF PromiseInv
  <2> QED
    BY <1>3, <2>1, <2>3, <2>4, <2>5
<1>7. Goal
  BY <1>2, <1>4, <1>5, <1>6 DEF Next
<1> QED
  BY <1>1, <1>7 DEF PromiseInv

\* What the open tasks of a user have set aside is part of what was reserved.
LEMMA OutstandingIsPromised ==
  ASSUME IsFiniteSet(Tasks), TypeOK, NEW u
  PROVE  Outstanding(u) <= Promised(u)
<1> DEFINE g == SetAside(u)
           h == [t \in Tasks |-> IF Creator(t) = u THEN Reservations(t) ELSE 0]
<1>1. \A t \in Tasks : Amount(t) \in Int /\ Reservations(t) \in Nat /\ Amount(t) <= Reservations(t)
  <2> TAKE t \in Tasks
  <2>1. holds[t] \in Nat /\ Quoted(t) \in Nat
    BY OrderType DEF TypeOK
  <2>2. holds[t] * Quoted(t) \in Nat
    BY <2>1
  <2> QED
    BY <2>2 DEF Amount, Reservations
<1>2. \A t \in Tasks : g[t] \in Int /\ h[t] \in Int /\ g[t] <= h[t]
  BY <1>1, SetAsideIsAmount
<1>3. PICK less, more : less = g /\ more = h
  OBVIOUS
<1>4. SumFunctionOnSet(less, Tasks) <= SumFunctionOnSet(more, Tasks)
  <2>1. \A t \in Tasks : less[t] \in Int /\ more[t] \in Int /\ less[t] <= more[t]
    BY <1>2, <1>3
  <2> QED
    BY <2>1, SumOrdered
<1>5. Outstanding(u) = SumFunctionOnSet(less, Tasks) /\ Promised(u) = SumFunctionOnSet(more, Tasks)
  BY <1>3 DEF Outstanding, Promised
<1> QED
  BY <1>4, <1>5

\* As long as no task is settled (the agents only acknowledge), two of any number
\* of overlapping requests never both pass the check of one balance: what the open
\* tasks of a user have set aside stays within it, wherever the process stops.
THEOREM UnsettledOutstandingIsCovered ==
  ASSUME IsFiniteSet(Tasks), PersonalOrders, AgentsGoOn, InitialCredits >= 0
  PROVE  Spec => []OutstandingIsCovered
<1>1. Init => PromiseInv
  BY PromiseInit
<1>2. PromiseInv /\ [Next]_vars => PromiseInv'
  BY PromiseStep
<1>3. PromiseInv => OutstandingIsCovered
  <2> SUFFICES ASSUME PromiseInv, NEW u \in Users
               PROVE  Outstanding(u) <= account[u].balance
    BY DEF OutstandingIsCovered
  <2>1. TypeOK /\ account[u].reserved = Promised(u) /\ account[u].reserved <= account[u].balance
    BY DEF PromiseInv, Covered, TypeInv
  <2>2. Outstanding(u) <= Promised(u) /\ Outstanding(u) \in Nat
    BY <2>1, OutstandingIsPromised, OutstandingType
  <2>3. account[u].reserved \in Int /\ account[u].balance \in Int
    BY <2>1 DEF TypeOK, Account
  <2> QED
    BY <2>1, <2>2, <2>3
<1> QED
  BY <1>1, <1>2, <1>3, PTL DEF Spec
=============================================================================
