------------------------------ MODULE TaskBroker ------------------------------
(***************************************************************************)
(* The task broker and the credit ledger it settles tasks against          *)
(* (src/services/task_broker.py, credit_ledger.py, api/tasks.py).          *)
(*                                                                         *)
(* Every HTTP handler and background coroutine works in a database session *)
(* of its own, under READ COMMITTED.  A session reads the task row once,   *)
(* decides on that copy, and writes absolute column values back: a handler *)
(* is therefore a Load step and, after the awaits in between, one or more  *)
(* Commit steps.  Other sessions, the agents and a crash of the process    *)
(* interleave between those steps.                                         *)
(*                                                                         *)
(* The ORM keeps in its identity map the accounts it reached through       *)
(* task.client_agent.owner.account and task.provider_agent.owner.account,  *)
(* so a later SELECT of the same account, FOR UPDATE or not, yields the    *)
(* values of the first read: "held" and "copy" of a session.               *)
(***************************************************************************)
EXTENDS CreditLedger, FiniteSets, Functions

CONSTANTS
  Users,              \* owners of accounts, as clients and as agent owners
  Tasks,              \* rows of the tasks table a behaviour may create
  Sessions,           \* database sessions that may be open at once
  Hashes,             \* x402 transaction hashes a client may present
  NoTask, NoUser,     \* what an idle session has for its task and its user
  Orders,             \* the requests POST /tasks and tasks/send may carry
  InitialCredits,     \* balance of every account (the signup bonus)
  ApprovalThreshold,  \* settings.high_cost_approval_threshold
  AgentReplies,       \* how an agent may answer tasks/send
  CallbackStatuses,   \* statuses an agent may report through the webhook
  Isolation,          \* which handlers may overlap (see Admit)
  MaxStreams,         \* bound: relayed streams opened per task
  MaxPayments,        \* bound: payments committed per task
  MaxCrashes          \* bound: crashes of the process in a behaviour

Terminal == {"completed", "failed", "canceled"}

Statuses == Terminal \cup {"absent", "pending_approval", "pending_payment",
                           "submitted", "working", "input_required", "rejected"}

Order == [creator: Users, owner: Users, quoted: Nat,
          method: {"credits", "x402"}, delegated: BOOLEAN]

(***************************************************************************)
(* A session: "at" is the point its handler has reached, "next" the status *)
(* it is going to write, "held" the accounts its identity map keeps alive, *)
(* with the values they were read with in "copy".                          *)
(***************************************************************************)
Points == {"idle", "reserve", "insert", "submit", "receipt", "write", "settle",
           "finish"}

Session == [at: Points, task: Tasks \cup {NoTask}, user: Users \cup {NoUser},
            next: Statuses, held: SUBSET Users, copy: [Users -> Account]]

NoAccount == [balance |-> 0, reserved |-> 0]

Idle == [at |-> "idle", task |-> NoTask, user |-> NoUser, next |-> "absent",
         held |-> {}, copy |-> [u \in Users |-> NoAccount]]

ASSUME OrdersAssumption == Orders \subseteq Order
ASSUME CreditsAssumption == InitialCredits \in Int /\ ApprovalThreshold \in Nat
ASSUME AgentAssumption ==
  /\ AgentReplies \subseteq {"completed", "failed", "ack"}
  /\ CallbackStatuses \subseteq Statuses \ {"absent"}
ASSUME IsolationAssumption == Isolation \in {"none", "task", "request"}
ASSUME BoundsAssumption ==
  MaxStreams \in Nat /\ MaxPayments \in Nat /\ MaxCrashes \in Nat
ASSUME NullAssumption == NoTask \notin Tasks /\ NoUser \notin Users

VARIABLES
  order,      \* what the request that creates a task asks for; never changes
  status,     \* tasks.status; "absent" before the row exists
  charged,    \* tasks.credits_charged is set
  account,    \* accounts.balance and accounts.reserved
  fees,       \* sum of the PLATFORM_FEE rows of the transactions table
  paid,       \* number of TASK_PAYMENT rows of a task
  holds,      \* history: reservations committed on behalf of a task
  receipt,    \* x402_verified_receipts: the hashes recorded for a task
  session,    \* the open database sessions
  grace,      \* _dispatch_with_grace_period coroutines still asleep
  sending,    \* _dispatch_to_agent coroutines that have not yet called
  inflight,   \* _dispatch_to_agent coroutines waiting for the agent
  streams,    \* relayed streams of a task
  dispatched, \* tasks the dispatcher has called an agent for
  crashes     \* crashes so far

table == <<status, charged, account, fees, paid, holds, receipt>>
background == <<grace, sending, inflight, streams, dispatched>>
vars == <<order, table, session, background, crashes>>

TypeOK ==
  /\ order \in [Tasks -> Orders]
  /\ status \in [Tasks -> Statuses]
  /\ charged \in [Tasks -> BOOLEAN]
  /\ account \in [Users -> Account]
  /\ fees \in Int
  /\ paid \in [Tasks -> Nat]
  /\ holds \in [Tasks -> Nat]
  /\ receipt \in [Tasks -> SUBSET Hashes]
  /\ session \in [Sessions -> Session]
  /\ grace \in [Tasks -> Nat]
  /\ sending \in [Tasks -> Nat]
  /\ inflight \in [Tasks -> Nat]
  /\ streams \in [Tasks -> Nat]
  /\ dispatched \subseteq Tasks
  /\ crashes \in Nat

Init ==
  /\ order \in [Tasks -> Orders]
  /\ status = [t \in Tasks |-> "absent"]
  /\ charged = [t \in Tasks |-> FALSE]
  /\ account = [u \in Users |-> [balance |-> InitialCredits, reserved |-> 0]]
  /\ fees = 0
  /\ paid = [t \in Tasks |-> 0]
  /\ holds = [t \in Tasks |-> 0]
  /\ receipt = [t \in Tasks |-> {}]
  /\ session = [s \in Sessions |-> Idle]
  /\ grace = [t \in Tasks |-> 0]
  /\ sending = [t \in Tasks |-> 0]
  /\ inflight = [t \in Tasks |-> 0]
  /\ streams = [t \in Tasks |-> 0]
  /\ dispatched = {}
  /\ crashes = 0

-----------------------------------------------------------------------------
(* The order of a task.                                                        *)

Creator(t) == order[t].creator
Owner(t) == order[t].owner
Quoted(t) == order[t].quoted
HighCost(t) == Quoted(t) > ApprovalThreshold
\* Live, if one of the terminal statuses were forgotten.
LiveOrCanceled(t) == status[t] \notin {"completed", "failed", "absent"}
LiveOrCompleted(t) == status[t] \notin {"canceled", "failed", "absent"}

Live(t) == status[t] \notin Terminal \cup {"absent"}

\* Settling the task moves credits of its creator.
PaysCredits(t) == order[t].method = "credits" /\ Quoted(t) > 0

\* Who may open the task: get_task with a user_id.
Participants(t) == {Creator(t), Owner(t)}

\* The accounts that loading the task row reaches and keeps alive.
Held(t) == {Owner(t)} \cup IF order[t].delegated THEN {Creator(t)} ELSE {}

-----------------------------------------------------------------------------
(* Sessions.                                                               *)

(***************************************************************************)
(* Isolation = "none" is the program as it is deployed.  "task" restricts  *)
(* it to behaviours in which no two handlers work on one task at the same  *)
(* time, "request" to those in which no two handlers overlap at all.       *)
(***************************************************************************)
Admit(t) ==
  CASE Isolation = "none" -> TRUE
    [] Isolation = "task" -> \A s \in Sessions : session[s].task # t
    [] Isolation = "request" -> \A s \in Sessions : session[s] = Idle

Snapshot(accounts) ==
  [u \in Users |-> IF u \in accounts THEN account[u] ELSE NoAccount]

Opened(t, u, point, new) ==
  [at |-> point, task |-> t, user |-> u, next |-> new,
   held |-> Held(t), copy |-> Snapshot(Held(t))]

Open(s, t, u, point, new) ==
  /\ session[s] = Idle
  /\ Admit(t)
  /\ session' = [session EXCEPT ![s] = Opened(t, u, point, new)]

Close(s) == session' = [session EXCEPT ![s] = Idle]
Advance(s, point) == session' = [session EXCEPT ![s].at = point]

\* What the session reads of an account: its own copy when it holds one.
View(s, u) ==
  IF u \in session[s].held THEN session[s].copy[u] ELSE account[u]

\* Another session has flushed an UPDATE of the task row and not committed.
RowLocked(s, t) ==
  \E o \in Sessions \ {s} : session[o].at = "settle" /\ session[o].task = t

\* The account values the session works on.
Loaded(s) == [u \in Users |-> View(s, u)]

-----------------------------------------------------------------------------
(* Creating a task.                                                        *)

\* No request has been made for the task so far, not even one that died between
\* its reservation and its INSERT.
Unused(t) ==
  /\ status[t] = "absent"
  /\ holds[t] = 0
  /\ \A s \in Sessions : session[s].task # t

\* create_task up to the reservation: the provider is loaded, its owner's
\* account with it.
CreateBegin(s, t) ==
  /\ Unused(t)
  /\ PaysCredits(t)
  /\ session[s] = Idle
  /\ Admit(t)
  /\ session' = [session EXCEPT ![s] =
       [at |-> "reserve", task |-> t, user |-> Creator(t), next |-> "submitted",
        held |-> {Owner(t)}, copy |-> Snapshot({Owner(t)})]]
  /\ UNCHANGED <<order, table, background, crashes>>

\* create_task when nothing is reserved: the row is inserted to wait for the
\* approval or the payment, or is free of charge and awaits its dispatch.
CreateUnreserved(t) ==
  /\ Unused(t)
  /\ Admit(t)
  /\ \/ /\ HighCost(t)
        /\ status' = [status EXCEPT ![t] = "pending_approval"]
        /\ UNCHANGED grace
     \/ /\ order[t].method = "x402"
        /\ status' = [status EXCEPT ![t] = "pending_payment"]
        /\ UNCHANGED grace
     \/ /\ order[t].method = "credits"
        /\ Quoted(t) = 0
        /\ status' = [status EXCEPT ![t] = "submitted"]
        /\ grace' = [grace EXCEPT ![t] = @ + 1]
  /\ UNCHANGED <<order, charged, account, fees, paid, holds, receipt, session,
                 sending, inflight, streams, dispatched, crashes>>

\* Reserve, if the check compared the balance and not what is available of it.
ReserveFromBalance(s) ==
  LET t == session[s].task
      u == session[s].user
  IN  /\ session[s].at = "reserve"
      /\ View(s, u).balance >= Quoted(t)
      /\ account' = ReserveCredits(account, Loaded(s), u, Quoted(t))
      /\ holds' = [holds EXCEPT ![t] = @ + 1]
      /\ Advance(s, IF status[t] = "absent" THEN "insert" ELSE "submit")
      /\ UNCHANGED <<order, status, charged, fees, paid, receipt, background,
                     crashes>>

\* reserve_credits: SELECT FOR UPDATE, check, write and commit.  The row lock
\* keeps other sessions out, so the step is atomic, but it does not refresh
\* an account the session already holds.
Reserve(s) ==
  LET t == session[s].task
      u == session[s].user
  IN  /\ session[s].at = "reserve"
      /\ Available(View(s, u)) >= Quoted(t)
      /\ account' = ReserveCredits(account, Loaded(s), u, Quoted(t))
      /\ holds' = [holds EXCEPT ![t] = @ + 1]
      /\ Advance(s, IF status[t] = "absent" THEN "insert" ELSE "submit")
      /\ UNCHANGED <<order, status, charged, fees, paid, receipt, background,
                     crashes>>

\* reserve_credits raises InsufficientCreditsError and the request ends.
ReserveRefused(s) ==
  /\ session[s].at = "reserve"
  /\ Available(View(s, session[s].user)) < Quoted(session[s].task)
  /\ Close(s)
  /\ UNCHANGED <<order, table, background, crashes>>

\* create_task after the reservation has been committed: the row is inserted
\* and its dispatch scheduled after the grace period.
CreateInsert(s) ==
  LET t == session[s].task
  IN  /\ session[s].at = "insert"
      /\ status' = [status EXCEPT ![t] = "submitted"]
      /\ grace' = [grace EXCEPT ![t] = @ + 1]
      /\ Close(s)
      /\ UNCHANGED <<order, charged, account, fees, paid, holds, receipt,
                     sending, inflight, streams, dispatched, crashes>>

-----------------------------------------------------------------------------
(* Confirming, paying for, cancelling and updating a task: the Load steps. *)

\* ConfirmLoad, if a task already confirmed could be confirmed again.
ConfirmAgain(s, t) ==
  /\ status[t] \in {"pending_approval", "submitted"}
  /\ \E u \in Participants(t) :
       Open(s, t, u, IF PaysCredits(t) THEN "reserve" ELSE "submit", "submitted")
  /\ UNCHANGED <<order, table, background, crashes>>

\* confirm_task: the credits reserved are those of the user who confirms.
ConfirmLoad(s, t) ==
  /\ status[t] = "pending_approval"
  /\ \E u \in Participants(t) :
       Open(s, t, u, IF PaysCredits(t) THEN "reserve" ELSE "submit", "submitted")
  /\ UNCHANGED <<order, table, background, crashes>>

\* submit_x402_receipt; a credits task may stand pending_payment too, when its
\* agent has reported so.
ReceiptLoad(s, t) ==
  /\ order[t].method = "x402"
  /\ status[t] = "pending_payment"
  /\ Open(s, t, NoUser, "receipt", "submitted")
  /\ UNCHANGED <<order, table, background, crashes>>

\* cancel_task: with a client agent, only its owner may cancel.
CancelLoad(s, t) ==
  /\ Live(t)
  /\ \E u \in Participants(t) :
       /\ order[t].delegated => u = Creator(t)
       /\ Open(s, t, u, "write", "canceled")
  /\ UNCHANGED <<order, table, background, crashes>>

\* send_message with role "agent" on a task read as submitted.
MessageLoad(s, t) ==
  /\ status[t] = "submitted"
  /\ Open(s, t, NoUser, "write", "working")
  /\ UNCHANGED <<order, table, background, crashes>>

\* update_task_status: ends here when the task is read as terminal; writing
\* the status the row was read with is no UPDATE of the column.
UpdateLoad(s, t, new) ==
  /\ Live(t)
  /\ new # status[t]
  /\ Open(s, t, NoUser, "write", new)

\* handle_status_update: the provider reports any status on any task of its own
\* that is not terminal, one that waits for approval or payment included.
WebhookLoad(s, t) ==
  /\ \E new \in CallbackStatuses : UpdateLoad(s, t, new)
  /\ UNCHANGED <<order, table, background, crashes>>

\* _dispatch_to_agent: the agent's answer, an error or the timeout of the call
\* decides the task.
AgentResult(s, t) ==
  /\ inflight[t] > 0
  /\ \E new \in AgentReplies \ {"ack"} : UpdateLoad(s, t, new)
  /\ inflight' = [inflight EXCEPT ![t] = @ - 1]
  /\ UNCHANGED <<order, table, grace, sending, streams, dispatched, crashes>>

\* _finalize_task: the relayed stream of the agent ended with artifacts.
StreamResult(s, t) ==
  /\ streams[t] > 0
  /\ UpdateLoad(s, t, "completed")
  /\ streams' = [streams EXCEPT ![t] = @ - 1]
  /\ UNCHANGED <<order, table, grace, sending, inflight, dispatched, crashes>>

-----------------------------------------------------------------------------
(* The Commit steps.                                                       *)

ConfirmCommit(s) ==
  LET t == session[s].task
  IN  /\ session[s].at = "submit"
      /\ ~RowLocked(s, t)
      /\ status' = [status EXCEPT ![t] = "submitted"]
      /\ sending' = [sending EXCEPT ![t] = @ + 1]
      /\ Close(s)
      /\ UNCHANGED <<order, charged, account, fees, paid, holds, receipt, grace,
                     inflight, streams, dispatched, crashes>>

\* ReceiptCommit, if nothing kept a hash from being recorded twice.
ReceiptReplayed(s) ==
  LET t == session[s].task
  IN  /\ session[s].at = "receipt"
      /\ ~RowLocked(s, t)
      /\ \E h \in Hashes : receipt' = [receipt EXCEPT ![t] = @ \cup {h}]
      /\ status' = [status EXCEPT ![t] = "submitted"]
      /\ Close(s)
      /\ UNCHANGED <<order, charged, account, fees, paid, holds, background,
                     crashes>>

\* The hash of a receipt is the primary key of x402_verified_receipts.
ReceiptCommit(s) ==
  LET t == session[s].task
  IN  /\ session[s].at = "receipt"
      /\ ~RowLocked(s, t)
      /\ \E h \in Hashes :
           /\ \A o \in Tasks : h \notin receipt[o]
           /\ receipt' = [receipt EXCEPT ![t] = @ \cup {h}]
      /\ status' = [status EXCEPT ![t] = "submitted"]
      /\ Close(s)
      /\ UNCHANGED <<order, charged, account, fees, paid, holds, background,
                     crashes>>

\* ReceiptRefused, if a receipt that is not verified let the task proceed.
ReceiptOverlooked(s) ==
  /\ session[s].at = "receipt"
  /\ status' = [status EXCEPT ![session[s].task] = "submitted"]
  /\ Close(s)
  /\ UNCHANGED <<order, charged, account, fees, paid, holds, receipt, background,
                 crashes>>

\* A replayed, insufficient, late or unverified receipt changes nothing.
ReceiptRefused(s) ==
  /\ session[s].at = "receipt"
  /\ Close(s)
  /\ UNCHANGED <<order, table, background, crashes>>

\* Settles, if only delegated tasks settled, and if a cancel released nothing.
SettlesDelegated(s) ==
  /\ PaysCredits(session[s].task)
  /\ session[s].next \in Terminal
  /\ order[session[s].task].delegated

SettlesUncanceled(s) ==
  /\ PaysCredits(session[s].task)
  /\ session[s].next \in {"completed", "failed"}

\* The status to be written moves credits.  cancel_task releases only for a
\* client agent.
Settles(s) ==
  LET t == session[s].task
  IN  /\ PaysCredits(t)
      /\ \/ session[s].next \in {"completed", "failed"}
         \/ session[s].next = "canceled" /\ order[t].delegated

\* The UPDATE of the task row is flushed, which locks it, when the ledger
\* reads the creator's account.
Flush(s) ==
  LET t == session[s].task
      c == Creator(t)
  IN  /\ session[s].at = "write"
      /\ Settles(s)
      /\ ~RowLocked(s, t)
      /\ session' = [session EXCEPT ![s].at = "settle",
                                    ![s].held = @ \cup {c},
                                    ![s].copy[c] = View(s, c)]
      /\ UNCHANGED <<order, table, background, crashes>>

\* The status is written and no credits move; an x402 task is marked charged.
StatusCommit(s) ==
  LET t == session[s].task
  IN  /\ session[s].at = "write"
      /\ ~Settles(s)
      /\ ~RowLocked(s, t)
      /\ status' = [status EXCEPT ![t] = session[s].next]
      /\ charged' = [charged EXCEPT ![t] =
           @ \/ (session[s].next = "completed" /\ Quoted(t) > 0)]
      /\ Close(s)
      /\ UNCHANGED <<order, account, fees, paid, holds, receipt, background,
                     crashes>>

\* charge_credits commits the status along with the transfer.
ChargeCommit(s) ==
  LET t == session[s].task
  IN  /\ session[s].at = "settle"
      /\ session[s].next = "completed"
      /\ paid[t] < MaxPayments
      /\ status' = [status EXCEPT ![t] = "completed"]
      /\ account' = ChargeCredits(account, Loaded(s), Creator(t), Owner(t),
                                  Quoted(t))
      /\ fees' = fees + Fee(Quoted(t))
      /\ paid' = [paid EXCEPT ![t] = @ + 1]
      /\ Advance(s, "finish")
      /\ UNCHANGED <<order, charged, holds, receipt, background, crashes>>

\* release_credits commits the status along with the release.
ReleaseCommit(s) ==
  LET t == session[s].task
  IN  /\ session[s].at = "settle"
      /\ session[s].next \in {"failed", "canceled"}
      /\ status' = [status EXCEPT ![t] = session[s].next]
      /\ account' = ReleaseCredits(account, Loaded(s), Creator(t), Quoted(t))
      /\ Close(s)
      /\ UNCHANGED <<order, charged, fees, paid, holds, receipt, background,
                     crashes>>

\* update_task_status after charge_credits: credits_charged and the provider's
\* statistics are a second commit.
Finish(s) ==
  /\ session[s].at = "finish"
  /\ charged' = [charged EXCEPT ![session[s].task] = TRUE]
  /\ Close(s)
  /\ UNCHANGED <<order, status, account, fees, paid, holds, receipt, background,
                 crashes>>

-----------------------------------------------------------------------------
(* Background coroutines, and the process they die with.                   *)

\* GraceCheck, if a coroutine woke up more than once, and if it never dispatched.
GraceCheckAgain(t) ==
  /\ status[t] # "absent"
  /\ grace' = [grace EXCEPT ![t] = @ - 1]
  /\ sending' = [sending EXCEPT ![t] = IF Live(t) THEN @ + 1 ELSE @]
  /\ UNCHANGED <<order, table, session, inflight, streams, dispatched, crashes>>

GraceCheckOnly(t) ==
  /\ grace[t] > 0
  /\ grace' = [grace EXCEPT ![t] = @ - 1]
  /\ UNCHANGED <<order, table, session, sending, inflight, streams, dispatched,
                 crashes>>

\* _dispatch_with_grace_period wakes up and reads the status again.
GraceCheck(t) ==
  /\ grace[t] > 0
  /\ grace' = [grace EXCEPT ![t] = @ - 1]
  /\ sending' = [sending EXCEPT ![t] = IF Live(t) THEN @ + 1 ELSE @]
  /\ UNCHANGED <<order, table, session, inflight, streams, dispatched, crashes>>

\* _dispatch_to_agent calls tasks/send.
Send(t) ==
  /\ sending[t] > 0
  /\ sending' = [sending EXCEPT ![t] = @ - 1]
  /\ inflight' = [inflight EXCEPT ![t] = @ + 1]
  /\ dispatched' = dispatched \cup {t}
  /\ UNCHANGED <<order, table, session, grace, streams, crashes>>

\* The answer changes nothing: the agent goes on working ("ack"), or the task
\* is terminal by now.
AgentNoResult(t) ==
  /\ inflight[t] > 0
  /\ "ack" \in AgentReplies \/ ~Live(t)
  /\ inflight' = [inflight EXCEPT ![t] = @ - 1]
  /\ UNCHANGED <<order, table, session, grace, sending, streams, dispatched, crashes>>

\* stream_task relays tasks/sendSubscribe of a streaming agent, also of a task
\* that is not approved or not paid for yet.
StreamOpen(t) ==
  /\ Live(t)
  /\ status[t] # "rejected"
  /\ streams[t] < MaxStreams
  /\ streams' = [streams EXCEPT ![t] = @ + 1]
  /\ UNCHANGED <<order, table, session, grace, sending, inflight, dispatched,
                 crashes>>

\* The stream ends without artifacts, or finds the task terminal.
StreamEnd(t) ==
  /\ streams[t] > 0
  /\ streams' = [streams EXCEPT ![t] = @ - 1]
  /\ UNCHANGED <<order, table, session, grace, sending, inflight, dispatched, crashes>>

\* The process stops: open transactions roll back, coroutines are gone, and
\* nothing at startup looks for the tasks they were driving.
Crash ==
  /\ crashes < MaxCrashes
  /\ crashes' = crashes + 1
  /\ session' = [s \in Sessions |-> Idle]
  /\ grace' = [t \in Tasks |-> 0]
  /\ sending' = [t \in Tasks |-> 0]
  /\ inflight' = [t \in Tasks |-> 0]
  /\ streams' = [t \in Tasks |-> 0]
  /\ UNCHANGED <<order, table, dispatched>>

-----------------------------------------------------------------------------

\* A handler that has been admitted goes on.
Progress(s) ==
  \/ Reserve(s) \/ ReserveRefused(s) \/ CreateInsert(s)
  \/ ConfirmCommit(s) \/ ReceiptCommit(s) \/ ReceiptRefused(s)
  \/ Flush(s) \/ StatusCommit(s) \/ ChargeCommit(s) \/ ReleaseCommit(s)
  \/ Finish(s)

\* A request, a callback or an answer opens a session.
Request(s, t) ==
  \/ CreateBegin(s, t) \/ ConfirmLoad(s, t) \/ ReceiptLoad(s, t)
  \/ CancelLoad(s, t) \/ MessageLoad(s, t) \/ WebhookLoad(s, t)
  \/ AgentResult(s, t) \/ StreamResult(s, t)

Background(t) ==
  \/ CreateUnreserved(t) \/ GraceCheck(t) \/ Send(t) \/ AgentNoResult(t)
  \/ StreamOpen(t) \/ StreamEnd(t)

Next ==
  \/ \E s \in Sessions : Progress(s)
  \/ \E s \in Sessions, t \in Tasks : Request(s, t)
  \/ \E t \in Tasks : Background(t)
  \/ Crash

Spec == Init /\ [][Next]_vars

\* Fairness: the event loop resumes every admitted handler and every sleeping
\* coroutine, and a call to an agent ends, in the worst case by its timeout.
\* Strong, because the requests of others may occupy the sessions again and
\* again; they do not do so forever.
FairSpec ==
  /\ Spec
  /\ \A s \in Sessions : WF_vars(Progress(s))
  /\ \A t \in Tasks : /\ WF_vars(GraceCheck(t))
                     /\ WF_vars(Send(t))
                     /\ SF_vars(\/ AgentNoResult(t)
                               \/ \E s \in Sessions : AgentResult(s, t))

-----------------------------------------------------------------------------
(* What an account owes.                                                   *)

\* Credits set aside for each of u's tasks that are not settled, those of a
\* request between its reservation and its INSERT included ...
SetAside(u) ==
  [t \in Tasks |-> IF Creator(t) = u /\ status[t] \notin Terminal
                  THEN holds[t] * Quoted(t) ELSE 0]

\* ... and for all of them.
Outstanding(u) == SumFunctionOnSet(SetAside(u), Tasks)

-----------------------------------------------------------------------------
(* Properties that hold however handlers interleave.                       *)

\* A task that is completed has been paid for, whichever of the webhook, the
\* dispatcher and the stream completed it, whoever wrote the row in between
\* and wherever the process crashed: update_task_status lets charge_credits
\* commit status and transfer together.
CompletedIsPaid ==
  \A t \in Tasks : status[t] = "completed" /\ PaysCredits(t) => paid[t] > 0

\* credits_charged, the base of the spend-by-agent report, is never set on a
\* task without the TASK_PAYMENT row it stands for, though the two are written
\* by different commits.
ChargedIsPaid ==
  \A t \in Tasks : charged[t] /\ PaysCredits(t) => paid[t] > 0

\* The dispatcher calls no agent for a task before credits have been reserved for
\* it: neither for one that waits for approval, nor for one whose reservation was
\* refused or lost with the process.
DispatchedIsReserved ==
  \A t \in Tasks : t \in dispatched /\ PaysCredits(t) => holds[t] > 0

\* A reservation made by someone whose account the session has not read before
\* never exceeds the balance, whatever the settlements and requests beside it have
\* written: the row lock of reserve_credits makes its check and its write one
\* (its docstring).  Left out are users the handler had already loaded: the owner
\* of the agent, the client of a delegated task, and a client with a daily limit,
\* which check_daily_spend compares first and no account here has.
ReservationIsBacked ==
  [][\A t \in Tasks, u \in Users :
       /\ holds'[t] > holds[t]
       /\ account'[u].reserved > account[u].reserved
       /\ u \notin Held(t)
       => account'[u].reserved <= account'[u].balance]_vars

\* One x402 transaction hash pays for one task, even when two receipts pass
\* check_replay together.
ReceiptPaysOneTask ==
  \A t1, t2 \in Tasks : t1 # t2 => receipt[t1] \cap receipt[t2] = {}

\* A task stands "submitted" only with its price behind it: credits reserved, or a
\* verified receipt, whoever writes its row with what they read before.  This is
\* as long as no agent reports that status itself, and not of an x402 task above
\* the approval threshold: it goes from pending_approval to its agent, and no
\* receipt is asked for.
SubmittedIsFunded ==
  \A t \in Tasks : status[t] = "submitted" =>
    /\ PaysCredits(t) => holds[t] > 0
    /\ order[t].method = "x402" /\ ~HighCost(t) => receipt[t] # {}

\* The price is behind a task when it enters the queue and when the dispatcher calls
\* its agent, though creating, confirming and paying for it decide on rows read
\* before, and the dispatch follows in a coroutine of its own.
FundedBeforeWork == SubmittedIsFunded /\ DispatchedIsReserved

\* The balance of an account covers all that has been promised from it: however
\* many requests are under way, two of them never both pass the check of one
\* balance (the docstring of reserve_credits).  True as long as the handlers that
\* settle tasks do not overlap; the stale balance one of them writes breaks it.
OutstandingIsCovered ==
  \A u \in Users : Outstanding(u) <= account[u].balance

-----------------------------------------------------------------------------
(* Properties that hold as long as the handlers of one task do not overlap. *)

\* completed, failed and canceled admit no further transition.
TerminalIsFinal ==
  [][\A t \in Tasks : status[t] \in Terminal => status'[t] = status[t]]_vars

\* A task is paid for at most once, however many of the webhook, the
\* dispatcher, the stream and a second dispatcher report its completion.
PaidAtMostOnce == \A t \in Tasks : paid[t] <= 1

\* A task is paid for only if it ended completed: never one that was canceled
\* or that failed.
PaidIsCompleted == \A t \in Tasks : paid[t] > 0 => status[t] = "completed"

\* One reservation is made for a task, however often it is confirmed, as long as the
\* process does not stop between the reservation and the new status, and no agent
\* reports pending_approval, after which the task could be confirmed again.
ReservedAtMostOnce == \A t \in Tasks : holds[t] <= 1

\* Then the broker keeps the promise of TaskEscrow.
Escrow == INSTANCE TaskEscrow WITH
  due <- [t \in Tasks |-> PaysCredits(t)],
  outcome <- [t \in Tasks |-> IF status[t] \in Terminal THEN status[t] ELSE "open"]

\* Every step of the broker decides at most one open task, pays for it if it is
\* completed, or leaves all outcomes and payments alone.
KeepsEscrow == Escrow!Spec

-----------------------------------------------------------------------------
(* The ledger, as long as requests do not overlap at all.                  *)

\* What is reserved in an account is what its unsettled tasks have reserved, if these
\* are delegated and below the threshold and no agent reports pending_approval:
\* canceling a user's own task releases nothing (ClaimCancel), and canceling one
\* that was not approved releases what was never reserved.
ReservedIsOutstanding ==
  \A u \in Users : account[u].reserved = Outstanding(u)

\* Transfers move credits: those of all accounts and the platform's fees add up
\* to what was put in.
CreditsConserved ==
  SumFunctionOnSet([u \in Users |-> account[u].balance], Users) + fees
    = InitialCredits * Cardinality(Users)

-----------------------------------------------------------------------------
(* Liveness.                                                               *)

\* A submitted task whose agent answers is decided.
SubmittedIsDecided ==
  \A t \in Tasks : status[t] = "submitted" ~> status[t] \in Terminal

=============================================================================
