# CrewHub in TLA+

CrewHub is a marketplace of AI agents: users (and agents on behalf of their
owners) hire agents for tasks, the platform reserves the client's credits, calls
the agent over the A2A protocol, and pays the agent's owner when the task is
completed. It is a FastAPI application with asynchronous SQLAlchemy sessions on
PostgreSQL, a number of background loops in the same process, a web client in
Next.js, and a worker at the edge that connects chat channels to it.

This directory specifies what moves money (the task broker, payouts), the engine
that runs pipelines of tasks, the edge worker, and the pages of the web client
with the handlers they call; TLC model-checks it and TLAPS proves the main
properties. Paths below are relative to the repository's root; `frontend` is
`frontend/src`, and the service is below `src/`.

    tlc -config BrokerIsolated.cfg MCTaskBroker.tla     # one run
    tlapm TaskBrokerProofs.tla                          # one proof module

## 1. Inventory

The service:

| component | state | operations | talks to |
| --- | --- | --- | --- |
| **Task broker** `services/task_broker.py`, `api/tasks.py`, `a2a.py`, `webhooks.py` | rows of `tasks`; coroutines `_dispatch_with_grace_period` and `_dispatch_to_agent`; open streams | create, confirm, cancel, message, update status, dispatch, relay a stream, rate | ledger, A2A client, agents (webhooks), evaluation |
| **Credit ledger** `services/credit_ledger.py` | `accounts` (balance, reserved), `transactions` | reserve, charge, release, purchase, bonus, daily limit | called by broker, custom agents, billing, payouts, channels |
| **x402 payments** `services/x402.py` | `x402_verified_receipts` (hash is the key) | check replay, validate, verify, record | `submit_x402_receipt`, an external facilitator |
| **A2A client, push notifier** `services/a2a_gateway.py`, `push_notifier.py` | none | call an agent (timeout); notify a client (3 attempts) | agents, clients |
| **Workflow engine** `services/workflow_execution.py` | `workflow_runs`, `workflow_step_runs`, a snapshot of the workflow per run | start, pump every 3 s, dispatch a step group, sync, time out, cancel (recursively), recover at startup | broker, itself (sub-workflows) |
| **Payouts** `services/payout_service.py` | `payout_requests`, PAYOUT rows | connect, request (transfer, refund on failure) | ledger's accounts, Stripe |
| **Registry, channels, builder, organizations, tool servers, community agents** `services/registry.py`, `channel_service.py`, `org_service.py`, `custom_agent_service.py`, `api/builder.py`, `admin.py`, `mcp_servers.py`, `auth.py`, `llm_keys.py`, `activity.py` | the rows the pages below show | create, change, delete, review, vote; each handler reads, awaits, decides and writes | the web client |
| **Health monitor** `services/health_monitor.py` | `agents.status`, failures | probe the active and unavailable agents, mark and restore them | registry's rows, agents |
| **Scheduler, Stripe webhook, rate limiter, guest trial, authentication, discovery, language models, the Python gateway** | see section 5 | | |

At the edge and in the browser:

| component | state | operations | talks to |
| --- | --- | --- | --- |
| **Edge worker** `cloudflare/gateway-worker.js` | per isolate: `dedupSeen`, `rateLimits`; a promise per message | webhooks of Telegram, Slack, Discord; charge, create, poll, answer; a cron pass each minute | the service's gateway and channel endpoints, chat platforms |
| **Session and guards** `frontend/lib/auth-context.tsx`, `api-client.ts`, `middleware.ts` | Firebase's user, a token, two cookies, the user shown | sign in, refresh, log out, retry, redirect | Firebase, `api/auth.py` |
| **Tasks** | forms, query cache, a stream | create, undo, follow, cancel, confirm | broker |
| **Workflows and crews; plans, schedules and lists** | a draft, a copy, polls; a plan, a goal | edit, save, run; plan, approve, run, schedule, delete | `workflow_service.py`, the engine, the supervisor |
| **Channels** (wizard and pages) | a sheet, a copy of channels | verify a token, register, pause, rotate, force | `channel_service.py`, the worker's set-up endpoints |
| **Builder and reviews; registering agents; payouts; settings; administration; team; community; tool servers; directory and search; activity feed** | copies of rows, dialogs, calls under way | what their names say | the registry, channels and builder handlers above, and the monitor |

### Where it is hard

* **A handler is not a transaction.** Every handler loads rows, awaits, decides
  on what it loaded, and commits, some of them more than once
  (`reserve_credits`, `charge_credits` and `release_credits` commit inside).
  READ COMMITTED does not protect a decision from a commit in between, and only
  `reserve_credits` and `request_payout` lock a row.
* **The identity map.** A session that holds a strong reference to an account
  (through `task.client_agent.owner.account` or
  `task.provider_agent.owner.account`; the relationships are loaded `selectin`)
  gets that object with its old values from any later `SELECT`, also from
  `SELECT ... FOR UPDATE`. An `UPDATE` then sets absolute values of the changed
  columns.
* **Several actors decide one task:** the dispatcher, the agent's webhook, one or
  more relayed streams, the client's cancel.
* **Counted, then written.** Owners, upvotes, submissions, endpoints and
  withdrawals are counted or looked for first, and the write comes after an await.
* **Crashes.** The dispatch of a task exists only as a coroutine, a payout between
  Stripe's transfer and the commit only as Stripe's.
* **Two gates and two methods of payment** in front of a task (approval; credits
  or x402), which pass or miss each other.
* **Memory that is not shared.** A platform posts a message again, to an isolate
  of the worker that has seen it, has forgotten it, or never saw it.
* **A page is a copy.** Clicks come between a question and its answer; answers
  come late, in another order, twice or never; a button is disabled for one kind
  of call and a key press for none; the API client asks again after a lost answer
  although the first request has had its effect.

The hazards are listed one by one, each with its line, in `PROJECT.json`.

### What makes each part correct

* Broker: a task is decided once; a terminal status is never left; the dispatcher
  calls no agent for a task that is not reserved; every submitted task is decided.
* Ledger: credits are conserved; what is reserved is what open tasks reserved; a
  balance is never promised twice; a task is paid at most once, and only if it is
  completed.
* x402: one hash pays for one task; what stands `submitted` has its receipt.
* Workflow engine: a canceled run stays canceled and starts nothing; a step is
  started once; a run ends; a failed step in mode "stop" starts no later group.
* Payouts: what is paid out was earned.
* Edge worker: one message is charged once; what the owner refuses is not
  charged; whoever is charged is answered, once.
* Session: token, cookie and screen are of one account; a logout leaves nothing;
  a spinner ends.
* Pages: an answer is used for the question it answers; what was typed is not
  lost; what has ended shows; what is shown catches up with what is.
* Registry, builder, organizations, community: one agent per endpoint; what is on
  the market was approved; an organization has an owner; upvotes are votes.

## 2. Modules

The service and the worker:

| module | what it is |
| --- | --- |
| `CreditLedger` | operators: what reserve, release and charge do to the accounts table, given the values the session has loaded |
| `TaskBroker` | tasks, accounts, receipts, sessions, background coroutines, streams, crashes; its properties |
| `TaskEscrow` | abstract specification: an order is open, is decided once, and is paid once exactly when it is completed |
| `TaskBrokerClaims` | a statement of the documentation that the code does not keep |
| `WorkflowRun` | the workflow engine: runs and their steps, the pump, requests, sub-workflows, failures |
| `WorkflowPipeline` | abstract specification: runs end once, steps begin group after group in open runs, results are final |
| `ChatGateway` | the edge worker: webhooks, memory of isolates, promises, cron passes, the owner, faults |
| `MCTaskBroker`, `MCWorkflowRun`, `MCChatGateway` | constants for the model checker |

The sections of the web client, each with the handlers its pages call:

| module | pages and handlers |
| --- | --- |
| `Session` | sign-in, refresh, logout, the API client's retries, guards |
| `TaskConsole` | the form, the page and the panel of a task |
| `Editor` | editing, saving and running a workflow or a crew |
| `Planner` | a workflow from a form or a plan; schedules; deletion from lists |
| `ChannelWizard`, `ChannelPages` | making a channel; pausing, editing, forcing one |
| `Submissions` | agents built without code, and their review |
| `AgentForms` | detecting, registering, changing an agent; the registry, the health monitor's and the administrators' changes of a status |
| `Payouts` | withdrawals, Stripe, the account as each request has loaded it, beside reservations of the same account |
| `Settings` | spending limit, API key, keys of model providers, deletion of the account |
| `AdminTables` | tables of agents and users, the queue of verification, the commit after the answer |
| `Team` | organizations, members, roles |
| `Community` | votes and trials |
| `ToolServers` | tool servers and grants |
| `Directory` | lists with filters and pages |
| `MagicBox` | the search box of the landing page |
| `ActivityFeed` | the stream of activity, its hooks, its reconnections |
| `WebClient` | instances of all of them, the properties its run checks; the constants of the sections that theorems are about are its own |
| `MCWebClient` | the clicks of each section, for the model checker |

The proofs:

| module | theorems about |
| --- | --- |
| `TaskBrokerProofs` | tasks, payments, receipts; the refinement of `TaskEscrow`; accounts: conservation, reservations, cover |
| `WorkflowRunProofs`, `WorkflowPipelineProofs` | types, single starts, the order of groups; the refinement of `WorkflowPipeline` |
| `ChatGatewayProofs` | types, charges, results |
| `WebClientProofs` | session, feed, plans, builder, forms, payouts, settings, team and votes of the web client |
| `WebClientScreenProofs`, `WebClientCatchUpProofs` | what answers are used for (`AnswersFit`); what is kept (`KeepsWork`) and caught up with (`CatchesUp`); the types of all sections |
| `SumTheorems` | lemmas about sums over finite sets |

### How TaskBroker corresponds to the code

| variable | code |
| --- | --- |
| `order` | the request: creator, owner of the hired agent, `credits_quoted`, `payment_method`, whether a client agent is set (`delegated`) |
| `status`, `charged` | `tasks.status` (`"absent"` before the INSERT), `tasks.credits_charged IS NOT NULL` |
| `account`, `fees`, `paid` | `accounts`; the sum of PLATFORM_FEE rows; the number of TASK_PAYMENT rows of a task |
| `receipt` | rows of `x402_verified_receipts` |
| `holds` | history: reservations committed on behalf of a task |
| `session` | an open `AsyncSession`: the point its handler has reached, the task, the status it is going to write, the accounts its identity map keeps and the values they have there |
| `grace`, `sending`, `inflight` | `_dispatch_with_grace_period` asleep; `_dispatch_to_agent` before and during `gateway.send_task` |
| `streams`, `dispatched` | open `_relay_agent_stream`s; history: tasks the dispatcher has called an agent for |

A handler is split where another session can act between two of its effects:

    create_task          CreateBegin -> Reserve | ReserveRefused -> CreateInsert
                         CreateUnreserved (approval pending, x402, free of charge)
    confirm_task         ConfirmLoad -> Reserve | ReserveRefused -> ConfirmCommit
    submit_x402_receipt  ReceiptLoad -> ReceiptCommit | ReceiptRefused
    send_message         MessageLoad -> StatusCommit
    cancel_task          CancelLoad -> StatusCommit | Flush -> ReleaseCommit
    update_task_status   UpdateLoad -> StatusCommit
                                     | Flush -> ChargeCommit -> Finish
                                     | Flush -> ReleaseCommit
      from the webhook     WebhookLoad
      from the dispatcher  GraceCheck -> Send -> AgentResult | AgentNoResult
      from a stream        StreamOpen -> StreamResult | StreamEnd

`Flush` is the autoflush of the task's UPDATE when the ledger first reads an
account: PostgreSQL then holds the row lock until the commit, so another writer
of that row waits (`RowLocked`) and afterwards overwrites. `Reserve` is one step
because FOR UPDATE and the commit enclose it; what it compares is `View`, the
values the identity map has if the session holds the account. `ChargeCommit` and
`ReleaseCommit` commit the status together with the credits, as the code does,
and `Finish` is the second commit with `credits_charged`. `Crash` rolls back all
sessions and drops all coroutines; nothing at startup looks for them.

Credits are integers and the fee is the floor of a tenth of the amount; the code
uses decimals with four places, and no property depends on rounding.

### How WorkflowRun corresponds to the code

| variable | code |
| --- | --- |
| `db` | the committed `workflow_runs.status`, `current_step_group` and `workflow_step_runs.status`; `task_id` or `child_run_id` is set exactly in a step that has been marked running |
| `mode` | `failure_mode` in the run's snapshot |
| `task` | the status of a step's task, as far as the engine tells statuses apart; a task that is rejected or never answered stays open |
| `starts` | history: the tasks or child runs created for a step |
| `worker` | sessions: the runs a pass of the pump has left (`queue`), the calls of `_dispatch_step_group` and `cancel_run` in progress with the steps they have left (`calls`), the rows as loaded or last committed (`seen`) and the objects in memory (`mine`) |

    execute_workflow          Execute, then a dispatch call
    _dispatch_step_group      DispatchTask | StartChild | DispatchFails, for each
                              step in any order (its position is the user's), -> Return
    pump_running_workflows    PumpBegin -> for each run, deepest first, one of
      _pump_single_run          PumpLate, PumpEmpty, PumpWait, PumpGroupEnded
                              -> PumpEnd
    cancel_run                CancelRequest -> CancelStep ... -> Return
    cancel_step_run           CancelStepRequest -> Return
    recover_stale_runs        Restart
    an exception, a lost      DispatchRaises, Disconnect
    connection

A commit is `Committed`: each column that `mine` has changed since `seen` is
written, over whatever the row holds, and the others are not. Every dispatched
task commits (`create_task` does), so the new `current_step_group` is in the
database before the task is, and the step's `running` only with the next commit.
`StartChild` nests: the child's rows are committed, its first group is
dispatched by a call on top of the parent's, and the parent's step is marked
when that call returns. A child run that the pass has loaded is not read again
(`Outcome`), which is why the pump takes children first.

Rows are locked from an UPDATE to the commit; the model lets an overlapping
session commit in between and the first one overwrite it, which is one order more
than the database allows. Elapsed time is a choice: a pass may find any run, and
any running step, past its timeout. `Overlap = FALSE` admits a session only when
no other is open; like `Isolation` below it separates the logic of the engine
from its races.

### How ChatGateway corresponds to the code

| variable | code |
| --- | --- |
| `channel` | the connection's row: platform, status, whether the user is blocked; `backend` is explained below |
| `posts`, `refused`, `owner` | webhooks posted per message (a redelivery or an edit counts as one more); those that arrived while refused; changes by the owner |
| `memory` | of each isolate: `dedupSeen` (an entry is fresh or old) and the hits in `rateLimits` |
| `job` | the handler and the background promise of each post, at the call it awaits |
| `charged`, `work`, `stored`, `logged` | credits charged; the task or run created; the system message that leaves a result to the cron pass; outbound messages |
| `told` | what the user has been sent: an error, "taking longer", an acknowledgment, results |
| `pass` | `scheduled` at work: over tasks, then over runs |

    the fetch handlers        Post, SlackHook
    processMessage            Load -> Wake -> Charge -> Create
    pollTask, pollWorkflow    PollSees | PollGivesUp | PollGivesUpQuietly
      and what follows        Tell, TellAndStore, Note, Store
    scheduled                 PassBegin -> PassSkip | PassSend -> PassLog ...
    an exception, a recycle   Throw, Recycle

`backend = "deployed"` is the marketplace of this commit, as `src/api` has it, and
`"expected"` the one the worker is written for; both are checked, and the
properties hold in both unless they say otherwise. They differ in three answers:
`/gateway/log-message` requires fields the worker does not send
(`src/schemas/channel.py:102`), `/channels/` requires a user's token so that the
cron pass returns at once (`src/api/channels.py:57`), and a created run is not
called `run_id`.

### How the sections of WebClient correspond to the code

A section module has the state of its pages (fields, dialogs, the query cache as a
copy), the calls under way, and the rows of the service. An action is an event
handler, an answer heard, or a step of a handler of the service; a call is at
`sent`, at a point where the handler awaits, or answered, and `HearFailure`, `Lose`
and the API client's second try are steps of their own. What a page has read
before an await is in the record of its call. A page that is left takes its state
with it, while its calls go on unheard; the application's router mounts one page
at a time, which is why a behaviour of `WebClient` stays in one `section` and the
variables of the others rest at `Off`. Where two parts of the client do meet -
list and dialog, form and page and panel of a task, wizard and worker, builder and
reviewer - they are in one module.

`past`, `raced`, `hasty`, `again`, `stuck` are history: the overlaps and faults that the
code does not survive, by name. What such a flag exempts is in general the very case
of the hazard that the property is listed under, because the code fails it and the
finding is in the list below. The property says what is left, and does not
claim more: the same actors in every other order, one after the other, with lost
answers, repeats and stale pages. The comment of each property says what its flags
stand for, and the note of each hazard says what they take out. `MaxClicks` bounds what the user
does, `MaxFaults` what is lost, `MaxOthers`, `MaxVotes`, `MaxMoves`, `MaxMounts`,
`MaxChanges` what others do.

### What is abstracted

* Messages, artifacts, history, latency, statistics, wording, layout.
* In the workflow engine: inputs, outputs and credits of steps, and the depth limit, the cost
  estimate and the balance check, which refuse a run before it exists.
* Whether an order above the threshold came with `confirmed = true` is a choice;
  the quote is part of the order (`_resolve_credits` picks it before the broker
  branches).
* The daily limit of a client. For a client who has one, `reserve_credits` first
  loads the account to compare it (`check_daily_spend`, `credit_ledger.py:102`), so that the
  FOR UPDATE after it finds the copy in the identity map: such a client is one more whose
  account the session holds (`Held`), with the effect the finding about hiring one's
  own agent has. The accounts here have no limit.
* Quotas, abuse limits, content filter, depth of delegation and the circuit
  breaker only refuse a request before it changes anything; a request that is
  refused is one that is not made.
* The facilitator's verdict, the agent's answer, a card's content, a model's plan
  and the time of a timeout are nondeterministic.
* A grace check that fails with an error drops the dispatch; this is left to
  `Crash`, which loses the same coroutine.
* In the client: fields that no property tells apart are one field; a toast is
  modelled where it states a fact (`LiveIsLive`, `SaidIsSo`).

### Isolation

`Isolation` selects behaviours:

* `"none"`: the program as it is deployed.
* `"task"`: a handler is admitted only while no other works on the same task.
* `"request"`: no two handlers overlap at all.

The constant separates two questions: what the code guarantees under any
interleaving, and what it would guarantee if the rows were locked, that is
whether its sequential logic is right. Everything proved under `"task"` fails
under `"none"`; the findings below say how.

## 3. Runs

| run | asks |
| --- | --- |
| `BrokerConcurrent` | Isolation "none", the handlers and a relayed stream of a task in any interleaving and one crash; all orders, by credits or x402, also hiring one's own agent: completed and charged tasks are paid for; the dispatcher calls agents for reserved tasks only; what stands `submitted` is funded; and a reservation on an account not read before is within the balance. |
| `BrokerIsolated` | Isolation "task", two tasks, handlers of both interleaved, a relayed stream on each: decided, reserved and paid at most once, paid only if completed, terminal is final; and the broker implements `TaskEscrow`. |
| `LedgerSerial` | Isolation "request": after every commit `reserved` is what open tasks reserved and credits are conserved, for a delegation, a self-delegation and two agents hiring each other; and under `FairSpec` a submitted task is decided. |
| `Contention` | Isolation "none", three sessions, two tasks by credits or x402, a balance for one, two hashes, a crash, agents that only acknowledge: the balance covers what is outstanding; one hash, one task. |
| `WorkflowConcurrent` | Overlap, two groups, the second a sub-workflow; a request and the pump in any interleaving, one failure: no step is started twice or before the groups ahead of it have ended, and every run ends. More requests at once are the theorems' (`StepsStartOnce`, `StepsStartInOrder`). |
| `WorkflowSerial` | No overlap; the same with two steps in the first group, a run that has no group 0, cancels of runs and of first-group steps, a pump that takes one run per pass, one failure: the engine implements `WorkflowPipeline`. |
| `ChatGateway` | A question and a workflow command, two posts in all, on Slack and Discord, for both backends, with one fault or change by the owner: an isolate that remembers charges once; what is refused is not charged; a result is told once; and whoever is charged is answered. |
| `WebClient` | Each section from its own initial states: 12 invariants and 3 temporal properties, below. |

In `BrokerConcurrent` an agent may report on its task at any time, and a stream be
opened on it, also while the task waits for its payment or its approval: nothing in
`handle_status_update` or `stream_task` looks at more than the agent and the terminal
statuses. `FundedBeforeWork` is therefore about the dispatcher (`DispatchedIsReserved`)
and about the status that a receipt or a reservation leads to (`SubmittedIsFunded`).
`Contention` has no settlements (`AgentReplies = {"ack"}`): one that overlaps a
reservation writes a stale balance over it, and what a reservation keeps even then is
`ReservationIsBacked`.
`LedgerSerial` uses delegated orders only, because a canceled order of a user keeps
its reservation (finding `ClaimCancel`), and quotes below the threshold, because
canceling an unapproved one releases what was never reserved; its agents answer
"completed" or "failed", as nothing in the broker ends a task whose agent
acknowledges and never reports. `Contention` uses an agent of another owner
because one's own is a finding below.

In `WorkflowConcurrent` only a step of the last group is canceled
(`Cancelable`): a request that dispatches a step marks it running over a cancel,
after the pump has passed on. In `WorkflowSerial` only steps of first groups are: a later step that
its user has canceled is dispatched all the same, since `_dispatch_step_group`
does not look at the status. `KeepsPipeline` fails with `Overlap = TRUE`, where
the pump may write `completed` over a cancel.

### The properties of WebClient

Each is a conjunction over the sections it concerns, so that one question is one
property; the formulas are in the section modules.

| property | says | section |
| --- | --- | --- |
| `OneAccount` | token, cookie and screen are of one account, when no function is in progress | `Session` |
| `LeavesNothing` | a logout leaves no credentials, a failing call stops after six attempts, a page left keeps no connection and no timer unless a connection of its had ended | `Session`, `ActivityFeed` |
| `LoadingEnds` | the spinner of the protected pages ends | `Session` |
| `EndReachesScreen` | a task or a run that has ended shows so; the list of channels catches up | `TaskConsole`, `Editor`, `ChannelPages` |
| `KeepsWork` | a save closes the editor it was made in, over what was saved and with the page at that revision or a later one; a form goes with its own creation; an ended task does not come to life | `Editor`, `Planner`, `TaskConsole` |
| `PlanRunsWithItsGoal` | a plan's workflow is run for the plan's goal | `Planner` |
| `AnswersFit` | of answers in any order, the one used answers what was asked; a crew's report is that of the run it was started for | `MagicBox`, `ChannelWizard`, `AgentForms`, `Editor`, `TaskConsole` |
| `LiveIsApproved` | what is on the market was approved | `Submissions` |
| `OneAgentPerEndpoint` | however often a form is sent and whoever registers beside it, unless two are being added at once, one is marked unavailable or suspended, or settings are saved | `AgentForms` |
| `PaidWasEarned` | no more is paid out than was earned | `Payouts` |
| `ShownKeyWorks` | the key to copy is the key accepted | `Settings` |
| `OwnerRemains` | an organization has an owner | `Team` |
| `UpvotesAreVotes` | the counter is the sum of the votes | `Community` |
| `CatchesUp` | with nothing under way and nothing lost, what is shown is what there is; an event of a task is shown once | `AdminTables`, `ToolServers`, `Directory`, `ActivityFeed`, `ChannelWizard`, `TaskConsole`, `Submissions`, `ChannelPages` |

### Bounds

Two users are enough for a client and a provider; two tasks let a reservation of
one pay for the other and a handler of one run inside a handler of the other; two
sessions are two handlers of one task, three let two creations pass while one is
refused. `MaxPayments` caps a counter that a run lets exceed one, so that a double
payment can be seen. `MaxCrashes` is one or none: after a crash the state is one
that other interleavings reach too, with what was lost. `MaxStreams` is the number
of times a stream may be open at once on a task. Balances are 15, 30 or 60 with
quotes of 10 (below the threshold of 15) and 20 (above it), so that one, one and a
half or three orders fit.

Of workflows, two groups and one sub-workflow contain each kind of step change: a
first and a last group, a child started from the pump, and a child pumped before
its parent. `MaxStarts = 2` shows a second start, `MaxFailures = 1` a failure at
every point; what a second one meets is a state that cancels reach as well.
`PumpLimit` is 20 in the code, more than the runs of any instance here, and 1 in
`WorkflowSerial`, where it binds.

In `ChatGateway` one isolate with `SeenLimit = 1` both remembers and forgets (an
entry expires, and the second message makes it drop expired ones), `MaxRequests =
1` makes the rate limit bind at the second message, and two posts are a message
and its redelivery or two messages; more isolates charge more often, which the
property grants. The proofs cover any number of each. One cron pass at a time is
enough for liveness; with two that overlap TLC refutes `ResultIsToldOnce`, as each
sends what both have listed.

In `WebClient` each entity comes twice, so that an answer for one can meet the
other; clicks are two to six, as many as it takes to reach the overlaps the section's
properties are about, and one fault may strike anywhere. `Payouts` has three requests:
the user's, its repetition by the API client, and a later one. `MaxTries` is 2 where the code has more
than one, enough for an effect that happens twice. `ActivityFeed` has two events
of a list that in the code has fifty, and two chains: a first connection and one
the timer makes; `MaxEnds` bounds how often its connections break or its streams end.
An administrator's override of a status counts as a fault, another user's registration
and a probe that may fail as clicks.

Deadlock is not checked: all tasks may be decided, all runs have ended, all pages
be left, and no request be made.

### Fairness

`FairSpec` of `TaskBroker` assumes that the event loop resumes an admitted handler (weak fairness
of `Progress`) and a coroutine that sleeps (`GraceCheck`, `Send`), and that a call
to an agent ends, by its timeout if nothing else (`a2a_gateway.py` sets one, and
the failure path of `_dispatch_to_agent` then marks the task failed). The end of
the call needs strong fairness only because the model's sessions are few and may
be taken again and again by other requests; the program's pool is larger and
waits in order. Clients and webhooks are not fair: nobody has to call.

`FairSpec` of `WorkflowRun` assumes that sessions are resumed, that the pump loop
goes on (it catches every exception) and, as strong fairness of `PumpLate(r)`,
that a run pumped again and again is at last older than its timeout. Tasks need
not end and users need not act.

`FairSpec` of `ChatGateway`: a promise goes on when what it awaits is there (a
promise that throws or whose isolate is recycled is dropped, which is not a step
it has to take), and cron passes run. Work need not end, and nobody has to post.

`FairSpec` of `WebClient`: an async function goes on (`Session`), a full page load
and a redirect take place, calls end and polls come (`TaskConsole`, `Editor`,
`ChannelPages`); the browser ends a call that nobody answers. Users need not click.

### Findings

Each is a run with one property, taken from a sentence of the repository, that
TLC refutes with a short counterexample.

| run | what happens |
| --- | --- |
| `ClaimCancel` | canceling a task created by a user releases nothing |
| `ClaimPaidOnce` | webhook and dispatcher both charge for a task |
| `ClaimPayout` | a payout repeated by the API client is paid twice, although the docstring names the lock that is to prevent it |
| `EditedRun` | a workflow whose first group lost its last step in the editor is saved with groups that begin at 1; a run of it starts nothing and fails |

The models show more, which have no run of their own; each appears when a
bound or the history condition of a passing run is relaxed.

Of the broker, the ledger and x402:

* Opening the stream of a task in `pending_approval` calls its agent, and a
  `done` with artifacts completes and charges it (`src/api/tasks.py:478`).
* A task in `pending_payment` is completed without a receipt by its agent's webhook or
  by a stream: `handle_status_update` (`task_broker.py:1296`) and `stream_task`
  (`src/api/tasks.py:463`) refuse terminal tasks only, and what completes a task by x402
  takes the payment for made (the comment "payment already settled on-chain" in
  `update_task_status`; `docs/plans/2026-02-27-x402-openclaw-design.md:68`). A task paid
  in credits is charged when it completes, one paid by x402 is not.
* Two confirmations of a task reserve twice (`ReservedAtMostOnce` in
  `BrokerIsolated` with `Isolation = "none"`; `task_broker.py:976`).
* Two overlapping settlements lose an update of a balance (`CreditsConserved`
  added to `BrokerConcurrent`; `credit_ledger.py:202`).
* Hiring one's own agent, two requests pass the check of one balance in spite of
  FOR UPDATE (`OutstandingIsCovered` in `Contention` with `SelfHired` as the
  order; `credit_ledger.py:149`).
* With `Isolation = "none"` a status decided on before the task ended overwrites
  the terminal one (`TerminalIsFinal`), the same root as `ClaimPaidOnce`.
* Orders above the threshold in `LedgerSerial`: canceling an unapproved delegated
  task releases credits that the client's other tasks have reserved
  (`task_broker.py:955`), although nothing was reserved for it.
* An x402 order above the threshold needs no receipt: `create_task` has it wait for
  approval first (`task_broker.py:203`) and `confirm_task` moves it straight to
  `submitted` (`:972`). `SubmittedIsFunded` is therefore about the others.
* A task paid by x402 is not dispatched: `submit_x402_receipt` changes its status
  and calls nobody, where `docs/LIFECYCLE.md:567` has it go on.
* A crash in the grace period leaves a submitted task that nobody dispatches
  (`SubmittedIsDecided` with `MaxCrashes = 1`).
* `docs/ARCHITECTURE.md:177` has a rejected task return its credits; `rejected`
  is no terminal status for the broker and releases nothing, so the reservation
  stays until the task is failed or canceled.

Of workflows:

* Canceling a run leaves a child run going whose step has timed out or was canceled
  before (`docs/CHANGELOG.md:27` says the cancel cascades).
* With two sub-workflows in one group, canceling a run of which the second child
  has ended reports an error and yet cancels the run and the first child; a step
  stays `running` (`workflow_execution.py:576`).

Of the edge worker:

* An isolate that has forgotten a message, or another isolate, charges it again.
* Against the service of this commit no long-running result is delivered: the
  system message is rejected and the cron pass returns at once.
* A heartbeat activates a channel its owner has paused meanwhile
  (`gateway-worker.js:766`).
* `handleTaskCallback` is called by nobody (`gateway-worker.js:1057`).

Of the web client and the handlers behind it:

* `Session`: the listener asks for the token outside its `try`, so that a failure
  leaves the spinner on; overlapping sign-ins leave the cookie of one user under
  the screen of another.
* `TaskConsole`: Enter sends while Send is disabled; "Undo" is offered for five
  seconds on a page that is left after one; polling stops at the first failure.
* `Editor`: Enter starts a crew's run over one being started; a save that fails
  says nothing; what is typed during a save is lost.
* `Planner`: approving again after a failed run is refused as already approved.
* `ChannelWizard`: a registration that failed at the worker is announced as live;
  "Create" again while registering makes a second channel.
* `ChannelPages`: a second click on another channel enables the first one's button,
  so that two requests for one channel contradict each other and the one served last
  wins, whichever was clicked last (`channels-tab.tsx:67`); a limit of 0 is never saved;
  a form opened before a change by somebody else reverts it; rotating a secret is always
  refused.
* `Submissions`: the limit of three is counted before the insert; deleting from a
  stale list what has been approved meanwhile leaves its agent on the market.
* `AgentForms`: a registration whose answer is lost while its skills are embedded
  is made twice, and so are two users' registrations of one endpoint at that time;
  the endpoint of an agent that is unavailable or suspended is registered again
  (`registry.py:60` asks for active and inactive ones), and the first agent comes back
  beside the second when its probe succeeds (`health_monitor.py:311`); settings accept
  another agent's endpoint; the monitor writes what it read before its probes over an
  owner's deactivation.
* `Payouts`: the lock refreshes nothing: `db.get(User)` has brought the account along
  (`payout_service.py:196`), the balance is tested and written as it was then
  (`:241`), and another commit in between is undone; a crash between transfer and commit pays without a record; a failed
  payout's row keeps reducing what may be withdrawn (`payout_service.py:295`); the
  call to Stripe blocks the event loop.
* `Settings`: a new API key after a revocation never works, since nothing clears
  `api_key_revoked_at` (`api/auth.py:409`, `core/_api_key_lookup.py:39`); two saves of provider keys
  at once keep one (`api/llm_keys.py:106`).
* `AdminTables`: toggling a row that is out of date lifts a suspension.
* `Team`: two administrators who remove or demote each other leave no owner
  (`org_service.py:233`).
* `Community`: two votes at once count as one (`custom_agent_service.py:240`).
* `ActivityFeed`: a page left while the timer waits, or after a reconnection, keeps
  streaming (`use-activity-feed.ts:157`); the stream selects tasks by their
  creation only, where its docstring promises completed ones (`api/activity.py:48`, `:66`);
  the `timeout` and `error` events have no key, so that the feed shows each again
  (`use-activity-feed.ts:66`), until a page load filters them out for want of a date (`:30`).
* `ToolServers`: grants of a server just deleted stay in the list.
* `Directory`: the page after the last of a list that has shrunk is an empty page.

## 4. Proofs

A theorem holds for every value of the constants its module's assumptions admit;
what it assumes beyond them is in its statement and explained here. Where a
theorem assumes that a set is finite (`Users`, `Tasks`, `Messages`, `Requests`) it
does so because the property sums over that set.

### The broker

`TaskBroker` assumes that orders are well-formed, credits are numbers, the statuses
agents report exist, and the null values are not tasks or users.

`TaskBrokerProofs`, under every interleaving and any number of crashes:

* `TypeCorrect`: `TypeOK`. The inductive invariant is `TypeInv`, `TypeOK` with
  the facts that a working session has a task and, where it reserves, a user.
* `CompletedTasksArePaid`, `ChargedTasksArePaid`: only `ChargeCommit` writes
  `completed` for a task that pays credits, and `credits_charged` is written by a
  session that is past that step. The invariant adds what sessions at each point
  have established: at `finish` the payment exists; a session at `write` with
  status `completed` has yet to settle.
* `DispatchedTasksAreReserved`: every way a task reaches the dispatcher goes through a
  reservation, and no step takes the record of it back. The invariant
  `DispatchedReserved` is about the coroutines of each kind, `PastReserved` about
  sessions at `insert` and `submit`.
* `ReceiptsPayOneTask`: uniqueness of the hash across tasks.
* `TasksAreFundedBeforeWork`: to this it adds that a task stands `submitted` with credits
  reserved or, by x402 below the threshold, with a receipt (`FundedInv`): a session that is going to write
  that status has the one or the other behind it, whatever was written since it
  read the row. It assumes that no agent reports `submitted` or `pending_approval`
  by its webhook, which the handler would accept. Streams and reports of unpaid tasks
  are not excluded: they lead to other statuses (findings).
* `ReservationsAreBacked`: the account a handler reserves from, if it has not read it
  before, is read by the FOR UPDATE itself (`ReservesUnread`), so that check and write
  are of the row as it is, whatever stale values settlements have put there.

In the same module, for `Isolation # "none"`: `IsolatedInv` states that at
most one session works on a task (`AloneOnTask`), that a status read by a session
is therefore still the status of the row while it matters (`StillAsRead`), and
that payments and the terminal statuses agree (`PaidWhenCompleted`). Each step is
then `Undecided` (no outcome and no payment changes) or `Decides(t)` for one open
task, from which follow `TerminalStaysFinal`, `PaymentsAreSingle`,
`PaymentsAreForCompleted` and the refinement `BrokerKeepsEscrow`.
`ReservationsAreSingle` needs two more assumptions, for the code does not enforce them:
no crash (one between the commit of the reservation and the commit of the status
leaves a task that can be confirmed, and reserved, again) and no agent that
reports `pending_approval` (the webhook would accept it).

In the same module, about the accounts:

* `CreditsAreConserved`, for `Isolation = "request"`: one handler works at a time
  (`OneAtATime`), so that the values it has read of the accounts it holds are those
  in the table until it has settled (`FreshCopies`). What it writes back is then a
  change by an amount, and a transfer takes as much as it gives, in all cases in
  which payer, payee and platform may coincide.
* `ReservedIsWhatTasksHold`, for the same isolation: `reserved` is to the unit what
  the open tasks of the account's user have set aside. Charging and releasing take
  `max(0, reserved - amount)`, which would hide a shortage; the proof needs that there is
  none, so it carries that a task has its reservation from the moment its row
  exists (`ReservedOnCreation`). It assumes `PlainOrders` (what costs credits is
  delegated and below the threshold) and that no webhook reports
  `pending_approval`: the findings `ClaimCancel` and the cancel of an unapproved
  task are the counterexamples without them.
* `SettledOutstandingIsCovered`, under the same assumptions: the balance covers it.
* A case of `OutstandingIsCovered` under every interleaving,
  `UnsettledOutstandingIsCovered`, is proved for `PersonalOrders` (users who hire the agents
  of others) and `AgentsGoOn` (agents that only acknowledge, so that nothing is ever
  settled). It is about requests that compete for one balance and about nothing
  else: the account that FOR UPDATE reads is not one the session already holds
  (`Unread`), and `reserved` is what has ever been promised (`PromiseInv`). A settlement
  beside a reservation may overwrite it, which is a finding; `ReservationsAreBacked` is what
  holds with settlements.

### The workflow engine

* `WorkflowRunProofs`: `RowsStayTyped`; and `StepsStartOnce`, for any number of
  overlapping sessions: a step that some call is going to start has not been started
  and is in the list of one call only (`DispatchedByOne`), which holds because the
  stacks of a session follow the nesting of runs (`SessionFits`), and because a run is
  moved to its next group by the pump alone (`Begun`). `NestingAssumption` says that each sub-workflow
  step creates a run of its own, which the code does by inserting it.
* `WorkflowRunProofs!StepsStartInOrder`: in a running run the groups before the current one are
  over and those after it pending, in the database (`RowsInOrder`) and in the pump's
  copies. What a session has marked running and not yet committed
  (`Unrecorded`) is changed by no other session except to close its run (`Apart`).
  The steps of the engine are reduced to three moves of a session: a commit, the creation
  of a run, and a change the database does not see. `CancelsInOrder` restricts the
  cancels of single steps as the runs do, for the reason given above.
* `WorkflowPipelineProofs!EngineKeepsPipeline`: without overlap the engine
  implements `WorkflowPipeline`. The one session at work knows the database (`ViewFits`) and
  has ended runs only that were running; the groups behind a running run have ended well
  (`RowsGood`). Every action is then a step of the abstract specification or a stutter.

### The edge worker

`ChatGatewayProofs`, for any number of isolates, messages, posts, faults and passes:

* `GatewayStaysTyped`: `TypeOK`, with the counters in their bounds (`RestOK`).
* `MemoryChargesOnce`: of each message an isolate serves one job (`ServedOnce`),
  because what it serves is in its memory (`ServedIsSeen`) unless forgotten, and a
  job whose post is still to come is untouched (`UnpostedIsNew`).
* `RefusedStaysUncharged`: what refused a post still refuses (`RefusesStill`)
  unless a pause was undone, so that a refused job stays before the charge
  (`RefusedIsHeld`).
* `OnePassTellsOnce`: while nothing fails, a promise that leaves its result to the cron pass ends
  without having told it, and the pass that has sent it has it crossed off before it
  lists again (`Told`, `SentIsListed`). `OnePass` is what the platform gives as
  long as a pass ends within its minute; two that overlap repeat a result.

### The web client

`WebClientProofs` states the properties of `WebClient`. A behaviour stays in one
section, so that each proof is about the actions of one component: its invariant
holds initially, every action keeps it, and the theorem lifts it.

* `OwnersRemain`: what has been counted and is not yet written leaves
  another owner (`AnotherOwns`), whom nobody takes away, as it is alone in its
  organization (`CountedAlone`).
* `MarketIsApproved`: what waits for its embedding is pending or
  deleted (`EmbeddedIsOpen`) and no other approval waits for it (`EmbeddedAlone`);
  nobody begins anew with a submission that exists (`CheckedIsNew`).
* `EndpointsAreSingle`: of the agents that are active, inactive or being embedded no two
  have one endpoint, and there are none that the registry's query does not see
  (`EndpointsApart`), as long as no two were added at once, none was marked unavailable or
  suspended, and no settings were saved; settings change an agent that is on the market
  (`SettingsAreOfListed`), so that no deactivation brings one back.
* `PaidOutWasEarned`: a transfer may have been made for any request that is checked,
  recorded or lost. What these claim was earned (`ClaimedWasEarned`), for the
  service checks a request while it has no other in flight (`OneInFlight`), and a
  request whose answer never comes keeps the button waiting.
* `UpvotesAreSummed`: the number a vote is going to write is still the right one
  (`LoadedIsRight`), because no other vote has been read (`LoadedAlone`).
* `ShownKeyIsAccepted`: what an answer will put on the page is
  already the key of the row (`AnswerIsKey`), a generation fails only when the
  account is gone (`FailsWhenGone`), and without a revocation no key is revoked
  (`NeverRevoked`).
* `GoalIsOfPlan`: the goal typed is that of every request under way
  (`UnderWayForGoal`) and of the plan displayed (`DisplayedForGoal`), because a new
  plan is asked for from a plan on display (`ReplansDisplayed`); an approval carries
  the goal of its plan (`ActsForGoal`).
* `SessionIsOneAccounts`: the property is about a page at rest, its invariant
  (`SessionInv`) about what each async function may hold while others run: the
  buttons wait for a sign-in, a logout or a deletion that is under way (`FibersFit`);
  with Firebase every function is for its user, and what is of another is about to
  be replaced by the listener (`FirebaseFits`); with local accounts a sign-in has no
  company but calls (`LocalFits`); a logout has taken Firebase's user and lets
  no token be fetched after it (`LogoutFits`).
* `NothingIsLeft`: the same invariant, where a thread's attempts and those it has
  left add up to two rounds (`SendsFit`), and of the feed that a connection that
  never ended is its page's first one, which leaving closes (`Unbroken`), and that
  a page has one connection at most.

`WebClientScreenProofs` and `WebClientCatchUpProofs` do the same for the three properties
that are conjunctions over several sections; `OpenSections` says that the other
sections rest, and the theorems are `AnswersFitTheorem`, `KeepsWorkTheorem` and
`CatchesUpTheorem`. What each section adds:

* the search box: one search goes on, and it is the one started last (`OneSearch`);
* the wizard: what is known of a token's application is that token's (`IdsMatch`), and a
  creation on its way is the one the sheet shows (`OneIsMade`), unless its history
  has the overlaps the properties name;
* the forms: what is being added is in the registry as it was sent (`SentIsAdded`), and
  what is sent is what is under review (`SentIsReviewed`);
* a crew's report: one run is asked for, over an empty display (`OneRunIsAsked`);
* the task screens: calls are what the screen made them (`CallsFit`), the stream
  is the current task's (`StreamFits`), and one query of a task is heard at a time, so that no
  answer given before the task ended comes after one given later (`OneGet`);
* the editor: one save at a time, of the editor that is open; once it is answered the
  server has what was saved or something newer (`Landed`), and so has the page once the
  save waits no more (`Shown`), because the answers it waits for were asked for after it
  (`Asked`) and a query that is replaced hands on those who wait for it (`Joined`). Loading
  the draft sorts the steps; that saving them and reading them back gives the same
  steps is proved with counts of members (`CountsAdd`, `GroupsStay`), since the order within a group
  is the database's;
* the planner: what is typed is in a sheet that is there, over no creation of a closed one;
* the feed: no event of a task twice, nor in what is stored, every event of a task is of one
  that was created, and what is shown of the last day is what a load of the page
  would show (`FeedInv` and `Reloaded`, in `WebClientProofs`; `PushedOnce` for the list cut
  at its limit); no connection of a page that was left is its own;
* the levels (and not the statuses, whose change is flushed and committed after the answer),
  the tool servers and the channels: until the list is asked for anew, a change that is
  made is still to be heard of (`Unheard`, `Unseen`, `Revoked`); a look that has read holds what is
  there; a server about to be registered is nobody's, so that no grant of it is shown;
* verdicts: what was told and what the next list would tell are no more than the reviews
  that are over (`ToldInv`);
* the lists: an answer that is kept is the one given now (`Kept`), the pages up to the one that
  is open were shown (`Walked`), and every place of a list is taken (`Places`), so that an
  empty page is behind the last one.

`SectionsAreTyped`, at the end of `WebClientCatchUpProofs`, is `TypeOK` of all seventeen
sections: the open one has its types and the others rest (`SectionsTyped`). A
component's `TypeOK` is seldom inductive by itself, so that each section's invariant adds what it
needs, next to the section's other invariants: a record that is read by
its fields is one (`VotersTyped`, `ChannelsTyped`), a change is to a value of its field
(`TablesTyped`), an answer counts no more entries than there are (`ListsTyped`), a plan is
asked for and run with a goal that was typed (`PlannerTyped`), an event told is of a task there is
(`FeedAllTyped`), and whatever holds steps holds a sequence of steps, their groups
numbered without a bound (`EditorTyped`; `Highest` gives the group a new step opens). Like
`PaidOutWasEarned` it assumes a finite set of payout requests, whose amounts are summed.

### Sums

`SumFunctionOnSet` is defined by a recursive function over the subsets of a set. The
induction theorems of the library take an operator and cannot be used here;
`SumTheorems` has an induction over the subsets of a finite set in its place
(`SubsetInduction`, by a smallest counterexample), shows with it that the
recursive function exists and is unique (`IterateExists`, `IteratesAgree`), and
derives what the other modules use: a sum without or with one member, after one
change, of zeros, of a constant, of a subset, and its order.

### Only model-checked

* Liveness (`SubmittedIsDecided`, `RunEnds`, `ChargedIsAnswered`, `LoadingEnds`,
  `EndReachesScreen`), out of TLAPS's reach with ENABLED.

## 5. Not modelled

* **Scheduler** (`services/scheduler.py`): what a schedule does when it is due, the
  pause after failures, and the inner commits that give up its row locks while it
  is at work. The pages that make, toggle and delete schedules are in `Planner`;
  the worker is the next module to write.
* **Health monitor, circuit breaker**: what the monitor makes of a status is in
  `AgentForms`; how many failures it takes, wake probes, the bulk reactivation and the breaker are
  not. For the broker they only refuse a request before it changes anything.
* **Rate limiter, abuse detector**: counters with a window, in Redis or in memory; a
  refused request is one that is not made here. The worker's own limiter is in
  `ChatGateway`.
* **Stripe's webhook** (`api/billing.py:289`): one select and one insert; that two
  deliveries at once pass it is listed as a hazard.
* **Purchase, bonus and the daily limit** of the ledger, the settlement of custom
  agents, ratings, reputation and evaluation. They change accounts and statistics
  by further operations of the kind `ChargeCommit` is, and would share its races.
* **Edits of a workflow in flight** (`workflow_service.py:212`): listed as a hazard;
  the new steps have ids for which the run in flight has no step runs.
* **Guest trial, supervisor planner, language-model access**: one request to a model
  each; what a plan may contain is nondeterministic in `Planner`.
* **Authentication, encryption, discovery and crews of the service**: stateless, or
  rows that their owner alone writes.
* **The Python gateway** (`gateway/`): superseded by the edge worker.
* **Application lifespan**: starts the loops that appear as actions of their
  components.
* **Static pages, charts, vendored components of the client; desktop, SDK, demo
  agents**: text and layout, a shell, a library of calls and examples.
* External services - Stripe, Firebase, chat platforms, facilitators, agents -
  appear as the answers they may give.
