---------------------------- MODULE ChatGateway ----------------------------
(***************************************************************************)
(* The edge worker that connects a chat channel to the marketplace         *)
(* (cloudflare/gateway-worker.js): the platform posts webhooks, possibly   *)
(* more than once and to any isolate; an isolate remembers in memory what  *)
(* it has seen; a background promise per admitted message charges the      *)
(* owner, creates a task or a workflow run, polls it for 25 s and answers; *)
(* a cron pass every minute is to deliver what the polls have missed.      *)
(*                                                                         *)
(* channel.backend says what the marketplace makes of the worker's calls:  *)
(*   "deployed"  as src/api of this commit does: /gateway/log-message      *)
(*               rejects the worker's messages, /channels/ refuses its     *)
(*               key, and a created run is not called run_id;              *)
(*   "expected"  as the worker takes for granted: messages are recorded,   *)
(*               an outbound one takes the system message it answers away, *)
(*               and the cron pass may read both.                          *)
(***************************************************************************)
EXTENDS Naturals, FiniteSets, Functions

CONSTANTS Messages,    \* messages of one user, each with an id of the platform
          Flows,       \* those that start a workflow; the others ask the agent
          Platforms,   \* what the channel may be on
          Isolates,    \* copies of the worker, each with its own memory
          NoIsolate,
          Passes,      \* cron passes that may overlap
          Backends,    \* what the marketplace makes of the worker's calls
          MaxPosts,    \* webhooks in all: messages, redeliveries, edits
          MaxRequests, \* messages of a user admitted in a window
          SeenLimit,   \* entries after which expired ones are removed
          MaxEvents,   \* calls that throw, isolates recycled, changes by the owner
          MaxTold      \* cap on the count of equal answers

ASSUME GatewayAssumption ==
    /\ Flows \subseteq Messages
    /\ Platforms \subseteq {"telegram", "slack", "discord"}
    /\ NoIsolate \notin Isolates
    /\ Backends \subseteq {"deployed", "expected"}
    /\ {MaxPosts, MaxRequests, SeenLimit, MaxEvents, MaxTold} \subseteq Nat

VARIABLES channel,  \* the connection's row, and whether a heartbeat has undone a pause
          posts,    \* webhooks the platform has posted for a message
          memory,   \* of each isolate: dedupSeen and the hits in rateLimits
          job,      \* the handler and the promise of each post
          refused,  \* history: posted while the channel was paused or the user blocked
          charged,  \* jobs the owner has paid a credit for
          work,     \* the status of the task or run a job has created
          stored,   \* jobs with a system message: to be delivered by the cron pass
          logged,   \* jobs with an outbound message
          told,     \* what the user has been sent for a job
          pass,     \* cron passes
          forgot,   \* history: messages some isolate no longer remembers
          faults, owner

jobVars == <<job, charged, work, stored, logged, told>>
envVars == <<posts, refused, forgot, owner>>
vars == <<channel, memory, pass, faults, jobVars, envVars>>

-----------------------------------------------------------------------------
Jobs == Messages \X (1 .. MaxPosts)
IsFlow(j) == j[1] \in Flows
Ended == {"ended", "canceled"}    \* "ended" is completed or failed
Points == {"none", "hook", "hookwake", "load", "wake", "wakeblocked", "charge", "create",
           "poll", "tell", "note", "store", "done", "dropped"}
Running == Points \ {"none", "done", "dropped"}

(* Types of the variables. *)
TypeOK ==
    /\ channel \in [platform: Platforms, backend: Backends,
                    status: {"pending", "active", "paused"}, blocked: BOOLEAN, undone: BOOLEAN]
    /\ posts \in [Messages -> 0 .. MaxPosts]
    /\ memory \in [Isolates -> [seen: [Messages -> {"none", "fresh", "old"}], hits: Nat]]
    /\ job \in [Jobs -> [at: Points, on: Isolates \cup {NoIsolate}]]
    /\ work \in [Jobs -> Ended \cup {"none", "open"}]
    /\ {refused, charged, stored, logged} \subseteq SUBSET Jobs
    /\ told \in [Jobs -> [error: BOOLEAN, late: BOOLEAN, ack: BOOLEAN, result: 0 .. MaxTold]]
    /\ pass \in [Passes -> [at: {"idle", "tasks", "runs"}, todo: SUBSET Jobs, sent: SUBSET Jobs]]
    /\ forgot \in SUBSET Messages
    /\ faults \in 0 .. MaxEvents
    /\ owner \in 0 .. MaxEvents

NothingSeen == [seen |-> [m \in Messages |-> "none"], hits |-> 0]
NothingTold == [error |-> FALSE, late |-> FALSE, ack |-> FALSE, result |-> 0]
IdlePass == [at |-> "idle", todo |-> {}, sent |-> {}]

Init ==
    /\ channel \in [platform: Platforms, backend: Backends, status: {"pending", "active"},
                    blocked: {FALSE}, undone: {FALSE}]
    /\ posts = [m \in Messages |-> 0]
    /\ memory = [i \in Isolates |-> NothingSeen]
    /\ job = [j \in Jobs |-> [at |-> "none", on |-> NoIsolate]]
    /\ work = [j \in Jobs |-> "none"]
    /\ refused = {} /\ charged = {} /\ stored = {} /\ logged = {} /\ forgot = {}
    /\ told = [j \in Jobs |-> NothingTold]
    /\ pass = [p \in Passes |-> IdlePass]
    /\ faults = 0 /\ owner = 0

-----------------------------------------------------------------------------
(* Faults. A call that throws ends a promise: nobody catches it, and the   *)
(* platform has its answer already. The effect may have happened.          *)

Fault == faults + owner < MaxEvents /\ faults' = faults + 1

\* After a call, promise j goes on at point `at`, or the call has thrown.
Proceed(j, at) ==
    \/ job' = [job EXCEPT ![j].at = at] /\ UNCHANGED faults
    \/ job' = [job EXCEPT ![j].at = "dropped"] /\ Fault

Throw(j) ==
    /\ job[j].at \in Running \ {"poll"}    \* the polls catch what they throw
    /\ Fault
    /\ job' = [job EXCEPT ![j].at = "dropped"]
    /\ UNCHANGED <<channel, memory, pass, charged, work, stored, logged, told, envVars>>

\* An isolate is recycled: its maps and its promises are gone.
Recycle(i) ==
    /\ Fault
    /\ memory[i] # NothingSeen \/ \E j \in Jobs : job[j].on = i /\ job[j].at \in Running
    /\ memory' = [memory EXCEPT ![i] = NothingSeen]
    /\ forgot' = forgot \cup {m \in Messages : memory[i].seen[m] # "none"}
    /\ job' = [j \in Jobs |-> IF job[j].on = i /\ job[j].at \in Running
                              THEN [job[j] EXCEPT !.at = "dropped"] ELSE job[j]]
    /\ UNCHANGED <<channel, pass, charged, work, stored, logged, told, posts, refused, owner>>

-----------------------------------------------------------------------------
(* The memory of an isolate                                                *)

IsDuplicate(i, m) == memory[i].seen[m] = "fresh"

\* Mutant of Remember: the entry is noted with a time in seconds, so that it is old at once.
RememberInSeconds(seen, m) == [seen EXCEPT ![m] = "old"]

\* dedupSeen.set, and the removal of expired entries from a map grown too large.
Remember(seen, m) ==
    LET noted == [seen EXCEPT ![m] = "fresh"]
    IN  IF Cardinality({x \in Messages : noted[x] # "none"}) > SeenLimit
        THEN [x \in Messages |-> IF noted[x] = "old" THEN "none" ELSE noted[x]]
        ELSE noted

\* The hit is counted whether or not it is over the limit.
IsRateLimited(i) == memory[i].hits + 1 > MaxRequests

\* A verified message: a duplicate is dropped, then (but not on Discord) what is over
\* the limit, and a promise is started for the rest.
Admit(j, i) ==
    LET limits == channel.platform # "discord"
        at == IF IsDuplicate(i, j[1]) \/ (limits /\ IsRateLimited(i)) THEN "done" ELSE "load"
    IN  /\ job' = [job EXCEPT ![j] = [at |-> at, on |-> i]]
        /\ memory' = IF IsDuplicate(i, j[1]) THEN memory
                     ELSE [memory EXCEPT ![i].seen = Remember(@, j[1]),
                                         ![i].hits = IF limits THEN @ + 1 ELSE @]

\* Mutant of Expire: a hit is taken off although there is none.
ExpireAnyHit(i) ==
    /\ memory' = [memory EXCEPT ![i].hits = @ - 1]
    /\ UNCHANGED <<forgot, channel, pass, faults, jobVars, posts, refused, owner>>

\* An entry of dedupSeen counts for 300 s, a hit for 60 s.
Expire(i) ==
    /\ \/ \E m \in Messages :
            /\ IsDuplicate(i, m)
            /\ memory' = [memory EXCEPT ![i].seen[m] = "old"]
            /\ forgot' = forgot \cup {m}
       \/ /\ memory[i].hits > 0
          /\ memory' = [memory EXCEPT ![i].hits = @ - 1]
          /\ UNCHANGED forgot
    /\ UNCHANGED <<channel, pass, faults, jobVars, posts, refused, owner>>

-----------------------------------------------------------------------------
(* The owner changes the channel on the dashboard.                         *)

Refusing(ch) == ch.blocked \/ ch.status = "paused"

OwnerChanges ==
    /\ faults + owner < MaxEvents
    /\ owner' = owner + 1
    /\ \/ \E s \in {"active", "paused"} \ {channel.status} :
            channel' = [channel EXCEPT !.status = s]
       \/ channel' = [channel EXCEPT !.blocked = ~@]
    /\ refused' = IF Refusing(channel') THEN refused ELSE {}
    /\ UNCHANGED <<memory, pass, faults, jobVars, posts, forgot>>

\* A heartbeat sets the status, whatever it is by now.
Activated == channel' = [channel EXCEPT !.status = "active",
                                        !.undone = @ \/ channel.status = "paused"]

-----------------------------------------------------------------------------
(* Webhooks                                                                *)

\* The handlers of Telegram and Discord go from the request to the answer without
\* reading anything that matters; the one of Slack looks at the channel first.
Post(m, i) ==
    LET j == <<m, posts[m] + 1>> IN
    /\ SumFunctionOnSet(posts, Messages) < MaxPosts
    /\ posts' = [posts EXCEPT ![m] = @ + 1]
    /\ refused' = IF Refusing(channel) THEN refused \cup {j} ELSE refused
    /\ IF channel.platform = "slack"
       THEN job' = [job EXCEPT ![j] = [at |-> "hook", on |-> i]] /\ UNCHANGED memory
       ELSE Admit(j, i)
    /\ UNCHANGED <<channel, pass, faults, charged, work, stored, logged, told, forgot, owner>>

SlackHook(j) ==
    /\ \/ /\ job[j].at = "hook" /\ channel.status = "pending"
          /\ job' = [job EXCEPT ![j].at = "hookwake"]
          /\ UNCHANGED <<channel, memory>>
       \/ /\ job[j].at = "hook" /\ channel.status = "paused"
          /\ job' = [job EXCEPT ![j].at = "done"]
          /\ UNCHANGED <<channel, memory>>
       \/ job[j].at = "hook" /\ channel.status = "active" /\ Admit(j, job[j].on) /\ UNCHANGED channel
       \/ job[j].at = "hookwake" /\ Activated /\ Admit(j, job[j].on)
    /\ UNCHANGED <<pass, faults, charged, work, stored, logged, told, envVars>>

-----------------------------------------------------------------------------
(* The promise of an admitted message                                      *)

Tells(j, field) == told' = [told EXCEPT ![j][field] = TRUE]
TellsResult(j) == told' = [told EXCEPT ![j].result = IF @ < MaxTold THEN @ + 1 ELSE @]

\* Mutant of Load: the user's block is not looked at.
LoadUnlessPaused(j) ==
    /\ job[j].at = "load"
    /\ \/ channel.status = "pending" /\ Proceed(j, "wake")
       \/ channel.status = "active" /\ Proceed(j, "charge")
       \/ channel.status = "paused" /\ Proceed(j, "done")
    /\ UNCHANGED <<told, channel, memory, pass, charged, work, stored, logged, envVars>>

\* getConnection: what is decided here is decided on the row as it is now. A workflow
\* is looked up before the user's block.
Load(j) ==
    /\ job[j].at = "load"
    /\ \/ /\ channel.status # "paused"
          /\ \/ ~ channel.blocked /\ Proceed(j, IF channel.status = "pending" THEN "wake" ELSE "charge")
             \/ channel.blocked /\ Proceed(j, IF channel.status = "pending" THEN "wakeblocked" ELSE "done")
          /\ UNCHANGED told
       \/ channel.status = "paused" /\ Proceed(j, "done") /\ UNCHANGED told
       \/ channel.status = "active" /\ IsFlow(j) /\ Tells(j, "error") /\ Proceed(j, "done")
    /\ UNCHANGED <<channel, memory, pass, charged, work, stored, logged, envVars>>

Wake(j) ==
    /\ job[j].at \in {"wake", "wakeblocked"}
    /\ Activated
    /\ Proceed(j, IF job[j].at = "wake" THEN "charge" ELSE "done")
    /\ UNCHANGED <<memory, pass, charged, work, stored, logged, told, envVars>>

\* The charge is made before there is anything to pay for, and never returned.
Charge(j) ==
    /\ job[j].at = "charge"
    /\ \/ charged' = charged \cup {j} /\ Proceed(j, "create") /\ UNCHANGED told
       \/ Tells(j, "error") /\ Proceed(j, "done") /\ UNCHANGED charged
    /\ UNCHANGED <<channel, memory, pass, work, stored, logged, envVars>>

Create(j) ==
    /\ job[j].at = "create"
    /\ \/ work' = [work EXCEPT ![j] = "open"] /\ Proceed(j, "poll") /\ UNCHANGED told
       \/ Tells(j, "error") /\ Proceed(j, "done") /\ UNCHANGED work
    /\ UNCHANGED <<channel, memory, pass, charged, stored, logged, envVars>>

WorkEnds(j) ==
    /\ work[j] = "open"
    /\ \E s \in Ended : work' = [work EXCEPT ![j] = s]
    /\ UNCHANGED <<channel, memory, pass, faults, job, charged, stored, logged, told, envVars>>

\* The id of a run is read from a field the backend does not send.
PollSees(j) ==
    /\ job[j].at = "poll"
    /\ work[j] \in Ended
    /\ IsFlow(j) => channel.backend = "expected"
    /\ job' = [job EXCEPT ![j].at = "tell"]
    /\ UNCHANGED <<channel, memory, pass, faults, charged, work, stored, logged, told, envVars>>

\* Mutant of PollGivesUp: a question is given up without leaving it to the cron pass.
PollGivesUpQuietly(j) ==
    /\ job[j].at = "poll"
    /\ \/ IsFlow(j) /\ Tells(j, "ack") /\ Proceed(j, "store")
       \/ ~ IsFlow(j) /\ channel.platform = "discord" /\ Tells(j, "late") /\ Proceed(j, "note")
       \/ /\ ~ IsFlow(j) /\ channel.platform # "discord"
          /\ job' = [job EXCEPT ![j].at = "done"]
          /\ UNCHANGED <<told, faults>>
    /\ UNCHANGED <<channel, memory, pass, charged, work, stored, logged, envVars>>

\* After 25 s. Discord's deferred response to a question is spent on a regret, logged as
\* its answer; a workflow is acknowledged and left to the cron pass, as a question of
\* another platform is without a word.
PollGivesUp(j) ==
    /\ job[j].at = "poll"
    /\ \/ IsFlow(j) /\ Tells(j, "ack") /\ Proceed(j, "store")
       \/ ~ IsFlow(j) /\ channel.platform = "discord" /\ Tells(j, "late") /\ Proceed(j, "note")
       \/ /\ ~ IsFlow(j) /\ channel.platform # "discord"
          /\ job' = [job EXCEPT ![j].at = "store"]
          /\ UNCHANGED <<told, faults>>
    /\ UNCHANGED <<channel, memory, pass, charged, work, stored, logged, envVars>>

\* Mutant of Tell: the message logged after an answer is a system message.
TellAndStore(j) ==
    /\ job[j].at = "tell"
    /\ TellsResult(j)
    /\ Proceed(j, "store")
    /\ UNCHANGED <<channel, memory, pass, charged, work, stored, logged, envVars>>

Tell(j) ==
    /\ job[j].at = "tell"
    /\ TellsResult(j)
    /\ Proceed(j, "note")
    /\ UNCHANGED <<channel, memory, pass, charged, work, stored, logged, envVars>>

\* logMessage: the response is not looked at.
Recorded(table, j) == IF channel.backend = "expected" THEN table \cup {j} ELSE table

Note(j) ==
    /\ job[j].at = "note"
    /\ logged' = Recorded(logged, j)
    /\ Proceed(j, "done")
    /\ UNCHANGED <<channel, memory, pass, charged, work, stored, told, envVars>>

Store(j) ==
    /\ job[j].at = "store"
    /\ stored' = Recorded(stored, j)
    /\ Proceed(j, "done")
    /\ UNCHANGED <<channel, memory, pass, charged, work, logged, told, envVars>>

-----------------------------------------------------------------------------
(* The cron pass                                                           *)

\* Without the list of channels a pass ends where it begins. Questions on Discord are
\* skipped, and so is a system message of a workflow, which names no task.
PendingTasks == IF channel.status = "active" /\ channel.platform # "discord"
                THEN {j \in stored : ~ IsFlow(j)} ELSE {}

\* Runs that have ended (a canceled one is not asked for) and have no outbound message.
PendingRuns == {j \in Jobs : IsFlow(j) /\ work[j] = "ended" /\ j \notin logged}

Listed(at, todo) == [at |-> at, todo |-> todo, sent |-> {}]

\* A pass goes through the tasks, then through the runs; a pass that would find nothing
\* is left out.
PassBegin(p) ==
    /\ channel.backend = "expected"
    /\ pass[p] = IdlePass
    /\ \/ /\ PendingTasks # {}
          /\ pass' = [pass EXCEPT ![p] = Listed("tasks", PendingTasks)]
       \/ /\ PendingTasks = {} /\ PendingRuns # {}
          /\ pass' = [pass EXCEPT ![p] = Listed("runs", PendingRuns)]
    /\ UNCHANGED <<channel, memory, faults, jobVars, envVars>>

\* The pass after the last of its list: it fetches the runs, or ends.
Rest(p, j) ==
    LET rest == pass[p].todo \ {j} IN
    IF rest # {} THEN [pass[p] EXCEPT !.todo = rest, !.sent = {}]
    ELSE IF pass[p].at = "tasks" /\ PendingRuns # {}
         THEN Listed("runs", PendingRuns)
         ELSE IdlePass

PassSkip(p, j) ==
    /\ pass[p].sent = {}
    /\ j \in pass[p].todo
    /\ \/ work[j] \notin Ended /\ UNCHANGED faults
       \/ Fault
    /\ pass' = [pass EXCEPT ![p] = Rest(p, j)]
    /\ UNCHANGED <<channel, memory, jobVars, envVars>>

PassSend(p, j) ==
    /\ pass[p].sent = {}
    /\ j \in pass[p].todo
    /\ work[j] \in Ended
    /\ TellsResult(j)
    /\ pass' = [pass EXCEPT ![p].sent = {j}]
    /\ UNCHANGED <<channel, memory, faults, job, charged, work, stored, logged, envVars>>

\* The outbound message, or the exception that takes its place: then the next pass sends
\* the result again.
PassLog(p, j) ==
    /\ j \in pass[p].sent
    /\ pass' = [pass EXCEPT ![p] = Rest(p, j)]
    /\ \/ logged' = logged \cup {j} /\ stored' = stored \ {j} /\ UNCHANGED faults
       \/ Fault /\ UNCHANGED <<logged, stored>>
    /\ UNCHANGED <<channel, memory, job, charged, work, told, envVars>>

-----------------------------------------------------------------------------
PromiseStep(j) == \/ SlackHook(j) \/ Load(j) \/ Wake(j) \/ Charge(j) \/ Create(j) \/ PollSees(j)
                  \/ PollGivesUp(j) \/ Tell(j) \/ Note(j) \/ Store(j)
PassStep(p) == \/ PassBegin(p)
               \/ \E j \in Jobs : PassSkip(p, j) \/ PassSend(p, j) \/ PassLog(p, j)

Next == \/ \E j \in Jobs : PromiseStep(j) \/ Throw(j) \/ WorkEnds(j)
        \/ \E i \in Isolates : Expire(i) \/ Recycle(i) \/ \E m \in Messages : Post(m, i)
        \/ \E p \in Passes : PassStep(p)
        \/ OwnerChanges

Spec == Init /\ [][Next]_vars

\* The runtime goes on with promises and keeps the schedule of the cron trigger.
FairSpec == /\ Spec
            /\ \A j \in Jobs : WF_vars(PromiseStep(j))
            /\ \A p \in Passes : WF_vars(PassStep(p))

-----------------------------------------------------------------------------
(* An isolate that remembers a message does not let it be charged again,   *)
(* however often the platform posts it: isDuplicate, with the removal of   *)
(* old entries and the rate limit behind it.                               *)
ChargedOncePerMemory ==
    \A j, k \in charged : j[1] = k[1] /\ job[j].on = job[k].on => j = k \/ j[1] \in forgot

(* What arrives while the user is blocked or the channel paused is not     *)
(* charged, unless a message that found the channel pending has activated  *)
(* it over the owner's pause (Activated).                                  *)
RefusedIsNotServed == refused \cap charged # {} => channel.undone

(* The result of a question reaches the user once: the poll tells it or    *)
(* leaves it to the cron pass, and a pass does not repeat what one before  *)
(* it has sent.  Passes that overlap do: each sends what both have listed. *)
ResultIsToldOnce ==
    faults = 0 => \A j \in Jobs : ~ IsFlow(j) => told[j].result <= 1

(* Whoever has been charged gets an answer, by the poll or by the cron     *)
(* pass ("polling for up to 25s, then cron takes over"), once the work has *)
(* ended, unless the promise was lost or the channel is paused, if the     *)
(* marketplace answers the worker's calls as the worker expects: at this   *)
(* commit it does not. A run that is canceled after the poll is not told.  *)
Answered(j) == told[j].error \/ told[j].late \/ told[j].result > 0

ChargedIsAnswered ==
    \A j \in Jobs :
        (work[j] = "ended" \/ (work[j] = "canceled" /\ ~ IsFlow(j)))
            ~> \/ Answered(j) \/ job[j].at = "dropped" \/ channel.status = "paused"
               \/ channel.backend = "deployed"
=============================================================================
