----------------------------- MODULE TaskConsole -----------------------------
(***************************************************************************)
(* A user and a task on the web client: the form that creates it           *)
(* (dashboard/tasks/new/page.tsx), the page that follows it                *)
(* (dashboard/tasks/[id]/task-detail-client.tsx, hooks/use-tasks.ts) and   *)
(* the panel of an agent's page that does both (try-agent-panel.tsx,       *)
(* hooks/use-task-stream.ts). What they show is a copy of the server's     *)
(* state, refreshed by polling, by invalidation or by a stream.            *)
(*                                                                         *)
(* A call is on its way to the server, or its answer is on the way back;   *)
(* the API client sends one again when it has lost the answer, and nobody  *)
(* hears the answer to a call of a page that has been left.                *)
(***************************************************************************)
EXTENDS Naturals, FiniteSets

CONSTANTS Tasks,       \* the ids the server has to give
          NoTask,
          Agents,
          NoAgent,
          Skills,      \* [Agents -> SUBSET ids]
          NoSkill,
          Link,        \* the agent and the skill of a link to the form
          Calls,       \* calls that may be in progress at once
          Screens,     \* of "form", "page", "polled" and "streamed", the panel's two kinds
          MaxRetries,  \* the API client's
          MaxClicks,   \* of each screen: what the user has done by then, besides choosing
          MaxFaults    \* answers lost, streams broken

ConsoleAssumption ==
    /\ NoTask \notin Tasks /\ NoAgent \notin Agents
    /\ Link = [agent |-> Link.agent, skill |-> Link.skill] /\ Link.agent \in Agents
    /\ \A a \in Agents : NoSkill \notin Skills[a]
    /\ Screens \subseteq {"form", "page", "polled", "streamed"}
    /\ {MaxRetries, MaxFaults} \subseteq Nat
    /\ MaxClicks \in [{"form", "page", "polled", "streamed"} -> Nat]

VARIABLES task,    \* the server's tasks
          madeFor, \* what the server was asked to do in a task
          screen,
          form,    \* what the form has selected
          current, \* the task on the screen
          cache,   \* what the client last heard of a task, and whether hearing failed
          stream,
          call,
          toast,   \* the task whose creation may be undone, and the ones about to be visited
          said,    \* tasks the user was told are canceled
          cut,     \* those whose cancel was on its way when the page was left
          clicks, faults

server == <<task, madeFor>>
client == <<screen, form, current, cache, stream, toast, said, cut>>
vars == <<server, client, call, clicks, faults>>

-----------------------------------------------------------------------------
Ended == {"completed", "failed", "canceled"}
Statuses == Ended \cup {"none", "submitted", "pending_approval", "working", "input_required"}
Panel == {"polled", "streamed"}
AllSkills == {NoSkill, Link.skill} \cup UNION {Skills[a] : a \in Agents}
Selections == [agent: Agents \cup {NoAgent}, skill: AllSkills]

TypeOK ==
    /\ task \in [Tasks -> Statuses]
    /\ madeFor \in [Tasks -> Selections]
    /\ screen \in Screens \cup {"page"}
    /\ form \in [agent: Agents \cup {NoAgent}, skill: AllSkills, loaded: BOOLEAN]
    /\ current \in Tasks \cup {NoTask}
    /\ cache \in [Tasks -> [status: Statuses, failed: BOOLEAN]]
    /\ stream \in [of: Tasks \cup {NoTask}, on: BOOLEAN, done: BOOLEAN, text: SUBSET Tasks,
                   ended: Tasks \cup {NoTask}]
    /\ call \in [Calls -> [kind: {"none", "create", "get", "cancel", "confirm"},
                           task: Tasks \cup {NoTask}, with: Selections, tries: 0 .. MaxRetries,
                           at: {"none", "sent", "answered"}, answer: Statuses \cup {"error"},
                           heard: BOOLEAN]]
    /\ toast \in [undo: Tasks \cup {NoTask}, visit: SUBSET Tasks]
    /\ said \in SUBSET Tasks /\ cut \in SUBSET Tasks
    /\ clicks \in Nat /\ faults \in 0 .. MaxFaults

Nothing == [agent |-> NoAgent, skill |-> NoSkill]
NoForm == [agent |-> NoAgent, skill |-> NoSkill, loaded |-> FALSE]
NoCall == [kind |-> "none", task |-> NoTask, with |-> Nothing, tries |-> 0, at |-> "none",
           answer |-> "none", heard |-> FALSE]
NoCache == [t \in Tasks |-> [status |-> "none", failed |-> FALSE]]
NoStream == [of |-> NoTask, on |-> FALSE, done |-> FALSE, text |-> {}, ended |-> NoTask]
NoToast == [undo |-> NoTask, visit |-> {}]

\* The form may be opened by a link that names an agent and a skill; a page, on a task.
Init ==
    /\ screen \in Screens
    /\ current \in IF screen = "page" THEN Tasks ELSE {NoTask}
    /\ task = [t \in Tasks |-> IF t = current THEN "submitted" ELSE "none"]
    /\ madeFor = [t \in Tasks |-> Nothing]
    /\ form \in {NoForm} \cup IF screen = "form"
                              THEN {[agent |-> Link.agent, skill |-> Link.skill, loaded |-> FALSE]} ELSE {}
    /\ cache = NoCache /\ stream = NoStream /\ toast = NoToast
    /\ call = [c \in Calls |-> NoCall]
    /\ said = {} /\ cut = {} /\ clicks = 0 /\ faults = 0

Click == clicks < MaxClicks[screen] /\ clicks' = clicks + 1
Fault == faults < MaxFaults /\ faults' = faults + 1
Idle(c) == call[c].kind = "none"
SetCall(c, r) == call' = [call EXCEPT ![c] = r]
NewCall(kind, t) == [NoCall EXCEPT !.kind = kind, !.task = t, !.at = "sent", !.heard = TRUE]
Pending(kind) == \E c \in Calls : call[c].kind = kind /\ call[c].heard
Gets(c, t) == call[c].kind = "get" /\ call[c].task = t /\ call[c].heard

-----------------------------------------------------------------------------
(* The server, as TaskBroker has it: what it makes of a call, and a task's *)
(* own progress.                                                           *)

Effect(c, t) ==
    LET s == call[c].kind IN
    CASE s = "create" ->
           /\ task[t] = "none"
           /\ \E new \in {"submitted", "pending_approval"} : task' = [task EXCEPT ![t] = new]
           /\ madeFor' = [madeFor EXCEPT ![t] = call[c].with]
      [] s = "get" -> t = call[c].task /\ UNCHANGED server
      [] s = "cancel" ->
           /\ t = call[c].task
           /\ task' = IF task[t] \in Ended THEN task ELSE [task EXCEPT ![t] = "canceled"]
           /\ UNCHANGED madeFor
      [] s = "confirm" ->
           /\ t = call[c].task
           /\ task' = IF task[t] = "pending_approval" THEN [task EXCEPT ![t] = "submitted"] ELSE task
           /\ UNCHANGED madeFor

\* Canceling what has ended, and confirming what does not wait for it, is an error.
Refused(c, t) == \/ call[c].kind = "cancel" /\ task[t] \in Ended
                 \/ call[c].kind = "confirm" /\ task[t] # "pending_approval"

Serve(c, t) ==
    /\ call[c].at = "sent"
    /\ Effect(c, t)
    /\ IF call[c].heard
       THEN SetCall(c, [call[c] EXCEPT !.at = "answered", !.task = t,
                            !.answer = IF Refused(c, t) THEN "error" ELSE task'[t]])
       ELSE SetCall(c, NoCall)
    /\ UNCHANGED <<client, clicks, faults>>

\* The answer is lost, with or without the effect: the client asks again, or gives up.
LoseAnswer(c) ==
    /\ call[c].at = "sent"
    /\ Fault
    /\ UNCHANGED server \/ \E t \in Tasks : Effect(c, t)
    /\ SetCall(c, IF ~ call[c].heard THEN NoCall
                  ELSE IF call[c].tries < MaxRetries THEN [call[c] EXCEPT !.tries = @ + 1]
                  ELSE [call[c] EXCEPT !.at = "answered", !.answer = "error"])
    /\ UNCHANGED <<client, clicks>>

TaskRuns(t) ==
    /\ \/ task[t] = "submitted" /\ task' = [task EXCEPT ![t] = "working"]
       \/ /\ task[t] \in {"working", "input_required"}
          /\ \E s \in {"input_required", "completed", "failed"} \ {task[t]} :
                task' = [task EXCEPT ![t] = s]
    /\ UNCHANGED <<madeFor, client, call, clicks, faults>>

-----------------------------------------------------------------------------
(* The form                                                                *)

\* Another agent, or none: no skill is selected.
Reselect(a) == [agent |-> a, skill |-> NoSkill, loaded |-> FALSE]

SelectAgent(a) ==
    /\ screen = "form" /\ form.agent = NoAgent
    /\ form' = Reselect(a)
    /\ UNCHANGED <<server, screen, current, cache, stream, toast, said, cut, call, clicks, faults>>

ClearAgent ==
    /\ screen = "form" /\ form.agent # NoAgent
    /\ form' = Reselect(NoAgent)
    /\ UNCHANGED <<server, screen, current, cache, stream, toast, said, cut, call, clicks, faults>>

\* The agent is there: its only skill is selected, one of several is not.
AgentLoads ==
    /\ screen = "form" /\ form.agent # NoAgent /\ ~ form.loaded
    /\ \E s \in AllSkills :
          /\ IF Cardinality(Skills[form.agent]) = 1 THEN s \in Skills[form.agent]
             ELSE s = IF Skills[form.agent] = {} THEN NoSkill ELSE form.skill
          /\ form' = [form EXCEPT !.loaded = TRUE, !.skill = s]
    /\ UNCHANGED <<server, screen, current, cache, stream, toast, said, cut, call, clicks, faults>>

SelectSkill ==
    /\ screen = "form" /\ form.loaded
    /\ \E s \in Skills[form.agent] : form' = [form EXCEPT !.skill = s]
    /\ UNCHANGED <<server, screen, current, cache, stream, toast, said, cut, call, clicks, faults>>

\* The button is off while a create is pending, and on again in the second in which the
\* toast of the last one shows.
Submit(c) ==
    /\ Click
    /\ screen = "form" /\ form.agent # NoAgent /\ form.skill # NoSkill
    /\ ~ Pending("create") /\ Idle(c)
    /\ SetCall(c, [NewCall("create", NoTask) EXCEPT !.with = [agent |-> form.agent, skill |-> form.skill]])
    /\ UNCHANGED <<server, client, faults>>

\* Success is claimed before the server knows.
Undo(c) ==
    /\ screen = "form" /\ toast.undo # NoTask /\ Idle(c)
    /\ SetCall(c, NewCall("cancel", toast.undo))
    /\ said' = said \cup {toast.undo}
    /\ toast' = [toast EXCEPT !.undo = NoTask]
    /\ UNCHANGED <<server, screen, form, current, cache, stream, cut, clicks, faults>>

\* A page load: nothing of the page that is left remains, but calls already sent arrive.
Leave(t) ==
    /\ screen' = "page" /\ current' = t
    /\ form' = NoForm /\ cache' = NoCache /\ stream' = NoStream /\ toast' = NoToast
    /\ cut' = cut \cup {call[c].task : c \in {x \in Calls : call[x].kind = "cancel"}}
    /\ call' = [c \in Calls |-> IF call[c].at = "sent" THEN [call[c] EXCEPT !.heard = FALSE] ELSE NoCall]
    /\ UNCHANGED said

\* A second after the answer, toast or no toast.
Visit(t) ==
    /\ t \in toast.visit
    /\ Leave(t)
    /\ UNCHANGED <<server, clicks, faults>>

\* A call nobody waits for need not have reached the server.
Aborted(c) ==
    /\ ~ Idle(c) /\ ~ call[c].heard
    /\ SetCall(c, NoCall)
    /\ UNCHANGED <<server, client, clicks, faults>>

-----------------------------------------------------------------------------
(* Queries                                                                 *)

Watches(t) == t = current /\ screen \in {"page", "polled"}

\* Mutant of Poll: a task that waits for input or approval is not asked about.
PollWorking(c) ==
    /\ current # NoTask /\ Watches(current)
    /\ ~ cache[current].failed /\ cache[current].status \in {"none", "submitted", "working"}
    /\ ~ \E x \in Calls : Gets(x, current)
    /\ Idle(c)
    /\ SetCall(c, NewCall("get", current))
    /\ UNCHANGED <<server, client, clicks, faults>>

\* useTask: at once, then every 5 s, until the task has ended or a query has failed.
Poll(c) ==
    /\ current # NoTask /\ Watches(current)
    /\ ~ cache[current].failed /\ cache[current].status \notin Ended
    /\ ~ \E x \in Calls : Gets(x, current)
    /\ Idle(c)
    /\ SetCall(c, NewCall("get", current))
    /\ UNCHANGED <<server, client, clicks, faults>>

\* The browser is back online.
Reconnect(c) ==
    /\ current # NoTask /\ Watches(current) /\ cache[current].failed
    /\ ~ \E x \in Calls : Gets(x, current)
    /\ Idle(c)
    /\ SetCall(c, NewCall("get", current))
    /\ UNCHANGED <<server, client, clicks, faults>>

\* What calls becomes when a mutation of t succeeds in c: its slot serves the query
\* that replaces one in progress.
Invalidated(c, t) ==
    [x \in Calls |-> IF x = c THEN IF Watches(t) THEN NewCall("get", t) ELSE NoCall
                     ELSE IF Gets(x, t) THEN NoCall ELSE call[x]]

HearGet(c) ==
    LET t == call[c].task IN
    /\ call[c].kind = "get" /\ call[c].at = "answered"
    /\ cache' = IF call[c].answer = "error" THEN [cache EXCEPT ![t].failed = TRUE]
                ELSE [cache EXCEPT ![t] = [status |-> call[c].answer, failed |-> FALSE]]
    /\ SetCall(c, NoCall)
    /\ UNCHANGED <<server, screen, form, current, stream, toast, said, cut, clicks, faults>>

HearMutation(c) ==
    /\ call[c].kind \in {"cancel", "confirm"} /\ call[c].at = "answered"
    /\ call' = IF call[c].answer = "error" THEN [call EXCEPT ![c] = NoCall]
               ELSE Invalidated(c, call[c].task)
    /\ UNCHANGED <<server, client, clicks, faults>>

\* A task that waits for approval is visited at once; another after the toast. The panel
\* turns to the new task and its stream is opened.
HearCreate(c) ==
    LET t == call[c].task IN
    /\ call[c].kind = "create" /\ call[c].at = "answered"
    /\ \/ call[c].answer = "error" /\ SetCall(c, NoCall) /\ UNCHANGED client
       \/ call[c].answer = "pending_approval" /\ screen = "form" /\ Leave(t)
       \/ /\ call[c].answer \notin {"error", "pending_approval"} /\ screen = "form"
          /\ toast' = [undo |-> t, visit |-> toast.visit \cup {t}]
          /\ SetCall(c, NoCall)
          /\ UNCHANGED <<screen, form, current, cache, stream, said, cut>>
       \/ /\ call[c].answer # "error" /\ screen \in Panel
          /\ current' = t
          /\ stream' = IF screen = "polled" THEN stream
                       ELSE [stream EXCEPT !.of = t, !.on = TRUE, !.done = FALSE]
          /\ SetCall(c, NoCall)
          /\ UNCHANGED <<screen, form, cache, toast, said, cut>>
    /\ UNCHANGED <<server, clicks, faults>>

-----------------------------------------------------------------------------
(* The page of a task                                                      *)

\* A failed query hides the task and everything that can be done to it.
Offers(statuses) ==
    /\ screen = "page" /\ ~ cache[current].failed
    /\ cache[current].status \in statuses

CancelTask(c) ==
    /\ Click
    /\ Offers({"submitted", "pending_approval", "working"})
    /\ ~ Pending("cancel") /\ Idle(c)
    /\ SetCall(c, NewCall("cancel", current))
    /\ UNCHANGED <<server, client, faults>>

ConfirmTask(c) ==
    /\ Click
    /\ Offers({"pending_approval"})
    /\ ~ Pending("confirm") /\ Idle(c)
    /\ SetCall(c, NewCall("confirm", current))
    /\ UNCHANGED <<server, client, faults>>

-----------------------------------------------------------------------------
(* The panel                                                               *)

\* A task that waits for approval does not count as work.
IsWorking == IF screen = "streamed" THEN stream.on
             ELSE current # NoTask /\ cache[current].status \in {"submitted", "working", "input_required"}

Try(c) ==
    /\ Click
    /\ screen \in Panel /\ ~ IsWorking
    /\ ~ Pending("create") /\ Idle(c)
    /\ SetCall(c, NewCall("create", NoTask))
    /\ UNCHANGED <<server, client, faults>>

\* A chunk is added to the text whatever task the text before it is of.
Chunk ==
    /\ stream.on
    /\ stream' = [stream EXCEPT !.text = @ \cup {stream.of}]
    /\ UNCHANGED <<server, screen, form, current, cache, toast, said, cut, call, clicks, faults>>

\* The stream is done, with its task or (a fault) before it.
StreamEnds ==
    /\ stream.on
    /\ \/ task[stream.of] \in Ended /\ UNCHANGED faults
       \/ Fault
    /\ stream' = [stream EXCEPT !.on = FALSE, !.done = TRUE, !.ended = stream.of]
    /\ UNCHANGED <<server, screen, form, current, cache, toast, said, cut, call, clicks>>

-----------------------------------------------------------------------------
Network(c) == (\E t \in Tasks : Serve(c, t)) \/ HearGet(c) \/ HearMutation(c) \/ HearCreate(c)

Next == \/ \E c \in Calls : \/ Network(c) \/ LoseAnswer(c) \/ Aborted(c)
                            \/ Submit(c) \/ Undo(c) \/ Poll(c) \/ Reconnect(c)
                            \/ CancelTask(c) \/ ConfirmTask(c) \/ Try(c)
        \/ \E t \in Tasks : TaskRuns(t) \/ Visit(t)
        \/ \E a \in Agents : SelectAgent(a)
        \/ ClearAgent \/ AgentLoads \/ SelectSkill \/ Chunk \/ StreamEnds

Spec == Init /\ [][Next]_vars

\* The network answers, timers fire.
FairSpec == Spec /\ \A c \in Calls : WF_vars(Network(c)) /\ WF_vars(Poll(c)) /\ WF_vars(Aborted(c))

-----------------------------------------------------------------------------
(* A task is created for a skill of its agent, whatever was selected and   *)
(* cleared before: only a link can put a foreign skill in the form         *)
(* (handleSelectAgent, handleClearAgent, the effect that selects a skill). *)
CreatedAsSelected ==
    \A t \in Tasks : LET m == madeFor[t] IN
        m.agent # NoAgent => m.skill \in Skills[m.agent] \/ m = Link

(* What is on the screen does not go back from the end of a task: answers  *)
(* to a poll and to a refetch cannot overtake each other (useTask, the     *)
(* invalidations).                                                         *)
EndIsKept ==
    \A t \in Tasks : cache[t].status \in Ended /\ current' = current
                        => cache'[t].status = cache[t].status

EndStaysOnScreen == [][EndIsKept]_vars

(* A task that has ended ends on the screen that watches it, unless a poll *)
(* has failed (refetchInterval stops on an error) or the screen has turned *)
(* to another task.                                                        *)
EndReachesScreen ==
    \A t \in Tasks : (task[t] \in Ended /\ Watches(t))
                        ~> (cache[t].status \in Ended \/ cache[t].failed \/ ~ Watches(t))

(* Told that a task is canceled, the user is told the truth once the call  *)
(* is over, unless the task was faster, an answer was lost, or the page    *)
(* was left with the call on its way (the Undo of the toast).              *)
SaidIsSo ==
    \A t \in said \ cut :
        \/ task[t] \in Ended
        \/ faults > 0
        \/ \E c \in Calls : call[c].kind = "cancel" /\ call[c].task = t

(* The panel's stream is done when the stream of its task is: one that was *)
(* replaced does not end the next (the abort in useTaskStream).            *)
DoneIsOfTask == stream.done => stream.ended = current /\ stream.of = current
=============================================================================
