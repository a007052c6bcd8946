------------------------------- MODULE Planner ------------------------------
(***************************************************************************)
(* The page on which a workflow is made, by a form or by the supervisor's  *)
(* plan for a goal (workflows/new/page.tsx, supervisor-plan.tsx,           *)
(* hooks/use-supervisor.ts), and the pages that list schedules, workflows  *)
(* and crews (schedules/page.tsx with hooks/use-schedules.ts,              *)
(* workflows/page.tsx, crews/page.tsx), with the sheet that makes a        *)
(* schedule and the dialog that deletes what is listed.                    *)
(*                                                                         *)
(* A handler that waits for an answer goes on when its component is gone,  *)
(* with what it read when it was clicked.                                  *)
(***************************************************************************)
EXTENDS Naturals, FiniteSets

CONSTANTS Views,     \* of "new" and "list"
          Goals, NoGoal,
          Plans, NoPlan,
          Items, NoItem, \* schedules (or workflows, or crews)
          MaxClicks, MaxFaults

PlannerAssumption ==
    /\ Views \subseteq {"new", "list"}
    /\ NoGoal \notin Goals /\ NoPlan \notin Plans /\ NoItem \notin Items
    /\ {MaxClicks, MaxFaults} \subseteq Nat

VARIABLES view, pattern, goal,
          plan,      \* the plan on display
          request,   \* what asked for a plan, and what has become of it
          act,       \* the approval of a plan, and what follows
          state, ran, \* the server's plans, and runs of their workflows
          create,    \* the form's request
          item, list, \* the server's items and the page's copy
          linked,    \* the page was opened to schedule something
          sheet,     \* whether the sheet was asked for, and typed in
          making, toggling,
          target, deleting,
          past, clicks, faults

planner == <<pattern, goal, plan, request, act, state, ran, create>>
lists == <<item, list, linked, sheet, making, toggling, target, deleting>>
vars == <<view, planner, lists, past, clicks, faults>>

-----------------------------------------------------------------------------
CallStates == {"none", "sent", "answered"}
NoRequest == [at |-> "none", kind |-> "plan", goal |-> NoGoal, own |-> FALSE]
NoAct == [at |-> "none", run |-> FALSE, goal |-> NoGoal, own |-> FALSE]
NoSheet == [asked |-> FALSE, typed |-> FALSE]

TypeOK ==
    /\ view \in Views \cup {"left"}
    /\ pattern \in {"none", "form", "supervisor"}
    /\ goal \in Goals \cup {NoGoal} /\ plan \in Plans \cup {NoPlan}
    /\ request \in [Plans -> [at : CallStates \cup {"over"}, kind : {"plan", "replan"},
                              goal : Goals \cup {NoGoal}, own : BOOLEAN]]
    /\ act \in [Plans -> [at : {"none", "approve", "approved", "refused", "run", "ran"},
                          run : BOOLEAN, goal : Goals \cup {NoGoal}, own : BOOLEAN]]
    /\ state \in [Plans -> {"none", "draft", "approved"}]
    /\ ran \in SUBSET [plan : Plans, message : Goals]
    /\ create \in CallStates \cup {"going"}
    /\ item \in [Items -> {"none", "on", "off"}]
    /\ list \in [known : BOOLEAN, is : [Items -> {"none", "on", "off"}], get : BOOLEAN]
    /\ linked \in BOOLEAN /\ sheet \in [asked : BOOLEAN, typed : BOOLEAN]
    /\ making \in [Items -> CallStates \cup {"own", "over"}]
    /\ toggling \in SUBSET Items
    /\ target \in Items \cup {NoItem} /\ deleting \in [of : Items \cup {NoItem}, at : CallStates \cup {"fetch"}]
    /\ past \in SUBSET {"typed", "back", "reopened", "loaded"}
    /\ clicks \in 0 .. MaxClicks /\ faults \in 0 .. MaxFaults

Init ==
    /\ view \in Views
    /\ pattern = "none" /\ goal = NoGoal /\ plan = NoPlan
    /\ request = [p \in Plans |-> NoRequest] /\ act = [p \in Plans |-> NoAct]
    /\ state = [p \in Plans |-> "none"] /\ ran = {} /\ create = "none"
    /\ item \in {i \in [Items -> {"none", "on"}] : view = "list" \/ \A x \in Items : i[x] = "none"}
    /\ linked \in {FALSE, view = "list"}
    /\ list = [known |-> FALSE, is |-> [i \in Items |-> "none"], get |-> view = "list"]
    /\ sheet = NoSheet /\ making = [i \in Items |-> "none"] /\ toggling = {}
    /\ target = NoItem /\ deleting = [of |-> NoItem, at |-> "none"]
    /\ past = {} /\ clicks = 0 /\ faults = 0

Click == clicks < MaxClicks /\ clicks' = clicks + 1
Fault == faults < MaxFaults /\ faults' = faults + 1

-----------------------------------------------------------------------------
(* The new workflow                                                        *)

\* A template only gives the form a name.
ChoosePattern(x) ==
    /\ view = "new" /\ pattern = "none"
    /\ pattern' = x
    /\ UNCHANGED <<view, goal, plan, request, act, state, ran, create, lists, past, clicks, faults>>

\* Between the answer and the new page the button is on again.
Create ==
    /\ view = "new" /\ pattern = "form" /\ create \in {"none", "going"}
    /\ Click
    /\ create' = "sent"
    /\ UNCHANGED <<view, pattern, goal, plan, request, act, state, ran, lists, past, faults>>

HearCreate ==
    /\ view = "new" /\ create = "sent"
    /\ \/ create' = "going" /\ UNCHANGED faults
       \/ create' = "none" /\ Fault
    /\ UNCHANGED <<view, pattern, goal, plan, request, act, state, ran, lists, past, clicks>>

InProgress(p) == request[p].at \in {"sent", "answered"}
Planning == \E p \in Plans : InProgress(p) /\ request[p].kind = "plan"

\* The plan's component is gone, what it waits for is not.
Disown == /\ request' = [p \in Plans |-> [request[p] EXCEPT !.own = FALSE]]
          /\ act' = [p \in Plans |-> [act[p] EXCEPT !.own = FALSE]]

BackToPatterns ==
    /\ view = "new" /\ pattern # "none"
    /\ pattern' = "none"
    /\ IF pattern = "supervisor" THEN plan' = NoPlan /\ Disown ELSE UNCHANGED <<plan, request, act>>
    /\ past' = IF \E p \in Plans : InProgress(p) THEN past \cup {"back"} ELSE past
    /\ UNCHANGED <<view, goal, state, ran, create, lists, clicks, faults>>

\* Mutant of TypeGoal: the goal can be typed over with its plan on display.
TypeGoalAnyTime(g) ==
    /\ view = "new" /\ pattern = "supervisor" /\ goal # g
    /\ Click
    /\ goal' = g
    /\ past' = IF Planning THEN past \cup {"typed"} ELSE past
    /\ UNCHANGED <<view, pattern, plan, request, act, state, ran, create, lists, faults>>

\* The goal can be typed over until there is a plan, the one being made included.
TypeGoal(g) ==
    /\ view = "new" /\ pattern = "supervisor" /\ plan = NoPlan /\ goal # g
    /\ Click
    /\ goal' = g
    /\ past' = IF Planning THEN past \cup {"typed"} ELSE past
    /\ UNCHANGED <<view, pattern, plan, request, act, state, ran, create, lists, faults>>

Ask(p, kind) ==
    /\ request[p].at = "none"
    /\ Click
    /\ request' = [request EXCEPT ![p] = [at |-> "sent", kind |-> kind, goal |-> goal, own |-> TRUE]]
    /\ UNCHANGED <<view, pattern, goal, plan, act, state, ran, create, lists, past, faults>>

Generate(p) ==
    /\ view = "new" /\ pattern = "supervisor" /\ plan = NoPlan /\ goal # NoGoal /\ ~ Planning
    /\ Ask(p, "plan")

Loading == \E p \in Plans : \/ (InProgress(p) /\ request[p].kind = "replan" /\ request[p].own)
                            \/ (act[p].at # "none" /\ act[p].own)

Displayed == view = "new" /\ pattern = "supervisor" /\ plan # NoPlan

Regenerate(p) == Displayed /\ ~ Loading /\ Ask(p, "replan")

ServePlan(p) ==
    /\ request[p].at = "sent"
    /\ \/ /\ request' = [request EXCEPT ![p].at = "answered"]
          /\ state' = [state EXCEPT ![p] = "draft"]
          /\ UNCHANGED faults
       \/ /\ Fault
          /\ request' = [request EXCEPT ![p].at = "over"]
          /\ UNCHANGED state
    /\ UNCHANGED <<view, pattern, goal, plan, act, ran, create, lists, past, clicks>>

\* Whatever is on the screen, the last plan to arrive is the plan.
HearPlan(p) ==
    /\ view = "new" /\ request[p].at = "answered"
    /\ request' = [request EXCEPT ![p].at = "over"]
    /\ plan' = p
    /\ UNCHANGED <<view, pattern, goal, act, state, ran, create, lists, past, clicks, faults>>

\* To run it, to save it or to edit it: the three differ in what follows.
Approve(run) ==
    /\ Displayed /\ ~ Loading
    /\ Click
    /\ act' = [act EXCEPT ![plan] = [at |-> "approve", run |-> run, goal |-> goal, own |-> TRUE]]
    /\ UNCHANGED <<view, pattern, goal, plan, request, state, ran, create, lists, past, faults>>

\* A plan is approved once: to the second approval, a retry included, it is an error.
ServeApprove(p) ==
    /\ act[p].at = "approve"
    /\ state' = [state EXCEPT ![p] = "approved"]
    /\ \/ act' = [act EXCEPT ![p].at = IF state[p] = "draft" THEN "approved" ELSE "refused"] /\ UNCHANGED faults
       \/ Fault /\ act' = [act EXCEPT ![p].at = "refused"]
    /\ UNCHANGED <<view, pattern, goal, plan, request, ran, create, lists, past, clicks>>

LeavePage == view' = "left"

HearApprove(p) ==
    /\ view = "new" /\ act[p].at \in {"approved", "refused"}
    /\ IF act[p].at = "refused" THEN act' = [act EXCEPT ![p] = NoAct] /\ UNCHANGED view
       ELSE IF act[p].run THEN act' = [act EXCEPT ![p].at = "run"] /\ UNCHANGED view
       ELSE LeavePage /\ UNCHANGED act
    /\ UNCHANGED <<pattern, goal, plan, request, state, ran, create, lists, past, clicks, faults>>

ServeRun(p) ==
    /\ act[p].at = "run"
    /\ \/ ran' = ran \cup {[plan |-> p, message |-> act[p].goal]}
          /\ act' = [act EXCEPT ![p].at = "ran"] /\ UNCHANGED faults
       \/ UNCHANGED ran /\ act' = [act EXCEPT ![p] = NoAct] /\ Fault
    /\ UNCHANGED <<view, pattern, goal, plan, request, state, create, lists, past, clicks>>

GoToWorkflow ==
    /\ view = "new"
    /\ create = "going" \/ \E p \in Plans : act[p].at = "ran"
    /\ LeavePage
    /\ UNCHANGED <<planner, lists, past, clicks, faults>>

-----------------------------------------------------------------------------
(* The lists                                                               *)

Empty == \A i \in Items : list.is[i] = "none"
SheetOpen == sheet.asked \/ (linked /\ Empty /\ target = NoItem)
Refetched == [list EXCEPT !.get = TRUE]

\* The open sheet's own creation, which becomes nobody's when the sheet closes.
Made == \E i \in Items : making[i] = "own" /\ item[i] # "none"
Orphaned == [i \in Items |-> IF making[i] = "own" THEN "sent" ELSE making[i]]

\* The sheet that a link opens is there until the list is, and closes with what was typed.
HearList ==
    /\ view = "list" /\ list.get
    /\ \/ list' = [known |-> TRUE, is |-> item, get |-> FALSE] /\ UNCHANGED faults
       \/ list' = [list EXCEPT !.get = FALSE] /\ Fault
    /\ sheet' = [sheet EXCEPT !.typed = @ /\ (sheet.asked \/ \A i \in Items : list'.is[i] = "none")]
    /\ past' = IF sheet'.typed = sheet.typed \/ Made THEN past ELSE past \cup {"loaded"}
    /\ making' = IF sheet.asked \/ \A i \in Items : list'.is[i] = "none" THEN making ELSE Orphaned
    /\ UNCHANGED <<view, planner, item, linked, toggling, target, deleting, clicks>>

OpenSheet ==
    /\ view = "list" /\ ~ SheetOpen /\ target = NoItem
    /\ Click
    /\ sheet' = [asked |-> TRUE, typed |-> FALSE]
    /\ UNCHANGED <<view, planner, item, list, linked, making, toggling, target, deleting, past, faults>>

TypeSchedule ==
    /\ view = "list" /\ SheetOpen /\ ~ sheet.typed
    /\ sheet' = [sheet EXCEPT !.typed = TRUE]
    /\ past' = IF \E i \in Items : making[i] = "sent" THEN past \cup {"reopened"} ELSE past
    /\ UNCHANGED <<view, planner, item, list, linked, making, toggling, target, deleting, clicks, faults>>

\* A sheet that a link keeps open cannot be closed.
CloseSheet ==
    /\ view = "list" /\ sheet.asked
    /\ sheet' = [asked |-> FALSE, typed |-> sheet.typed /\ linked /\ Empty /\ target = NoItem]
    /\ making' = IF linked /\ Empty THEN making ELSE Orphaned
    /\ UNCHANGED <<view, planner, item, list, linked, toggling, target, deleting, past, clicks, faults>>

\* One creation at a time for each sheet that was opened.
CreateSchedule(i) ==
    /\ view = "list" /\ SheetOpen /\ (sheet.typed \/ linked)
    /\ making[i] = "none" /\ item[i] = "none" /\ \A j \in Items : making[j] # "own"
    /\ Click
    /\ making' = [making EXCEPT ![i] = "own"]
    /\ UNCHANGED <<view, planner, item, list, linked, sheet, toggling, target, deleting, past, faults>>

\* The list is fetched before the handler goes on, and the handler closes the sheet that is
\* open by then.
ServeSchedule(i) ==
    /\ making[i] \in {"own", "sent"} /\ item[i] = "none"
    /\ \/ item' = [item EXCEPT ![i] = "on"] /\ list' = Refetched /\ UNCHANGED <<making, faults>>
       \/ making' = [making EXCEPT ![i] = "over"] /\ Fault /\ UNCHANGED <<item, list>>
    /\ UNCHANGED <<view, planner, linked, sheet, toggling, target, deleting, past, clicks>>

HearSchedule(i) ==
    /\ view = "list" /\ making[i] \in {"own", "sent"} /\ item[i] # "none" /\ ~ list.get
    /\ making' = [IF linked /\ Empty THEN making ELSE Orphaned EXCEPT ![i] = "over"]
    /\ sheet' = [asked |-> FALSE, typed |-> sheet.typed /\ linked /\ Empty /\ target = NoItem]
    /\ UNCHANGED <<view, planner, item, list, linked, toggling, target, deleting, past, clicks, faults>>

\* Paused or resumed by what the list shows.
Toggle(i) ==
    /\ view = "list" /\ ~ SheetOpen /\ target = NoItem /\ list.is[i] # "none" /\ i \notin toggling
    /\ Click
    /\ toggling' = toggling \cup {i}
    /\ item' = IF item[i] = "none" THEN item
               ELSE [item EXCEPT ![i] = IF list.is[i] = "on" THEN "off" ELSE "on"]
    /\ UNCHANGED <<view, planner, list, linked, sheet, making, target, deleting, past, faults>>

HearToggle(i) ==
    /\ view = "list" /\ i \in toggling
    /\ toggling' = toggling \ {i}
    /\ list' = Refetched
    /\ UNCHANGED <<view, planner, item, linked, sheet, making, target, deleting, past, clicks, faults>>

AskToDelete(i) ==
    /\ view = "list" /\ ~ SheetOpen /\ target = NoItem /\ list.is[i] # "none"
    /\ Click
    /\ target' = i
    /\ UNCHANGED <<view, planner, item, list, linked, sheet, making, toggling, deleting, past, faults>>

\* The dialog can be closed at any time.
KeepItem ==
    /\ view = "list" /\ target # NoItem
    /\ target' = NoItem
    /\ UNCHANGED <<view, planner, item, list, linked, sheet, making, toggling, deleting, past, clicks, faults>>

Delete ==
    /\ view = "list" /\ target # NoItem /\ deleting.at = "none"
    /\ Click
    /\ deleting' = [of |-> target, at |-> "sent"]
    /\ UNCHANGED <<view, planner, item, list, linked, sheet, making, toggling, target, past, faults>>

ServeDelete ==
    /\ deleting.at = "sent"
    /\ \/ item' = [item EXCEPT ![deleting.of] = "none"] /\ list' = Refetched
          /\ deleting' = [deleting EXCEPT !.at = "fetch"] /\ UNCHANGED faults
       \/ deleting' = [deleting EXCEPT !.at = "answered"] /\ Fault /\ UNCHANGED <<item, list>>
    /\ UNCHANGED <<view, planner, linked, sheet, making, toggling, target, past, clicks>>

\* Done or not, the dialog closes: the one that is open by then.
HearDelete ==
    /\ view = "list" /\ (deleting.at = "answered" \/ (deleting.at = "fetch" /\ ~ list.get))
    /\ deleting' = [of |-> NoItem, at |-> "none"]
    /\ target' = NoItem
    /\ UNCHANGED <<view, planner, item, list, linked, sheet, making, toggling, past, clicks, faults>>

-----------------------------------------------------------------------------
Next ==
    \/ \E x \in {"form", "supervisor"} : ChoosePattern(x)
    \/ Create \/ HearCreate \/ BackToPatterns \/ GoToWorkflow
    \/ \E g \in Goals : TypeGoal(g)
    \/ \E p \in Plans : \/ Generate(p) \/ Regenerate(p) \/ ServePlan(p) \/ HearPlan(p)
                        \/ ServeApprove(p) \/ HearApprove(p) \/ ServeRun(p)
    \/ \E run \in BOOLEAN : Approve(run)
    \/ HearList \/ OpenSheet \/ TypeSchedule \/ CloseSheet \/ KeepItem \/ Delete \/ ServeDelete \/ HearDelete
    \/ \E i \in Items : \/ CreateSchedule(i) \/ ServeSchedule(i) \/ HearSchedule(i)
                        \/ Toggle(i) \/ HearToggle(i) \/ AskToDelete(i)

Spec == Init /\ [][Next]_vars

-----------------------------------------------------------------------------
(* The workflow of a plan is run with the goal the plan was made for,      *)
(* however plans, new plans and approvals overlap - unless the goal was    *)
(* typed over while its plan was made, or the patterns were gone back to   *)
(* with a plan on its way (handleApproveAndRun, onReplan, setCurrentPlan). *)
PlanRunsWithItsGoal ==
    \A r \in ran : r.message = request[r.plan].goal \/ past \cap {"typed", "back"} # {}

(* What was typed for a schedule goes with the schedule's creation or the  *)
(* closing of its sheet - not with another's creation, unless the sheet    *)
(* was opened again over that one, and not with the list, unless a link    *)
(* opened the sheet over a list that was not there (SchedulesPage).        *)
KeepsDraft ==
    sheet.typed /\ ~ sheet'.typed
       => \/ past' \cap {"reopened", "loaded"} # {}
          \/ Made
          \/ (sheet.asked /\ \A i \in Items : making'[i] = Orphaned[i])

DraftIsKept == [][KeepsDraft]_vars
=============================================================================
