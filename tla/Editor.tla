------------------------------- MODULE Editor -------------------------------
(***************************************************************************)
(* The pages on which a workflow and a crew are edited and run             *)
(* (workflow-detail-client.tsx with hooks/use-workflows.ts,                *)
(* crew-detail-client.tsx with hooks/use-crews.ts). A page shows a copy of *)
(* what the server keeps; the editor works on a draft taken from the copy, *)
(* and a save replaces the server's steps by the draft's.                  *)
(*                                                                         *)
(* A step is who does it, its group (groups run one after the other) and   *)
(* its position in the group; a crew has one group. The rest of the form,  *)
(* names, instructions, input modes, timeouts, is one text.                *)
(***************************************************************************)
EXTENDS Integers, FiniteSets, Sequences

CONSTANTS Pages,      \* of "workflow" and "crew"
          Documents,  \* [Pages -> sets of sequences]: who the steps of a loaded page are for
          Agents,
          Runs, NoRun,
          Saves,      \* saves that may be in progress at once
          MaxSteps, MaxClicks, MaxFaults

EditorAssumption ==
    /\ Pages \subseteq {"workflow", "crew"}
    /\ NoRun \notin Runs
    /\ \A p \in Pages : Documents[p] \subseteq Seq(Agents \cup {"nested"})
    /\ "crew" \in Pages => Documents["crew"] \subseteq Seq(Agents) \ {<<>>}
    /\ {MaxSteps, MaxClicks, MaxFaults} \subseteq Nat

VARIABLES page,
          doc,      \* what the server has, and how often it was replaced
          copy,     \* what the page has of it, and whether fetching it has failed
          editor,   \* the draft, and the group the next agent is picked for
          save, get,
          run,      \* the server's runs
          known, look, \* the page's copy of their list, and the query for it
          ask,      \* requests to run
          result, shown, \* the crew's run on display, and the task of each member
          pending,  \* clones, conversions and deletions that will leave the page, cancels of steps
          past,     \* what the user did while a call was in progress
          clicks, faults

vars == <<page, doc, copy, editor, save, get, run, known, look, ask, result, shown,
          pending, past, clicks, faults>>

-----------------------------------------------------------------------------
(* A sub-workflow the server has in a step, one picked in the editor, and  *)
(* a step for which nothing is picked.                                     *)
Who == Agents \cup {"nested", "picked", "unset"}
Closed == -2    \* what the picker is for, if not for a group
NewGroup == -1
Step == [who : Who, group : Nat, pos : Nat]
Content == [steps : Seq(Step), text : {"old", "new"}, rev : Nat]
RunState == [at : {"none", "running", "ended"}, empty : BOOLEAN, of : SUBSET Who, ended : SUBSET Agents]

TypeOK ==
    /\ page \in Pages \cup {"left"}
    /\ doc \in Content
    /\ copy \in [of : Content, failed : BOOLEAN]
    /\ editor \in [on : BOOLEAN, steps : Seq(Step), text : {"old", "new"}, picker : {Closed, NewGroup} \cup Nat]
    /\ save \in [Saves -> [at : {"none", "sent", "saved", "refused", "fetch"},
                           is : Content, own : BOOLEAN]]
    /\ get \in [at : {"none", "sent", "answered"}, is : Content, awaits : SUBSET Saves, joined : SUBSET Saves]
    /\ run \in [Runs -> RunState]
    /\ known \in [Runs -> {"none", "running", "ended"}]
    /\ look \in [at : {"none", "sent", "answered"}, is : [Runs -> {"none", "running", "ended"}],
                 awaits : SUBSET Saves]
    /\ ask \in [Runs -> {"none", "sent", "answered", "heard"}]
    /\ result \in Runs \cup {NoRun}
    /\ shown \in [Agents -> [run : Runs \cup {NoRun}, ended : BOOLEAN]]
    /\ pending \in SUBSET {"leave", "cancel"}
    /\ past \in SUBSET {"canceled", "typed", "again", "overlap"}
    /\ clicks \in Nat /\ faults \in 0 .. MaxFaults

NoContent == [steps |-> <<>>, text |-> "old", rev |-> 0]
NoSave == [at |-> "none", is |-> NoContent, own |-> FALSE]
NoGet == [at |-> "none", is |-> NoContent, awaits |-> {}, joined |-> {}]
NoRuns == [r \in Runs |-> "none"]
NoLook == [at |-> "none", is |-> NoRuns, awaits |-> {}]
NoReport == [a \in Agents |-> [run |-> NoRun, ended |-> FALSE]]
NoEditor == [on |-> FALSE, steps |-> <<>>, text |-> "old", picker |-> Closed]

\* A page that has loaded: a workflow of one step after the other, a crew of members.
Init ==
    /\ page \in Pages
    /\ \E s \in Documents[page] :
          doc = [NoContent EXCEPT !.steps =
                    [i \in DOMAIN s |-> IF page = "crew" THEN [who |-> s[i], group |-> 0, pos |-> i - 1]
                                       ELSE [who |-> s[i], group |-> i - 1, pos |-> 0]]]
    /\ copy = [of |-> doc, failed |-> FALSE]
    /\ editor = NoEditor /\ save = [v \in Saves |-> NoSave] /\ get = NoGet
    /\ run = [r \in Runs |-> [at |-> "none", empty |-> FALSE, of |-> {}, ended |-> {}]]
    /\ known = NoRuns /\ look = NoLook /\ ask = NoRuns
    /\ result = NoRun /\ shown = NoReport
    /\ pending = {} /\ past = {} /\ clicks = 0 /\ faults = 0

\* A failed query hides a workflow, but not a crew that was there before.
Shows(p) == page = p /\ (p = "crew" \/ ~ copy.failed)
Here == Shows("workflow") \/ Shows("crew")

Click == clicks < MaxClicks /\ clicks' = clicks + 1
Fault == faults < MaxFaults /\ faults' = faults + 1
Saving == \E v \in Saves : save[v].at # "none"
InGroup(steps, g) == {i \in DOMAIN steps : steps[i].group = g}
GroupsOf(steps) == {steps[i].group : i \in DOMAIN steps}

-----------------------------------------------------------------------------
(* Editing                                                                 *)

\* A crew's report is taken off the screen, and starts anew afterwards.
StartEditing ==
    /\ Here /\ ~ editor.on
    /\ Click
    /\ editor' = [editor EXCEPT !.on = TRUE, !.steps = copy.of.steps, !.text = copy.of.text]
    /\ shown' = NoReport
    /\ UNCHANGED <<page, doc, copy, save, get, run, known, look, ask, result, pending, past, faults>>

CancelEditing ==
    /\ Here /\ editor.on
    /\ editor' = [editor EXCEPT !.on = FALSE, !.picker = Closed]
    /\ save' = [v \in Saves |-> [save[v] EXCEPT !.own = FALSE]]
    /\ past' = IF Saving THEN past \cup {"canceled"} ELSE past
    /\ UNCHANGED <<page, doc, copy, get, run, known, look, ask, result, shown, pending, clicks, faults>>

\* Nothing keeps the user from typing while the draft is being saved.
Edit(p, draft) ==
    /\ Shows(p) /\ editor.on
    /\ Click
    /\ editor' = draft
    /\ past' = IF Saving THEN past \cup {"typed"} ELSE past
    /\ UNCHANGED <<page, doc, copy, save, get, run, known, look, ask, result, shown, pending, faults>>

Type == \E p \in Pages : Edit(p, [editor EXCEPT !.text = "new"])

\* The picker stays open when the group it is for loses its last step.
OpenPicker ==
    /\ Shows("workflow") /\ editor.on /\ editor.picker = Closed
    /\ \E g \in {NewGroup} \cup GroupsOf(editor.steps) : editor' = [editor EXCEPT !.picker = g]
    /\ UNCHANGED <<page, doc, copy, save, get, run, known, look, ask, result, shown, pending, past, clicks, faults>>

PickAgent(a) ==
    LET last == CHOOSE g \in GroupsOf(editor.steps) : \A h \in GroupsOf(editor.steps) : h <= g
        g == IF editor.picker # NewGroup THEN editor.picker
             ELSE IF editor.steps = <<>> THEN 0 ELSE last + 1
    IN /\ editor.picker # Closed /\ Len(editor.steps) < MaxSteps
       /\ Edit("workflow",
               [editor EXCEPT !.picker = Closed,
                              !.steps = Append(@, [who |-> a, group |-> g,
                                                   pos |-> Cardinality(InGroup(@, g))])])

\* The button to remove a step is not shown for a sub-workflow.
RemoveStep(i) ==
    /\ i \in DOMAIN editor.steps
    /\ page = "workflow" => editor.steps[i].who \in Agents
    /\ \E p \in Pages : Edit(p, [editor EXCEPT !.steps = [j \in 1 .. Len(@) - 1 |-> IF j < i THEN @[j] ELSE @[j + 1]]])

\* The type of a step, in workflows of two of the three patterns: an agent's step loses its
\* agent when it becomes a sub-workflow, and has none when it becomes an agent's again.
SwitchType(i) ==
    /\ i \in DOMAIN editor.steps
    /\ Edit("workflow", [editor EXCEPT !.steps[i].who = "unset"])

PickWorkflow(i) ==
    /\ i \in DOMAIN editor.steps /\ editor.steps[i].who \notin Agents
    /\ Edit("workflow", [editor EXCEPT !.steps[i].who = IF @ = "nested" THEN "nested" ELSE "picked"])

MoveUp(i) ==
    /\ i \in DOMAIN editor.steps \ {1}
    /\ Edit("crew", [editor EXCEPT !.steps[i - 1] = editor.steps[i], !.steps[i] = editor.steps[i - 1]])

-----------------------------------------------------------------------------
(* Saving                                                                  *)

Payload == [steps |-> [i \in DOMAIN editor.steps |->
                          IF page = "crew" THEN [editor.steps[i] EXCEPT !.pos = i - 1] ELSE editor.steps[i]],
            text |-> editor.text, rev |-> 0]

\* The button is off until the answer, and on again while the page is being refreshed.
Save(v) ==
    /\ Here /\ editor.on
    /\ page = "crew" => editor.steps # <<>>
    /\ \A w \in Saves : save[w].at \in {"none", "fetch"}
    /\ save[v].at = "none"
    /\ Click
    /\ save' = [save EXCEPT ![v] = [at |-> "sent", is |-> Payload, own |-> TRUE]]
    /\ past' = IF Saving THEN past \cup {"again"} ELSE past
    /\ UNCHANGED <<page, doc, copy, editor, get, run, known, look, ask, result, shown, pending, faults>>

\* An agent's id that is an empty string is no id.
Refused(content) == \E i \in DOMAIN content.steps : content.steps[i].who \in {"picked", "unset"}

\* The orders in which the server may return steps: by group and position.
Ordered(steps) ==
    {s \in [DOMAIN steps -> {steps[i] : i \in DOMAIN steps}] :
        /\ \A x \in {steps[i] : i \in DOMAIN steps} :
              Cardinality({i \in DOMAIN s : s[i] = x}) = Cardinality({i \in DOMAIN steps : steps[i] = x})
        /\ \A i, j \in DOMAIN s : i < j => \/ s[i].group < s[j].group
                                          \/ (s[i].group = s[j].group /\ s[i].pos <= s[j].pos)}

Accept(content) == \E s \in Ordered(content.steps) :
                      doc' = [steps |-> s, text |-> content.text, rev |-> doc.rev + 1]

ServeSave(v) ==
    /\ save[v].at = "sent"
    /\ IF Refused(save[v].is)
       THEN save' = [save EXCEPT ![v].at = "refused"] /\ UNCHANGED doc
       ELSE Accept(save[v].is) /\ save' = [save EXCEPT ![v].at = "saved", ![v].is.rev = doc.rev + 1]
    /\ UNCHANGED <<page, copy, editor, get, run, known, look, ask, result, shown, pending, past, clicks, faults>>

\* The answer is lost for good, with or without the save.
LoseSave(v) ==
    /\ save[v].at = "sent"
    /\ Fault
    /\ UNCHANGED doc \/ (~ Refused(save[v].is) /\ Accept(save[v].is))
    /\ save' = [save EXCEPT ![v].at = "refused"]
    /\ UNCHANGED <<page, copy, editor, get, run, known, look, ask, result, shown, pending, past, clicks>>

\* A query that replaces one in progress is waited for by who waited for that one, if it was
\* the first to be replaced (joined); the others go on.
Fetch(awaits, joined) == [at |-> "sent", is |-> NoContent, awaits |-> awaits, joined |-> joined]
Look(awaits) == [at |-> "sent", is |-> NoRuns, awaits |-> awaits]

\* Everything of the page is fetched again, by the mutation and by the handler that waits: a
\* query in progress is replaced twice. A refusal is not shown, and leaves the editor open.
HearSave(v) ==
    /\ save[v].at \in {"saved", "refused"}
    /\ IF save[v].at = "saved" /\ page # "left"
       THEN /\ save' = [save EXCEPT ![v].at = "fetch"]
            /\ get' = Fetch({v}, {})
            /\ look' = IF page = "workflow" THEN Look({v}) ELSE look
       ELSE save' = [save EXCEPT ![v] = NoSave] /\ UNCHANGED <<get, look>>
    /\ UNCHANGED <<page, doc, copy, editor, run, known, ask, result, shown, pending, past, clicks, faults>>

\* Mutant of Close: the page does not wait for what it asked for again.
CloseAtOnce(v) ==
    /\ save[v].at = "fetch"
    /\ editor' = [editor EXCEPT !.on = FALSE]
    /\ save' = [w \in Saves |-> IF w = v THEN NoSave ELSE [save[w] EXCEPT !.own = FALSE]]
    /\ UNCHANGED <<page, doc, copy, get, run, known, look, ask, result, shown, pending, past, clicks, faults>>

\* The save ends with the queries it waits for, done or failed, and closes the editor: the
\* one that is open by then. The picker is left as it is.
Close(v) ==
    /\ save[v].at = "fetch" /\ v \notin get.awaits \cup get.joined \cup look.awaits
    /\ editor' = [editor EXCEPT !.on = FALSE]
    /\ save' = [w \in Saves |-> IF w = v THEN NoSave ELSE [save[w] EXCEPT !.own = FALSE]]
    /\ UNCHANGED <<page, doc, copy, get, run, known, look, ask, result, shown, pending, past, clicks, faults>>

AnswerGet ==
    /\ \/ get.at = "sent" /\ get' = [get EXCEPT !.at = "answered", !.is = doc] /\ UNCHANGED copy
       \/ get.at = "answered" /\ get' = NoGet /\ copy' = [of |-> get.is, failed |-> FALSE]
    /\ UNCHANGED <<page, doc, editor, save, run, known, look, ask, result, shown, pending, past, clicks, faults>>

LoseGet ==
    /\ get.at = "sent" /\ Fault
    /\ get' = NoGet /\ copy' = [copy EXCEPT !.failed = TRUE]
    /\ UNCHANGED <<page, doc, editor, save, run, known, look, ask, result, shown, pending, past, clicks>>

\* Another page of the same user saves a text: nobody compares versions.
Elsewhere ==
    /\ Fault
    /\ doc' = [doc EXCEPT !.text = "new", !.rev = @ + 1]
    /\ UNCHANGED <<page, copy, editor, save, get, run, known, look, ask, result, shown, pending, past, clicks>>

\* A clone, a conversion or a deletion has been asked for: its answer leaves the page,
\* edits and all. What was sent arrives.
AskToLeave ==
    /\ Here /\ ~ editor.on /\ "leave" \notin pending
    /\ Click
    /\ pending' = pending \cup {"leave"}
    /\ UNCHANGED <<page, doc, copy, editor, save, get, run, known, look, ask, result, shown, past, faults>>

Leave ==
    /\ "leave" \in pending
    /\ \/ /\ page' = "left" /\ pending' = {}
          /\ editor' = NoEditor /\ get' = NoGet /\ look' = NoLook /\ known' = NoRuns
          /\ result' = NoRun /\ shown' = NoReport
          /\ save' = [v \in Saves |-> IF save[v].at = "fetch" THEN NoSave ELSE [save[v] EXCEPT !.own = FALSE]]
          /\ UNCHANGED faults
       \/ /\ Fault /\ pending' = pending \ {"leave"}
          /\ UNCHANGED <<page, editor, get, look, known, result, shown, save>>
    /\ UNCHANGED <<doc, copy, run, ask, past, clicks>>

-----------------------------------------------------------------------------
(* Running                                                                 *)

Asking == \E r \in Runs : ask[r] \in {"sent", "answered"}

\* The panel stays open over the editor: what runs is what the server has.
Execute(r) ==
    /\ Shows("workflow") /\ ~ Asking /\ ask[r] = "none"
    /\ Click
    /\ ask' = [ask EXCEPT ![r] = "sent"]
    /\ UNCHANGED <<page, doc, copy, editor, save, get, run, known, look, result, shown, pending, past, faults>>

\* The button is off while a run is asked for, the Enter key is not.
RunCrew(r) ==
    /\ Shows("crew") /\ ~ editor.on /\ ask[r] = "none"
    /\ Click
    /\ ask' = [ask EXCEPT ![r] = "sent"]
    /\ result' = NoRun /\ shown' = NoReport
    /\ past' = IF Asking THEN past \cup {"overlap"} ELSE past
    /\ UNCHANGED <<page, doc, copy, editor, save, get, run, known, look, pending, faults>>

\* The engine starts group 0; a crew's members all get a task.
Begun == [at |-> "running", empty |-> doc.steps = <<>>,
          of |-> {doc.steps[i].who : i \in InGroup(doc.steps, 0)}, ended |-> {}]

ServeRun(r) ==
    /\ ask[r] = "sent"
    /\ run' = [run EXCEPT ![r] = Begun]
    /\ ask' = [ask EXCEPT ![r] = "answered"]
    /\ UNCHANGED <<page, doc, copy, editor, save, get, known, look, result, shown, pending, past, clicks, faults>>

LoseRun(r) ==
    /\ ask[r] = "sent" /\ Fault
    /\ UNCHANGED run \/ run' = [run EXCEPT ![r] = Begun]
    /\ ask' = [ask EXCEPT ![r] = "heard"]
    /\ UNCHANGED <<page, doc, copy, editor, save, get, known, look, result, shown, pending, past, clicks>>

HearRun(r) ==
    /\ ask[r] = "answered"
    /\ ask' = [ask EXCEPT ![r] = "heard"]
    /\ look' = IF page = "workflow" THEN Look({}) ELSE look
    /\ result' = IF page = "crew" THEN r ELSE result
    /\ UNCHANGED <<page, doc, copy, editor, save, get, run, known, shown, pending, past, clicks, faults>>

RunGoes(r) ==
    /\ run[r].at = "running"
    /\ \/ \E a \in (run[r].of \cap Agents) \ run[r].ended : run' = [run EXCEPT ![r].ended = @ \cup {a}]
       \/ run' = [run EXCEPT ![r].at = "ended"]
    /\ UNCHANGED <<page, doc, copy, editor, save, get, known, look, ask, result, shown, pending, past, clicks, faults>>

\* The list is fetched every 3 s while it has a run that goes, whether or not that fails.
Poll ==
    /\ Shows("workflow") /\ look.at = "none"
    /\ \E r \in Runs : known[r] = "running"
    /\ look' = Look({})
    /\ UNCHANGED <<page, doc, copy, editor, save, get, run, known, ask, result, shown, pending, past, clicks, faults>>

AnswerLook ==
    /\ \/ look.at = "sent" /\ look' = [look EXCEPT !.at = "answered", !.is = [r \in Runs |-> run[r].at]] /\ UNCHANGED known
       \/ look.at = "answered" /\ look' = NoLook /\ known' = look.is
    /\ UNCHANGED <<page, doc, copy, editor, save, get, run, ask, result, shown, pending, past, clicks, faults>>

LoseLook ==
    /\ look.at = "sent" /\ Fault
    /\ look' = NoLook
    /\ UNCHANGED <<page, doc, copy, editor, save, get, run, known, ask, result, shown, pending, past, clicks>>

\* A step of a run that goes: the answer, unless it is a refusal, refreshes everything.
CancelStep ==
    /\ Shows("workflow") /\ ~ editor.on /\ "cancel" \notin pending
    /\ \E r \in Runs : known[r] = "running"
    /\ Click
    /\ pending' = pending \cup {"cancel"}
    /\ UNCHANGED <<page, doc, copy, editor, save, get, run, known, look, ask, result, shown, past, faults>>

HearCancel ==
    /\ "cancel" \in pending
    /\ pending' = pending \ {"cancel"}
    /\ \/ get' = Fetch({}, get.awaits) /\ look' = Look({})
       \/ UNCHANGED <<get, look>>
    /\ UNCHANGED <<page, doc, copy, editor, save, run, known, ask, result, shown, past, clicks, faults>>

\* A member's task is polled. What looks the same as before (status and number of artifacts)
\* is not replaced, whichever run's it is: the action is never forced.
PollTask(a) ==
    /\ Shows("crew") /\ ~ editor.on /\ result # NoRun
    /\ a \in run[result].of /\ \E i \in DOMAIN copy.of.steps : copy.of.steps[i].who = a
    /\ LET new == [run |-> result, ended |-> a \in run[result].ended] IN
          /\ shown[a] # new /\ shown' = [shown EXCEPT ![a] = new]
    /\ UNCHANGED <<page, doc, copy, editor, save, get, run, known, look, ask, result, pending, past, clicks, faults>>

NewRun ==
    /\ Shows("crew") /\ ~ editor.on /\ result # NoRun
    /\ result' = NoRun /\ shown' = NoReport
    /\ UNCHANGED <<page, doc, copy, editor, save, get, run, known, look, ask, pending, past, clicks, faults>>

-----------------------------------------------------------------------------
Next == \/ StartEditing \/ CancelEditing \/ Type \/ OpenPicker
        \/ \E a \in Agents : PickAgent(a) \/ PollTask(a)
        \/ \E i \in 1 .. MaxSteps : RemoveStep(i) \/ SwitchType(i) \/ PickWorkflow(i) \/ MoveUp(i)
        \/ \E v \in Saves : Save(v) \/ ServeSave(v) \/ LoseSave(v) \/ HearSave(v) \/ Close(v)
        \/ AnswerGet \/ LoseGet \/ Elsewhere \/ AskToLeave \/ Leave
        \/ \E r \in Runs : Execute(r) \/ RunCrew(r) \/ ServeRun(r) \/ LoseRun(r) \/ HearRun(r) \/ RunGoes(r)
        \/ Poll \/ AnswerLook \/ LoseLook \/ CancelStep \/ HearCancel \/ NewRun

Spec == Init /\ [][Next]_vars

\* Timers fire and the network answers.
FairSpec == Spec /\ WF_vars(Poll) /\ WF_vars(AnswerLook)

-----------------------------------------------------------------------------
\* The same steps: a crew's in the same order, a workflow's in the same groups.
Same(a, b) ==
    IF page = "crew" THEN /\ DOMAIN a.steps = DOMAIN b.steps
                          /\ \A i \in DOMAIN a.steps : a.steps[i].who = b.steps[i].who
    ELSE \A w \in Who, g \in GroupsOf(a.steps) \cup GroupsOf(b.steps) :
            Cardinality({i \in InGroup(a.steps, g) : a.steps[i].who = w})
            = Cardinality({i \in InGroup(b.steps, g) : b.steps[i].who = w})

(* A save closes the editor it was made in, with nothing in it that was    *)
(* not saved, over a page that shows what was saved or something newer -   *)
(* unless the user canceled, typed or saved again meanwhile, or the page   *)
(* could not be fetched (handleSave of both pages).                        *)
ClosingIsOfSave ==
    \A v \in Saves :
       save[v].at = "fetch" /\ save'[v].at = "none" /\ page' # "left"
          => \/ past # {} \/ copy.failed
             \/ /\ save[v].own /\ Same(editor, save[v].is) /\ editor.text = save[v].is.text
                /\ copy.of.rev >= save[v].is.rev
                /\ copy.of.rev = save[v].is.rev => Same(copy.of, save[v].is)

ClosesOnItsSave == [][ClosingIsOfSave]_vars

(* A run the page knows to be going ends on it too, whatever queries fail  *)
(* or are replaced on the way (refetchInterval of useWorkflowRuns).        *)
RunEndIsShown ==
    \A r \in Runs : (run[r].at = "ended" /\ known[r] = "running" /\ Shows("workflow"))
                        ~> (known[r] = "ended" \/ ~ Shows("workflow"))

(* A crew's report is made of tasks of the run it is the report of, unless *)
(* the Enter key has started a second run over one being started.          *)
ReportIsOfRun == \A a \in Agents : shown[a].run \in {NoRun, result} \/ "overlap" \in past

(* A run of a workflow that has steps starts one before it ends.           *)
StartsSteps == \A r \in Runs : run[r].at = "ended" /\ ~ run[r].empty => run[r].of # {}
=============================================================================
