----------------------------- MODULE AgentForms -----------------------------
(***************************************************************************)
(* How an agent gets on the market and how its entry is changed: the flow  *)
(* that detects an agent's card and registers it (register-agent-flow.tsx),*)
(* the form in four steps (dashboard/agents/new/page.tsx), the agent's     *)
(* settings (agent-settings.tsx), their hooks (lib/hooks/use-agents.ts),   *)
(* the registry behind them (registry.py), the monitor that takes agents   *)
(* for unavailable and back (health_monitor.py), and an administrator, who *)
(* sets any status (admin.py).                                             *)
(*                                                                         *)
(* The registry looks for the endpoint first, and adds the agent when its  *)
(* skills have been embedded; the API client asks again when it has lost   *)
(* an answer, and others register agents too.  A card's name is that of    *)
(* its endpoint here.                                                      *)
(***************************************************************************)
EXTENDS Naturals, FiniteSets

CONSTANTS Views,           \* of "flow", "wizard" and "settings"
          Endpoints, Own,  \* agents that can be detected; a name the user makes up
          Entries, Nothing,
          Looks,           \* detections that may be in progress at once
          MaxTries,        \* the API client's
          MaxClicks, MaxFaults

FormsAssumption ==
    /\ Views \subseteq {"flow", "wizard", "settings"}
    /\ Own \notin Endpoints /\ Nothing \notin Endpoints \cup Entries /\ Own # Nothing
    /\ {MaxTries, MaxClicks, MaxFaults} \subseteq Nat

VARIABLES view, step, user,
          form,       \* the fields
          detected,   \* the card under review
          registered, \* the agent the page was told of, or whose settings it shows
          look,       \* detections
          create,     \* the registration
          change,     \* what the settings have asked for
          agent,      \* the registry
          probe,      \* of each agent, the status the monitor read before its probe
          past, clicks, faults

page == <<view, step, user, form, detected, registered>>
vars == <<page, look, create, change, agent, probe, past, clicks, faults>>

-----------------------------------------------------------------------------
Names == Endpoints \cup {Own, Nothing}
Listed == {"active", "inactive"}
OnMarket == Listed \cup {"unavailable", "suspended"}
Monitored == {"active", "unavailable"}
NoCreate == [at |-> "none", entry |-> Nothing, endpoint |-> Nothing, name |-> Nothing, tries |-> 0]
NoChange == [at |-> "none", kind |-> "none", endpoint |-> Nothing, name |-> Nothing]
NoEntry == [at |-> "none", endpoint |-> Nothing, name |-> Nothing]

TypeOK ==
    /\ view \in Views \cup {"left"}
    /\ step \in {"paste", "review", "success", "basic", "skills", "pricing"} /\ user \in BOOLEAN
    /\ form \in [endpoint : Endpoints \cup {Nothing}, name : Names, confirmed : BOOLEAN]
    /\ detected \in Endpoints \cup {Nothing} /\ registered \in Entries \cup {Nothing}
    /\ look \in [Looks -> Endpoints \cup {Nothing}]
    /\ create \in [at : {"none", "sent", "embedding", "answered"}, entry : Entries \cup {Nothing},
                   endpoint : Endpoints \cup {Nothing}, name : Names, tries : 0 .. MaxTries]
    /\ change \in [at : {"none", "sent", "done"}, kind : {"none", "save", "deactivate", "delete"},
                   endpoint : Endpoints \cup {Nothing}, name : Names]
    /\ agent \in [Entries -> [at : {"none", "embedding", "gone"} \cup OnMarket,
                              endpoint : Endpoints \cup {Nothing}, name : Names]]
    /\ probe \in [Entries -> {"none"} \cup Monitored]
    /\ past \subseteq {"overlap", "down", "edited", "meanwhile"}
    /\ clicks \in 0 .. MaxClicks /\ faults \in 0 .. MaxFaults

\* Settings are those of one of two agents.
Init ==
    /\ view \in Views
    /\ step = IF view = "wizard" THEN "basic" ELSE "paste"
    /\ user \in {u \in BOOLEAN : u \/ view = "flow"}
    /\ detected = Nothing
    /\ \E e \in Endpoints, g \in Entries :
          /\ registered = IF view = "settings" THEN g ELSE Nothing
          /\ \E f \in Endpoints \ {e}, h \in Entries \ {g} :
                agent = [x \in Entries |->
                            IF view # "settings" \/ x \notin {g, h} THEN NoEntry
                            ELSE IF x = g THEN [at |-> "active", endpoint |-> e, name |-> e]
                            ELSE [at |-> "active", endpoint |-> f, name |-> f]]
          /\ form = [endpoint |-> IF view = "settings" THEN e ELSE Nothing,
                     name |-> IF view = "settings" THEN e ELSE Nothing, confirmed |-> FALSE]
    /\ look = [d \in Looks |-> Nothing]
    /\ create = NoCreate /\ change = NoChange
    /\ probe = [g \in Entries |-> "none"]
    /\ past = {} /\ clicks = 0 /\ faults = 0

Click == clicks < MaxClicks /\ clicks' = clicks + 1
Fault == faults < MaxFaults /\ faults' = faults + 1

Detecting == \E d \in Looks : look[d] # Nothing
Registering == create.at # "none"

-----------------------------------------------------------------------------
(* The fields                                                              *)

TypeEndpoint(e) ==
    /\ \/ view = "flow" /\ step = "paste"
       \/ view = "wizard" /\ step = "basic"
       \/ view = "settings"
    /\ form.endpoint # e
    /\ Click
    /\ form' = [form EXCEPT !.endpoint = e]
    /\ past' = past \cup IF view = "settings" /\ Detecting THEN {"meanwhile"} ELSE {}
    /\ UNCHANGED <<view, step, user, detected, registered, look, create, change, agent, probe, faults>>

TypeName ==
    /\ \/ view = "flow" /\ step = "review"
       \/ view = "wizard" /\ step = "basic"
       \/ view = "settings"
    /\ form.name # Own
    /\ Click
    /\ form' = [form EXCEPT !.name = Own]
    /\ past' = past \cup IF view = "flow" /\ Registering THEN {"meanwhile"} ELSE {}
    /\ UNCHANGED <<view, step, user, detected, registered, look, create, change, agent, probe, faults>>

\* The form's steps: the first cannot be left before it is filled in.
Steps == <<"basic", "skills", "pricing", "review">>

GoTo(i, j) ==
    /\ view = "wizard" /\ step = Steps[i]
    /\ i = 1 => form.name # Nothing /\ form.endpoint # Nothing
    /\ step' = Steps[j]
    /\ UNCHANGED <<view, user, form, detected, registered, look, create, change, agent, probe, past, clicks, faults>>

Back ==
    /\ view = "flow" /\ step = "review"
    /\ step' = "paste"
    /\ past' = past \cup IF Registering THEN {"meanwhile"} ELSE {}
    /\ UNCHANGED <<view, user, form, detected, registered, look, create, change, agent, probe, clicks, faults>>

handleSignIn ==
    /\ view = "flow" /\ step = "review" /\ ~ user
    /\ user' = TRUE
    /\ UNCHANGED <<view, step, form, detected, registered, look, create, change, agent, probe, past, clicks, faults>>

-----------------------------------------------------------------------------
(* Detection                                                               *)

Idle(d) == look[d] = Nothing /\ d = CHOOSE x \in Looks : look[x] = Nothing

\* The flow's button waits for the last detection, its Enter key does not.
handleDetect(d) ==
    /\ view = "flow" /\ step = "paste" /\ form.endpoint # Nothing
    /\ Idle(d)
    /\ Click
    /\ look' = [look EXCEPT ![d] = form.endpoint]
    /\ UNCHANGED <<page, create, change, agent, probe, past, faults>>

handleRedetect(d) ==
    /\ view = "settings" /\ form.endpoint # Nothing
    /\ ~ Detecting /\ Idle(d)
    /\ Click
    /\ look' = [look EXCEPT ![d] = form.endpoint]
    /\ UNCHANGED <<page, create, change, agent, probe, past, faults>>

\* Any detection that ends well is the one under review, whatever is on the screen.
HearDetect(d) ==
    /\ look[d] # Nothing /\ view # "left"
    /\ look' = [look EXCEPT ![d] = Nothing]
    /\ \/ /\ form' = [form EXCEPT !.name = look[d]]
          /\ detected' = IF view = "flow" THEN look[d] ELSE detected
          /\ step' = IF view = "flow" THEN "review" ELSE step
          /\ past' = past \cup IF Registering THEN {"meanwhile"} ELSE {}
          /\ UNCHANGED faults
       \/ Fault /\ UNCHANGED <<form, detected, step, past>>
    /\ UNCHANGED <<view, user, registered, create, change, agent, probe, clicks>>

-----------------------------------------------------------------------------
(* Registration                                                            *)

\* The button is off until the answer, and in the form on again while the page is left.
handleRegister ==
    /\ \/ view = "flow" /\ user /\ detected # Nothing
       \/ view = "wizard"
    /\ step = "review" /\ form.name # Nothing /\ ~ Registering
    /\ Click
    /\ create' = [NoCreate EXCEPT !.at = "sent", !.name = form.name,
                      !.endpoint = IF view = "flow" THEN detected ELSE form.endpoint]
    /\ UNCHANGED <<page, look, change, agent, probe, past, faults>>

\* Which of the entries not used yet an agent gets makes no difference.
Unused(g) == agent[g].at = "none" /\ g = CHOOSE x \in Entries : agent[x].at = "none"

\* An agent is added for the endpoint, while others are being added or are not.
Add(g, e, n) ==
    /\ agent' = [agent EXCEPT ![g] = [at |-> "embedding", endpoint |-> e, name |-> n]]
    /\ past' = past \cup
          IF \E x \in Entries : agent[x].at = "embedding" /\ agent[x].endpoint = e THEN {"overlap"} ELSE {}

\* Mutant of register_agent: an endpoint that another agent has will do.
RegisterUnchecked(g) ==
    /\ create.at = "sent" /\ Unused(g)
    /\ create' = [create EXCEPT !.at = "embedding", !.entry = g]
    /\ Add(g, create.endpoint, create.name)
    /\ UNCHANGED <<page, look, change, probe, clicks, faults>>

\* The agents looked for are the active and the inactive: not those being added, nor the
\* unavailable or suspended.
Taken(e) == \E x \in Entries : agent[x].at \in Listed /\ agent[x].endpoint = e

register_agent(g) ==
    /\ create.at = "sent" /\ Unused(g)
    /\ IF Taken(create.endpoint)
       THEN /\ create' = [create EXCEPT !.at = "answered"]
            /\ UNCHANGED <<agent, past>>
       ELSE /\ create' = [create EXCEPT !.at = "embedding", !.entry = g]
            /\ Add(g, create.endpoint, create.name)
    /\ UNCHANGED <<page, look, change, probe, clicks, faults>>

\* Another user's registration: it counts as a click, as a probe that may fail does.
RegisterBeside(g, e) ==
    /\ Unused(g) /\ ~ Taken(e)
    /\ Click
    /\ Add(g, e, e)
    /\ UNCHANGED <<page, look, create, change, probe, faults>>

Embedded(g) ==
    /\ agent[g].at = "embedding"
    /\ agent' = [agent EXCEPT ![g].at = "active"]
    /\ create' = IF create.entry = g THEN [create EXCEPT !.at = "answered"] ELSE create
    /\ UNCHANGED <<page, look, change, probe, past, clicks, faults>>

\* The registry goes on with what the client has given up.
LoseAnswer ==
    /\ create.at \in {"sent", "embedding", "answered"}
    /\ Fault
    /\ create' = IF create.tries < MaxTries
                 THEN [create EXCEPT !.at = "sent", !.entry = Nothing, !.tries = @ + 1]
                 ELSE [create EXCEPT !.at = "answered", !.entry = Nothing]
    /\ UNCHANGED <<page, look, change, agent, probe, past, clicks>>

HearRegister ==
    /\ create.at = "answered" /\ view # "left"
    /\ create' = NoCreate
    /\ registered' = IF create.entry = Nothing THEN registered ELSE create.entry
    /\ step' = IF create.entry # Nothing /\ view = "flow" THEN "success" ELSE step
    /\ UNCHANGED <<view, user, form, detected, look, change, agent, probe, past, clicks, faults>>

\* View Agent, and the form's way to the agent it has registered.
Leave ==
    /\ view \in {"flow", "wizard"} /\ registered # Nothing
    /\ view = "flow" => step = "success"
    /\ view' = "left"
    /\ UNCHANGED <<step, user, form, detected, registered, look, create, change, agent, probe, past, clicks, faults>>

-----------------------------------------------------------------------------
(* Settings                                                                *)

Ask(kind) ==
    /\ view = "settings" /\ change.at = "none"
    /\ Click
    /\ change' = [at |-> "sent", kind |-> kind, endpoint |-> form.endpoint, name |-> form.name]
    /\ UNCHANGED <<page, look, create, agent, probe, past, faults>>

handleSave == Ask("save")
handleDeactivate == Ask("deactivate")
handleDelete == form.confirmed /\ Ask("delete")

\* The name of the agent is typed to delete it.
Confirm ==
    /\ view = "settings" /\ ~ form.confirmed
    /\ form' = [form EXCEPT !.confirmed = TRUE]
    /\ UNCHANGED <<view, step, user, detected, registered, look, create, change, agent, probe, past, clicks, faults>>

\* Nobody looks for the endpoint when an agent's is changed.
ServeChange ==
    /\ change.at = "sent"
    /\ \/ /\ change.kind = "save"
          /\ agent' = [agent EXCEPT ![registered].endpoint = change.endpoint,
                                    ![registered].name = change.name]
       \/ change.kind = "deactivate" /\ agent' = [agent EXCEPT ![registered].at = "inactive"]
       \/ change.kind = "delete" /\ agent' = [agent EXCEPT ![registered].at = "gone"]
    /\ change' = [change EXCEPT !.at = "done"]
    /\ past' = past \cup IF change.kind = "save" THEN {"edited"} ELSE {}
    /\ UNCHANGED <<page, look, create, probe, clicks, faults>>

LoseChange ==
    /\ change.at = "sent" /\ Fault
    /\ change' = NoChange
    /\ UNCHANGED <<page, look, create, agent, probe, past, clicks>>

\* After a save the user stays.
HearChange ==
    /\ change.at = "done"
    /\ change' = NoChange
    /\ view' = IF change.kind = "save" THEN view ELSE "left"
    /\ UNCHANGED <<step, user, form, detected, registered, look, create, agent, probe, past, clicks, faults>>

-----------------------------------------------------------------------------
(* The monitor and the administrator                                       *)

\* It reads the agents, and probes them one beside the other: of an active one that
\* answers nothing is changed, so one that may yet fail is probed.
Probe(g) ==
    /\ agent[g].at \in Monitored /\ probe[g] # agent[g].at
    /\ IF agent[g].at = "active" THEN faults < MaxFaults /\ Click ELSE UNCHANGED clicks
    /\ probe' = [probe EXCEPT ![g] = agent[g].at]
    /\ UNCHANGED <<page, look, create, change, agent, past, faults>>

\* What it writes goes by what it read; a row that is gone stays so.
Mark(g, from, to) ==
    /\ probe[g] = from
    /\ probe' = [probe EXCEPT ![g] = "none"]
    /\ agent' = [agent EXCEPT ![g].at = IF @ = "gone" THEN @ ELSE to]
    /\ past' = past \cup {"down"}
    /\ UNCHANGED <<page, look, create, change, clicks>>

\* A probe has failed once too often; an unavailable agent has answered.
MarkUnavailable(g) == Mark(g, "active", "unavailable") /\ Fault
Recover(g) == Mark(g, "unavailable", "active") /\ UNCHANGED faults

\* An administrator's choice, whatever the status was: it counts as a fault.  Inactive
\* and unavailable agents are made by others already.
update_agent_status(g, to) ==
    /\ agent[g].at \in OnMarket \ {to}
    /\ Fault
    /\ agent' = [agent EXCEPT ![g].at = to]
    /\ past' = past \cup IF to \in Listed THEN {} ELSE {"down"}
    /\ UNCHANGED <<page, look, create, change, probe, clicks>>

-----------------------------------------------------------------------------
Next ==
    \/ \E e \in Endpoints : TypeEndpoint(e)
    \/ TypeName \/ Back \/ handleSignIn
    \/ \E i \in 1 .. 3 : GoTo(i, i + 1) \/ GoTo(i + 1, i)
    \/ \E d \in Looks : handleDetect(d) \/ handleRedetect(d) \/ HearDetect(d)
    \/ \E g \in Entries : \/ register_agent(g) \/ Embedded(g) \/ \E e \in Endpoints : RegisterBeside(g, e)
                          \/ Probe(g) \/ MarkUnavailable(g) \/ Recover(g)
                          \/ \E to \in {"active", "suspended"} : update_agent_status(g, to)
    \/ handleRegister \/ LoseAnswer \/ HearRegister \/ Leave
    \/ handleSave \/ handleDeactivate \/ handleDelete \/ Confirm \/ ServeChange \/ LoseChange \/ HearChange

Spec == Init /\ [][Next]_vars

-----------------------------------------------------------------------------
(* The flow announces an agent by the name it was registered with, at the  *)
(* endpoint of the card that was reviewed, unless the user went back or    *)
(* typed, or a detection arrived, while it was being registered            *)
(* (handleDetect and handleRegister of RegisterAgentFlow).                 *)
AnnouncesWhatIs ==
    view = "flow" /\ step = "success" /\ "meanwhile" \notin past =>
        /\ agent[registered].name = form.name
        /\ agent[registered].endpoint = detected

(* No two agents on the market have one endpoint, however often the form   *)
(* was sent and whoever registers beside it, unless two agents were being  *)
(* added for it at once, one was marked unavailable or suspended, or the   *)
(* settings were saved: what the registry's query does not see             *)
(* (register_agent).                                                       *)
OneAgentPerEndpoint ==
    past \cap {"overlap", "down", "edited"} = {} => \A g, h \in Entries :
        agent[g].at \in OnMarket /\ agent[h].at \in OnMarket /\ agent[g].endpoint = agent[h].endpoint => g = h
=============================================================================
