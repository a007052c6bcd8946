---------------------------- MODULE ChannelPages ----------------------------
(***************************************************************************)
(* The pages that show what is connected: the list in the settings with    *)
(* its sheet for a channel's limits (channels-tab.tsx,                     *)
(* channel-edit-sheet.tsx), a channel's page (channel-detail-client.tsx),  *)
(* an administrator's page of a channel (admin-channel-detail-client.tsx,  *)
(* admin-access-gate.tsx), the table of its contacts (contact-table.tsx),  *)
(* with hooks/use-channels.ts, and what the backend does with their        *)
(* requests (channel_service.py).                                          *)
(*                                                                         *)
(* A page works on its copy of the server's channels and contacts. The     *)
(* list is fetched again every 30 seconds, the others only after a change  *)
(* of their own. A page opened by its address, and not by a link, knows    *)
(* its channel by the name of a placeholder where it forgot to resolve it. *)
(***************************************************************************)
EXTENDS Naturals, FiniteSets

CONSTANTS Views,               \* of "tab", "detail", "admin"
          Channels, Here,      \* the channel of the pages of one channel
          Contacts, Nothing,
          Limits,              \* daily limits, 0 for none
          Toggles,             \* requests to pause or to resume
          MaxClicks, MaxFaults

PagesAssumption ==
    /\ Views \subseteq {"tab", "detail", "admin"} /\ Here \in Channels
    /\ Nothing \notin Channels \cup Contacts
    /\ Limits \subseteq Nat /\ {MaxClicks, MaxFaults} \subseteq Nat

VARIABLES view, route, saved, copy, people, table, form,
          toggle, toggling, \* requests, and the one the list shows as such
          change,           \* the other requests, one of each kind at a time
          target,           \* what a dialog asks about
          gate, past, clicks, faults

vars == <<view, route, saved, copy, people, table, form, toggle, toggling, change, target,
          gate, past, clicks, faults>>

-----------------------------------------------------------------------------
Status == {"active", "paused", "gone"}
Kinds == {"save", "block", "unblock", "erase", "delete", "rotate", "force"}
NoToggle == [at |-> "none", of |-> Nothing, to |-> "none"]
Idle == [at |-> "none", of |-> Nothing, limit |-> 0]

TypeOK ==
    /\ view \in Views \cup {"left"}
    /\ route \in [linked : BOOLEAN, owner : BOOLEAN]
    /\ saved \in [Channels -> [status : Status, limit : Limits]]
    /\ copy \in [known : BOOLEAN, get : BOOLEAN, is : [Channels -> [status : Status, limit : Limits]]]
    /\ people \in [Contacts -> {"active", "blocked", "gone"}]
    /\ table \in [known : BOOLEAN, get : BOOLEAN, is : [Contacts -> {"active", "blocked", "gone"}]]
    /\ form \in [started : BOOLEAN, open : BOOLEAN, limit : Limits]
    /\ toggle \in [Toggles -> [at : {"none", "sent", "done", "refused"},
                               of : Channels \cup {Nothing}, to : Status \cup {"none"}]]
    /\ toggling \in Channels \cup {Nothing}
    /\ change \in [Kinds -> [at : {"none", "sent", "done", "refused"},
                             of : Channels \cup Contacts \cup {Nothing}, limit : Limits \cup {0}]]
    /\ target \in Channels \cup Contacts \cup {Nothing}
    /\ gate \in [messages : BOOLEAN, asks : BOOLEAN, justified : BOOLEAN]
    /\ past \subseteq {"elsewhere"}
    /\ clicks \in 0 .. MaxClicks /\ faults \in 0 .. MaxFaults

Init ==
    /\ view \in Views
    /\ route \in {r \in [linked : BOOLEAN, owner : BOOLEAN] :
                    (view = "admin" \/ r.owner) /\ (view # "tab" \/ r.linked)}
    /\ saved \in {[c \in Channels |-> [status |-> "active", limit |-> n]] : n \in Limits \ {0}}
    /\ copy = [known |-> FALSE, get |-> TRUE, is |-> saved]
    /\ people = [u \in Contacts |-> "active"]
    /\ table = [known |-> FALSE, get |-> view # "tab" /\ route.linked, is |-> people]
    /\ form = [started |-> FALSE, open |-> FALSE, limit |-> CHOOSE n \in Limits : TRUE]
    /\ toggle = [t \in Toggles |-> NoToggle]
    /\ toggling = Nothing
    /\ change = [k \in Kinds |-> Idle]
    /\ target = Nothing
    /\ gate = [messages |-> FALSE, asks |-> FALSE, justified |-> FALSE]
    /\ past = {} /\ clicks = 0 /\ faults = 0

Click == clicks < MaxClicks /\ clicks' = clicks + 1
Fault == faults < MaxFaults /\ faults' = faults + 1

Shown(c) == view # "left" /\ copy.known /\ copy.is[c].status # "gone" /\ (view = "tab" \/ c = Here)

\* A change of a channel makes the pages' queries stale, the administrator's excepted.
Refetch == /\ copy' = [copy EXCEPT !.get = @ \/ view # "admin"]
           /\ table' = [table EXCEPT !.get = @ \/ (view # "tab" /\ route.linked)]

-----------------------------------------------------------------------------
(* What the pages hold                                                     *)

\* The form takes its values from the first answer, and from no other.
HearChannels ==
    /\ view # "left" /\ copy.get
    /\ \/ copy' = [known |-> TRUE, get |-> FALSE, is |-> saved] /\ UNCHANGED faults
       \/ copy' = [copy EXCEPT !.get = FALSE] /\ Fault
    /\ form' = IF copy'.known /\ ~ form.started
               THEN [form EXCEPT !.started = TRUE, !.limit = copy'.is[Here].limit] ELSE form
    /\ UNCHANGED <<view, route, saved, people, table, toggle, toggling, change, target, gate, past, clicks>>

\* A poll that would find nothing new is left out.
Poll ==
    /\ view = "tab" /\ ~ copy.get /\ copy.is # saved
    /\ copy' = [copy EXCEPT !.get = TRUE]
    /\ UNCHANGED <<view, route, saved, people, table, form, toggle, toggling, change, target, gate,
                   past, clicks, faults>>

HearContacts ==
    /\ view # "left" /\ table.get
    /\ \/ table' = [known |-> TRUE, get |-> FALSE, is |-> people] /\ UNCHANGED faults
       \/ table' = [table EXCEPT !.get = FALSE] /\ Fault
    /\ UNCHANGED <<view, route, saved, copy, people, form, toggle, toggling, change, target, gate,
                   past, clicks>>

\* The gateway pauses a channel, its owner changes it in another tab.
Elsewhere(c, s, n) ==
    /\ saved[c].status # "gone" /\ saved[c] # [status |-> s, limit |-> n]
    /\ Click
    /\ saved' = [saved EXCEPT ![c] = [status |-> s, limit |-> n]]
    /\ past' = {"elsewhere"}
    /\ UNCHANGED <<view, route, copy, people, table, form, toggle, toggling, change, target, gate, faults>>

-----------------------------------------------------------------------------
(* Pausing and resuming                                                    *)

\* The list shows one request at a time, and disables the button of that channel only.
handleTogglePause(t, c) ==
    /\ view \in {"tab", "detail"} /\ Shown(c)
    /\ toggling # c /\ (view = "tab" => target = Nothing /\ ~ form.open)
    /\ toggle[t].at = "none"
    /\ Click
    /\ toggle' = [toggle EXCEPT ![t] = [at |-> "sent", of |-> c,
                      to |-> IF copy.is[c].status = "paused" THEN "active" ELSE "paused"]]
    /\ toggling' = c
    /\ UNCHANGED <<view, route, saved, copy, people, table, form, change, target, gate, past, faults>>

ServeToggle(t) ==
    /\ toggle[t].at = "sent"
    /\ \/ /\ saved[toggle[t].of].status # "gone"
          /\ saved' = [saved EXCEPT ![toggle[t].of].status = toggle[t].to]
          /\ toggle' = [toggle EXCEPT ![t].at = "done"]
          /\ UNCHANGED faults
       \/ /\ \/ saved[toggle[t].of].status = "gone" /\ UNCHANGED faults
             \/ Fault
          /\ toggle' = [toggle EXCEPT ![t].at = "refused"]
          /\ UNCHANGED saved
    /\ UNCHANGED <<view, route, copy, people, table, form, toggling, change, target, gate, past, clicks>>

\* The button is enabled before the list has been read again.
HearToggle(t) ==
    /\ toggle[t].at \in {"done", "refused"}
    /\ toggle' = [toggle EXCEPT ![t] = NoToggle]
    /\ IF toggle[t].at = "done" THEN Refetch ELSE UNCHANGED <<copy, table>>
    /\ toggling' = Nothing
    /\ UNCHANGED <<view, route, saved, people, form, change, target, gate, past, clicks, faults>>

-----------------------------------------------------------------------------
(* Limits, tokens, contacts, deletion                                      *)

OpenSheet ==
    /\ view = "tab" /\ Shown(Here) /\ ~ form.open /\ target = Nothing
    /\ form' = [form EXCEPT !.open = TRUE]
    /\ UNCHANGED <<view, route, saved, copy, people, table, toggle, toggling, change, target, gate,
                   past, clicks, faults>>

TypeLimit(n) ==
    /\ view \in {"tab", "detail"} /\ Shown(Here) /\ (view = "tab" => form.open)
    /\ form.limit # n
    /\ Click
    /\ form' = [form EXCEPT !.limit = n]
    /\ UNCHANGED <<view, route, saved, copy, people, table, toggle, toggling, change, target, gate,
                   past, faults>>

CloseSheet ==
    /\ view = "tab" /\ form.open
    /\ form' = [form EXCEPT !.open = FALSE]
    /\ UNCHANGED <<view, route, saved, copy, people, table, toggle, toggling, change, target, gate,
                   past, clicks, faults>>

Ask(kind, of) ==
    /\ change[kind].at = "none"
    /\ Click
    /\ change' = [change EXCEPT ![kind] = [at |-> "sent", of |-> of,
                                           limit |-> IF kind = "save" THEN form.limit ELSE 0]]
    /\ UNCHANGED <<view, route, saved, copy, people, table, form, toggle, toggling, gate, past, faults>>

handleSave ==
    /\ view \in {"tab", "detail"} /\ Shown(Here) /\ (view = "tab" => form.open)
    /\ Ask("save", Here) /\ UNCHANGED target

\* No new credentials are asked for, and none are sent.
handleRotateToken == view = "detail" /\ Shown(Here) /\ Ask("rotate", Here) /\ UNCHANGED target

handleBlock(u) ==
    /\ view \in {"detail", "admin"} /\ Shown(Here) /\ table.known /\ target = Nothing
    /\ \/ table.is[u] = "active" /\ Ask("block", u)
       \/ table.is[u] = "blocked" /\ Ask("unblock", u)
    /\ UNCHANGED target

AskAbout(x) ==
    /\ target = Nothing
    /\ \/ x \in Channels /\ view = "tab" /\ Shown(x) /\ ~ form.open
       \/ x = Here /\ view = "detail" /\ Shown(x)
       \/ x \in Contacts /\ view \in {"detail", "admin"} /\ Shown(Here) /\ table.known /\ table.is[x] # "gone"
    /\ Click
    /\ target' = x
    /\ UNCHANGED <<view, route, saved, copy, people, table, form, toggle, toggling, change, gate, past, faults>>

Keep ==
    /\ target # Nothing
    /\ target' = Nothing
    /\ UNCHANGED <<view, route, saved, copy, people, table, form, toggle, toggling, change, gate,
                   past, clicks, faults>>

\* The list's dialog waits for the answer, the others close with the click.
handleDelete ==
    /\ target # Nothing
    /\ Ask(IF target \in Contacts THEN "erase" ELSE "delete", target)
    /\ target' = IF view = "tab" THEN target ELSE Nothing

\* Both of the administrator's buttons pause; the backend lets an owner do so.
handleForce(disconnect) ==
    /\ view = "admin" /\ Shown(Here) /\ target = Nothing
    /\ disconnect \/ copy.is[Here].status # "paused"
    /\ Ask("force", Here) /\ UNCHANGED target

Allowed(k) ==
    CASE k = "rotate" -> FALSE
      [] k = "force" -> route.linked /\ route.owner /\ saved[Here].status # "gone"
      [] k = "delete" -> saved[change[k].of].status # "gone"
      [] OTHER -> route.owner /\ saved[Here].status # "gone"

\* A limit of 0 is left out of what is sent.
Serve(k) ==
    /\ change[k].at = "sent"
    /\ \/ /\ Allowed(k)
          /\ change' = [change EXCEPT ![k].at = "done"]
          /\ saved' = CASE k = "save" /\ change[k].limit # 0 ->
                             [saved EXCEPT ![Here].limit = change[k].limit]
                        [] k = "delete" -> [saved EXCEPT ![change[k].of].status = "gone"]
                        [] k = "force" -> [saved EXCEPT ![Here].status = "paused"]
                        [] OTHER -> saved
          /\ people' = CASE k = "block" -> [people EXCEPT ![change[k].of] = "blocked"]
                         [] k = "unblock" -> [people EXCEPT ![change[k].of] = "active"]
                         [] k = "erase" -> [people EXCEPT ![change[k].of] = "gone"]
                         [] OTHER -> people
          /\ UNCHANGED faults
       \/ /\ \/ ~ Allowed(k) /\ UNCHANGED faults
             \/ Fault
          /\ change' = [change EXCEPT ![k].at = "refused"]
          /\ UNCHANGED <<saved, people>>
    /\ UNCHANGED <<view, route, copy, table, form, toggle, toggling, target, gate, past, clicks>>

Hear(k) ==
    /\ view # "left" /\ change[k].at \in {"done", "refused"}
    /\ change' = [change EXCEPT ![k] = Idle]
    /\ IF change[k].at = "done" THEN Refetch ELSE UNCHANGED <<copy, table>>
    /\ form' = [form EXCEPT !.open = @ /\ ~ (k = "save" /\ change[k].at = "done")]
    /\ target' = IF k = "erase" \/ (k = "delete" /\ change[k].at = "done") THEN Nothing ELSE target
    /\ view' = IF k = "delete" /\ change[k].at = "done" /\ view = "detail" THEN "left" ELSE view
    /\ UNCHANGED <<route, saved, people, toggle, toggling, gate, past, clicks, faults>>

-----------------------------------------------------------------------------
(* The administrator's view of the messages                                *)

handleMessagesTabClick ==
    /\ view = "admin" /\ Shown(Here) /\ ~ gate.asks /\ ~ (gate.messages /\ gate.justified)
    /\ gate' = [gate EXCEPT !.messages = TRUE, !.asks = ~ gate.justified]
    /\ UNCHANGED <<view, route, saved, copy, people, table, form, toggle, toggling, change, target,
                   past, clicks, faults>>

handleJustification(confirmed) ==
    /\ view = "admin" /\ gate.asks
    /\ Click
    /\ gate' = [messages |-> confirmed, asks |-> FALSE, justified |-> confirmed]
    /\ UNCHANGED <<view, route, saved, copy, people, table, form, toggle, toggling, change, target,
                   past, faults>>

LeaveMessages ==
    /\ view = "admin" /\ gate.messages /\ ~ gate.asks
    /\ gate' = [gate EXCEPT !.messages = FALSE]
    /\ UNCHANGED <<view, route, saved, copy, people, table, form, toggle, toggling, change, target,
                   past, clicks, faults>>

-----------------------------------------------------------------------------
Next ==
    \/ HearChannels \/ Poll \/ HearContacts
    \/ \E c \in Channels, s \in {"active", "paused"}, n \in Limits : Elsewhere(c, s, n)
    \/ \E t \in Toggles : \/ \E c \in Channels : handleTogglePause(t, c)
                          \/ ServeToggle(t) \/ HearToggle(t)
    \/ OpenSheet \/ CloseSheet \/ handleSave \/ handleRotateToken \/ Keep \/ handleDelete
    \/ \E n \in Limits : TypeLimit(n)
    \/ \E u \in Contacts : handleBlock(u)
    \/ \E x \in Channels \cup Contacts : AskAbout(x)
    \/ \E d \in BOOLEAN : handleForce(d) \/ handleJustification(d)
    \/ \E k \in Kinds : Serve(k) \/ Hear(k)
    \/ handleMessagesTabClick \/ LeaveMessages

Spec == Init /\ [][Next]_vars

\* The list's timer goes on, and a request is answered or given up.
Fairness == WF_vars(Poll) /\ WF_vars(HearChannels)
FairSpec == Spec /\ Fairness

-----------------------------------------------------------------------------
AllHeard ==
    /\ ~ copy.get
    /\ \A t \in Toggles : toggle[t].at # "done"
    /\ \A k \in Kinds : change[k].at # "done"

(* Once every answer has been heard and the list read again, a page shows  *)
(* what its channels are, in whatever order two requests for one channel   *)
(* were served: the list disables the button of the channel clicked last   *)
(* and of no other, so that two may be under way and contradict each other *)
(* (togglingId in channels-tab.tsx).  A change made elsewhere and a        *)
(* request that fails aside.                                               *)
PagesCatchUp ==
    view \in {"tab", "detail"} /\ past = {} /\ faults = 0 /\ AllHeard => copy.is = saved

(* The list comes to show what the channels are, whatever changed them and *)
(* whatever answers were missed (refetchInterval in use-channels.ts).      *)
ListCatchesUp == []<>(view = "tab" => copy.is = saved)
=============================================================================
