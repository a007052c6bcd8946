---------------------------- MODULE ToolServers ----------------------------
(***************************************************************************)
(* The page of a user's tool servers and of the grants that let agents use *)
(* them (dashboard/mcp/page.tsx, lib/hooks/use-mcp.ts, api/mcp_servers.py).*)
(* Deleting a server deletes its grants; the list of grants is another     *)
(* question of the page, which only a revocation asks again.               *)
(***************************************************************************)
EXTENDS Naturals, FiniteSets

CONSTANTS Servers, First,    \* servers, one of which is registered
          MaxClicks, MaxFaults

ServersAssumption ==
    /\ First \in Servers
    /\ {MaxClicks, MaxFaults} \subseteq Nat

VARIABLES dialog, name,      \* the dialog is open; what is typed in it
          listed,            \* the servers shown, those whose tools are shown, the grants
          gets, calls,       \* looks and changes under way
          servers, tools, grants,
          used,              \* identities given to servers so far
          clicks, faults

db == <<servers, tools, grants>>
vars == <<dialog, name, listed, gets, calls, db, used, clicks, faults>>

-----------------------------------------------------------------------------
Kinds == {"create", "delete", "refresh", "revoke"}
Call == [kind : Kinds, server : Servers, at : {"sent", "asking", "done", "failed"}]

TypeOK ==
    /\ dialog \in BOOLEAN /\ name \in BOOLEAN
    /\ listed \in [servers : SUBSET Servers, tools : SUBSET Servers, grants : SUBSET Servers]
    /\ gets \subseteq {"servers", "grants"} /\ calls \subseteq Call
    /\ servers \subseteq used /\ used \subseteq Servers /\ tools \subseteq servers
    /\ grants \subseteq servers                 \* a grant goes with its server
    /\ clicks \in 0 .. MaxClicks /\ faults \in 0 .. MaxFaults

Init ==
    /\ dialog = FALSE /\ name = FALSE
    /\ listed = [servers |-> {}, tools |-> {}, grants |-> {}]
    /\ gets = {"servers", "grants"} /\ calls = {}
    /\ used = {First} /\ servers = {First} /\ tools = {} /\ grants = {First}
    /\ clicks = 0 /\ faults = 0

Click == clicks < MaxClicks /\ clicks' = clicks + 1

Send(k, s) ==
    /\ Click
    /\ calls' = calls \cup {[kind |-> k, server |-> s, at |-> "sent"]}
    /\ UNCHANGED <<dialog, name, listed, gets, db, faults>>

Pending(k, S) == \E c \in calls : c.kind = k /\ c.server \in S

-----------------------------------------------------------------------------
(* The page                                                                *)

SetDialog ==
    /\ Click
    /\ dialog' = ~ dialog
    /\ UNCHANGED <<name, listed, gets, calls, db, used, faults>>

TypeName ==
    /\ Click /\ dialog /\ ~ name
    /\ name' = TRUE
    /\ UNCHANGED <<dialog, listed, gets, calls, db, used, faults>>

\* The button waits for the registration under way, of a closed dialog too.  The
\* identity is the one the service gives.
handleSubmit(s) ==
    /\ dialog /\ name /\ ~ Pending("create", Servers)
    /\ s \notin used /\ used' = used \cup {s}
    /\ Send("create", s)

\* Of a card's two buttons only the one that refreshes waits.
RefreshTools(s) == s \in listed.servers /\ ~ Pending("refresh", {s}) /\ Send("refresh", s) /\ UNCHANGED used
DeleteServer(s) == s \in listed.servers /\ Send("delete", s) /\ UNCHANGED used
RevokeGrant(s)  == s \in listed.grants /\ Send("revoke", s) /\ UNCHANGED used

-----------------------------------------------------------------------------
(* The service; its calls are not repeated                                 *)

To(c, at) == calls' = (calls \ {c}) \cup {[c EXCEPT !.at = at]}

Handle(c) ==
    /\ c.at = "sent" /\ c.kind # "refresh"
    /\ CASE c.kind = "create" -> TRUE
         [] c.kind = "delete" -> c.server \in servers
         [] c.kind = "revoke" -> c.server \in grants
    /\ servers' = CASE c.kind = "create" -> servers \cup {c.server}
                    [] c.kind = "delete" -> servers \ {c.server}
                    [] OTHER             -> servers
    /\ tools' = IF c.kind = "delete" THEN tools \ {c.server} ELSE tools
    /\ grants' = IF c.kind \in {"delete", "revoke"} THEN grants \ {c.server} ELSE grants
    /\ To(c, "done")
    /\ UNCHANGED <<dialog, name, listed, gets, used, clicks, faults>>

\* A refresh asks the server itself for its tools, which are stored after that: the
\* server may be gone by then.
AskServer(c) ==
    /\ c.at = "sent" /\ c.kind = "refresh" /\ c.server \in servers
    /\ To(c, "asking")
    /\ UNCHANGED <<dialog, name, listed, gets, db, used, clicks, faults>>

StoreTools(c) ==
    /\ c.at = "asking"
    /\ tools' = (tools \cup {c.server}) \cap servers
    /\ To(c, IF c.server \in servers THEN "done" ELSE "failed")
    /\ UNCHANGED <<dialog, name, listed, gets, servers, grants, used, clicks, faults>>

Refuse(c) ==
    /\ c.at = "sent"
    /\ \/ c.kind \in {"delete", "refresh"} /\ c.server \notin servers
       \/ c.kind = "revoke" /\ c.server \notin grants
    /\ To(c, "failed")
    /\ UNCHANGED <<dialog, name, listed, gets, db, used, clicks, faults>>

\* A grant is made elsewhere.
Grant(s) ==
    /\ s \in servers \ grants
    /\ faults < MaxFaults /\ faults' = faults + 1
    /\ grants' = grants \cup {s}
    /\ UNCHANGED <<dialog, name, listed, gets, calls, servers, tools, used, clicks>>

-----------------------------------------------------------------------------
(* The answers                                                             *)

Refetched(c) == IF c.kind = "revoke" THEN {"grants"} ELSE {"servers"}

\* A registration closes the dialog and empties it, even one opened since.
Hear(c) ==
    /\ c.at = "done"
    /\ calls' = calls \ {c}
    /\ gets' = gets \cup Refetched(c)
    /\ dialog' = (dialog /\ c.kind # "create")
    /\ name' = (name /\ c.kind # "create")
    /\ UNCHANGED <<listed, db, used, clicks, faults>>

\* A failure is told in the dialog, and nowhere for the cards and the grants.
HearFailure(c) ==
    /\ c.at = "failed"
    /\ calls' = calls \ {c}
    /\ UNCHANGED <<dialog, name, listed, gets, db, used, clicks, faults>>

Lose(c) ==
    /\ c.at \in {"sent", "done"}
    /\ faults < MaxFaults /\ faults' = faults + 1
    /\ To(c, "failed")
    /\ UNCHANGED <<dialog, name, listed, gets, db, used, clicks>>

HearList(l) ==
    /\ l \in gets
    /\ gets' = gets \ {l}
    /\ listed' = IF l = "servers" THEN [listed EXCEPT !.servers = servers, !.tools = tools]
                 ELSE [listed EXCEPT !.grants = grants]
    /\ UNCHANGED <<dialog, name, calls, db, used, clicks, faults>>

Next ==
    \/ SetDialog \/ TypeName
    \/ \E s \in Servers : handleSubmit(s) \/ RefreshTools(s) \/ DeleteServer(s) \/ RevokeGrant(s) \/ Grant(s)
    \/ \E c \in calls : Handle(c) \/ AskServer(c) \/ StoreTools(c) \/ Refuse(c) \/ Hear(c) \/ HearFailure(c) \/ Lose(c)
    \/ \E l \in {"servers", "grants"} : HearList(l)

Spec == Init /\ [][Next]_vars

-----------------------------------------------------------------------------
\* With nothing under way and nothing lost, the page shows the servers there are, their
\* tools, and every grant there is: what it shows too much is the grants that went
\* with a deleted server.
ServersCatchUp ==
    calls = {} /\ gets = {} /\ faults = 0 =>
        /\ listed.servers = servers /\ listed.tools = tools
        /\ grants \subseteq listed.grants /\ listed.grants \cap servers = grants
=============================================================================
