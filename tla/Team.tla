-------------------------------- MODULE Team --------------------------------
(***************************************************************************)
(* The page of organizations, their members and their teams                *)
(* (dashboard/team/page.tsx, components/layout/org-switcher.tsx) and the   *)
(* service behind it (services/org_service.py).                            *)
(*                                                                         *)
(* The page acts on the organization selected; a change under way goes on  *)
(* when another one is selected, and the hooks then have its answer ask    *)
(* for the lists of the one selected since.  Other administrators change   *)
(* roles and remove members meanwhile.  The service counts the owners, and *)
(* writes after that.                                                      *)
(***************************************************************************)
EXTENDS Naturals, FiniteSets

CONSTANTS Orgs, First,    \* organizations, one of which exists
          Others,         \* the people besides the user
          Me, Nothing,
          MaxClicks, MaxOthers, MaxFaults

TeamAssumption ==
    /\ First \in Orgs /\ Me \notin Others /\ Nothing \notin Orgs \cup Others \cup {Me}
    /\ {MaxClicks, MaxOthers, MaxFaults} \subseteq Nat

VARIABLES selected, email, teamName, dialog,   \* the page; dialog: "closed", "blank", "named"
          orgs, members, teams,                \* its lists, by organization
          gets,                                \* looks at lists under way
          calls,                               \* its changes under way
          exists, role, hasTeam,               \* the database; hasTeam: a team of each name
          removals,                            \* what others are about to take from owners
          raced,                               \* two counts of an organization's owners overlapped
          clicks, others, faults

page == <<selected, email, teamName, dialog>>
lists == <<orgs, members, teams>>
db == <<exists, role, hasTeam>>
vars == <<page, lists, gets, calls, db, removals, raced, clicks, others, faults>>

-----------------------------------------------------------------------------
People == Others \cup {Me}
Roles == {"owner", "member", "none"}
Kinds == {"org", "invite", "team", "remove", "unteam"}
Lists == {"orgs", "members", "teams"}
Get == [list : Lists, org : Orgs \cup {Nothing}]
Call == [kind : Kinds, org : Orgs, arg : People \cup {Nothing}, hears : Orgs \cup {Nothing},
         current : BOOLEAN, at : {"sent", "counted", "done", "refused"}]

TypeOK ==
    /\ selected \in Orgs \cup {Nothing} /\ email \in Others \cup {Nothing}
    /\ teamName \in BOOLEAN /\ dialog \in {"closed", "blank", "named"}
    /\ orgs \subseteq Orgs /\ members \in [Orgs -> [People -> Roles]] /\ teams \in [Orgs -> BOOLEAN]
    /\ gets \subseteq Get /\ calls \subseteq Call
    /\ exists \subseteq Orgs /\ role \in [Orgs -> [People -> Roles]] /\ hasTeam \in [Orgs -> BOOLEAN]
    /\ removals \subseteq [org : Orgs, person : People, to : {"member", "none"}]
    /\ raced \in BOOLEAN
    /\ clicks \in 0 .. MaxClicks /\ others \in 0 .. MaxOthers /\ faults \in 0 .. MaxFaults

Nobody == [m \in People |-> "none"]

Init ==
    /\ selected = Nothing /\ email = Nothing /\ teamName = FALSE /\ dialog = "closed"
    /\ orgs = {} /\ members = [o \in Orgs |-> Nobody] /\ teams = [o \in Orgs |-> FALSE]
    /\ gets = {[list |-> "orgs", org |-> Nothing]} /\ calls = {}
    /\ exists = {First} /\ hasTeam = [o \in Orgs |-> FALSE]
    /\ role = [o \in Orgs |-> IF o = First THEN [Nobody EXCEPT ![Me] = "owner"] ELSE Nobody]
    /\ removals = {} /\ raced = FALSE /\ clicks = 0 /\ others = 0 /\ faults = 0

Click == clicks < MaxClicks /\ clicks' = clicks + 1
Pending(k) == \E c \in calls : c.kind = k /\ c.current

\* Selecting another organization gives the hooks its lists; those they have are
\* asked for again, and each hook's latest change under way is now heard as one of
\* the new organization.
Selected(o) ==
    /\ selected' = o
    /\ gets' = IF o = Nothing THEN gets
               ELSE gets \cup {[list |-> l, org |-> o] : l \in {"members", "teams"}}

Rehear(o, c) == IF c.current /\ c.kind # "org" THEN [c EXCEPT !.hears = o] ELSE c

Send(k, arg) ==
    /\ Click
    /\ calls' = {IF c.kind = k THEN [c EXCEPT !.current = FALSE] ELSE c : c \in calls}
                \cup {[kind |-> k, org |-> selected, arg |-> arg, hears |-> selected,
                       current |-> TRUE, at |-> "sent"]}
    /\ UNCHANGED <<page, lists, gets, db, removals, raced, others, faults>>

-----------------------------------------------------------------------------
(* The page                                                                *)

onSelect(o) ==
    /\ Click /\ o \in orgs \cup {Nothing} /\ o # selected
    /\ Selected(o)
    /\ calls' = {Rehear(o, c) : c \in calls}
    /\ UNCHANGED <<email, teamName, dialog, lists, db, removals, raced, others, faults>>

Fill(e, t, d) ==
    /\ Click /\ <<e, t, d>> # <<email, teamName, dialog>>
    /\ <<e, t>> # <<email, teamName>> => selected # Nothing
    /\ email' = e /\ teamName' = t /\ dialog' = d
    /\ UNCHANGED <<selected, lists, gets, calls, db, removals, raced, others, faults>>

handleCreate(o) ==
    /\ dialog = "named" /\ ~ Pending("org")
    /\ Click
    /\ calls' = calls \cup {[kind |-> "org", org |-> o, arg |-> Nothing, hears |-> Nothing,
                             current |-> TRUE, at |-> "sent"]}
    /\ UNCHANGED <<page, lists, gets, db, removals, raced, others, faults>>

handleInvite == selected # Nothing /\ email # Nothing /\ ~ Pending("invite") /\ Send("invite", email)
handleCreateTeam == selected # Nothing /\ teamName /\ ~ Pending("team") /\ Send("team", Nothing)

\* At once, without a question or a guard, for every row not shown as an owner's.
removeMember(m) ==
    /\ selected # Nothing /\ members[selected][m] = "member"
    /\ Send("remove", m)

deleteTeam == selected # Nothing /\ teams[selected] /\ Send("unteam", Nothing)

-----------------------------------------------------------------------------
(* The service                                                             *)

Owners(o) == {m \in People : role[o][m] = "owner"}

To(c, at) == calls' = (calls \ {c}) \cup {[c EXCEPT !.at = at]}

\* Only an owner may remove; the user, as the owner of what it made, may do the rest.
require_org_role(c) == c.kind = "org" \/ role[c.org][Me] = "owner"

Possible(c) ==
    CASE c.kind = "org"    -> c.org \notin exists            \* the name in the URL is free
      [] c.kind = "invite" -> role[c.org][c.arg] = "none"    \* not yet a member
      [] c.kind = "team"   -> TRUE
      [] c.kind = "remove" -> role[c.org][c.arg] # "none"
      [] c.kind = "unteam" -> hasTeam[c.org]

\* Mutant of IsLastOwner: off by one.
IsNoOwnerLeft(o, m) == role[o][m] = "owner" /\ Cardinality(Owners(o)) < 1

\* The last owner is not removed: by the count taken before the removal.
IsLastOwner(o, m) == role[o][m] = "owner" /\ Cardinality(Owners(o)) <= 1

Counted(o) == (\E c \in calls : c.at = "counted" /\ c.org = o) \/ (\E r \in removals : r.org = o)

Refuse(c) ==
    /\ c.at = "sent"
    /\ \/ ~ require_org_role(c) \/ ~ Possible(c)
       \/ c.kind = "remove" /\ IsLastOwner(c.org, c.arg)
    /\ To(c, "refused")
    /\ UNCHANGED <<page, lists, gets, db, removals, raced, clicks, others, faults>>

Handle(c) ==
    /\ c.at = "sent" /\ c.kind # "remove" /\ require_org_role(c) /\ Possible(c)
    /\ exists' = IF c.kind = "org" THEN exists \cup {c.org} ELSE exists
    /\ role' = CASE c.kind = "org"    -> [role EXCEPT ![c.org][Me] = "owner"]
                 [] c.kind = "invite" -> [role EXCEPT ![c.org][c.arg] = "member"]
                 [] OTHER             -> role
    /\ hasTeam' = IF c.kind \in {"team", "unteam"} THEN [hasTeam EXCEPT ![c.org] = c.kind = "team"]
                  ELSE hasTeam
    /\ To(c, "done")
    /\ UNCHANGED <<page, lists, gets, removals, raced, clicks, others, faults>>

remove_member(c) ==
    /\ c.at = "sent" /\ c.kind = "remove" /\ require_org_role(c) /\ Possible(c)
    /\ ~ IsLastOwner(c.org, c.arg)
    /\ To(c, "counted")
    /\ raced' = (raced \/ Counted(c.org))
    /\ UNCHANGED <<page, lists, gets, db, removals, clicks, others, faults>>

Remove(c) ==
    /\ c.at = "counted"
    /\ role' = [role EXCEPT ![c.org][c.arg] = "none"]
    /\ To(c, "done")
    /\ UNCHANGED <<page, lists, gets, exists, hasTeam, removals, raced, clicks, others, faults>>

\* Another administrator makes a member an owner ...
Promote(o, m) ==
    /\ others < MaxOthers /\ others' = others + 1
    /\ role[o][m] = "member"
    /\ role' = [role EXCEPT ![o][m] = "owner"]
    /\ UNCHANGED <<page, lists, gets, calls, exists, hasTeam, removals, raced, clicks, faults>>

\* ... or takes that from an owner, once the count allows it.
update_member_role(o, m, to) ==
    /\ others < MaxOthers /\ others' = others + 1
    /\ role[o][m] = "owner" /\ ~ IsLastOwner(o, m)
    /\ removals' = removals \cup {[org |-> o, person |-> m, to |-> to]}
    /\ raced' = (raced \/ Counted(o))
    /\ UNCHANGED <<page, lists, gets, calls, db, clicks, faults>>

Take(r) ==
    /\ r \in removals
    /\ role' = [role EXCEPT ![r.org][r.person] = r.to]
    /\ removals' = removals \ {r}
    /\ UNCHANGED <<page, lists, gets, calls, exists, hasTeam, raced, clicks, others, faults>>

-----------------------------------------------------------------------------
(* The answers                                                             *)

\* A new organization is selected when its answer comes, whatever was selected since.
HearOrg(c) ==
    /\ c.at = "done" /\ c.kind = "org"
    /\ selected' = c.org
    /\ gets' = gets \cup [list : {"members", "teams"}, org : {c.org}]
                    \cup {[list |-> "orgs", org |-> Nothing]}
    /\ calls' = {Rehear(c.org, d) : d \in calls \ {c}}
    /\ dialog' = "closed"
    /\ UNCHANGED <<email, teamName, lists, db, removals, raced, clicks, others, faults>>

\* The list asked for again is that of the organization the hook has by now; the
\* field is emptied, whatever was typed since.
Hear(c) ==
    /\ c.at = "done" /\ c.kind # "org"
    /\ calls' = calls \ {c}
    /\ gets' = IF c.hears = Nothing THEN gets
               ELSE gets \cup {[list |-> IF c.kind \in {"invite", "remove"} THEN "members" ELSE "teams",
                                org |-> c.hears]}
    /\ email' = IF c.kind = "invite" THEN Nothing ELSE email
    /\ teamName' = (teamName /\ c.kind # "team")
    /\ UNCHANGED <<selected, dialog, lists, db, removals, raced, clicks, others, faults>>

\* A refusal or a failure says nothing.
HearRefusal(c) ==
    /\ c.at = "refused"
    /\ calls' = calls \ {c}
    /\ UNCHANGED <<page, lists, gets, db, removals, raced, clicks, others, faults>>

Lose(c) ==
    /\ faults < MaxFaults /\ faults' = faults + 1
    /\ c.at \in {"sent", "done"}
    /\ calls' = calls \ {c}
    /\ UNCHANGED <<page, lists, gets, db, removals, raced, clicks, others>>

HearList(g) ==
    /\ g \in gets
    /\ gets' = gets \ {g}
    /\ orgs' = IF g.list = "orgs" THEN {o \in exists : role[o][Me] # "none"} ELSE orgs
    /\ members' = IF g.list = "members" THEN [members EXCEPT ![g.org] = role[g.org]] ELSE members
    /\ teams' = IF g.list = "teams" THEN [teams EXCEPT ![g.org] = hasTeam[g.org]] ELSE teams
    /\ UNCHANGED <<page, calls, db, removals, raced, clicks, others, faults>>

Next ==
    \/ \E o \in Orgs \cup {Nothing} : onSelect(o)
    \/ \E e \in Others \cup {Nothing} : Fill(e, teamName, dialog)
    \/ \E t \in BOOLEAN : Fill(email, t, dialog)
    \/ \E d \in {"closed", "blank", "named"} : Fill(email, teamName, d)
    \/ \E o \in Orgs : handleCreate(o)
    \/ handleInvite \/ handleCreateTeam \/ deleteTeam
    \/ \E m \in People : removeMember(m)
    \/ \E c \in calls : Refuse(c) \/ Handle(c) \/ remove_member(c) \/ Remove(c)
                        \/ HearOrg(c) \/ Hear(c) \/ HearRefusal(c) \/ Lose(c)
    \/ \E o \in Orgs, m \in People : \/ Promote(o, m)
                                     \/ \E to \in {"member", "none"} : update_member_role(o, m, to)
    \/ \E r \in removals : Take(r)
    \/ \E g \in gets : HearList(g)

Spec == Init /\ [][Next]_vars

-----------------------------------------------------------------------------
\* An organization that exists has an owner, as long as the counts of its owners did
\* not overlap: a row shown as a member's may be an owner's by the time it is removed
\* (org_service.py, remove_member and update_member_role).
OwnerRemains == ~ raced => \A o \in exists : Owners(o) # {}
=============================================================================
