---------------------------- MODULE AdminTables ----------------------------
(***************************************************************************)
(* The administrators' tables of agents and of users and their queue of    *)
(* agents to verify (app/admin), with the table they are shown in          *)
(* (components/shared/data-table.tsx) and the calls behind their buttons   *)
(* (api/admin.py).                                                         *)
(*                                                                         *)
(* A button sends a value worked out from the row as it is shown.  The     *)
(* good answer has the list asked for again; a change that its handler     *)
(* does not commit itself is committed by the session's dependency, before *)
(* or after the answer leaves, by the version of the web framework.        *)
(***************************************************************************)
EXTENDS Naturals, FiniteSets

CONSTANTS Views,       \* among "agents", "users", "governance"
          Last,        \* the rows are 1 .. Last in the order of the list
          PageSize,
          MaxClicks, MaxOthers, MaxFaults

AdminAssumption ==
    /\ Views \subseteq {"agents", "users", "governance"}
    /\ {Last, PageSize} \subseteq Nat \ {0}
    /\ {MaxClicks, MaxOthers, MaxFaults} \subseteq Nat

VARIABLES view,
          row,         \* the database: of each entry its status and level, or Gone
          list,        \* the entries as the page has them
          get,         \* the look at the list: none, asked, or what it has read
          calls,       \* changes under way
          left,        \* changes went on unheard when the page was loaded anew
          even, order, index,    \* the table: search, sorting, page
          clicks, others, faults

table == <<even, order, index>>
vars == <<view, row, list, get, calls, left, table, clicks, others, faults>>

-----------------------------------------------------------------------------
Entries == 1 .. Last
Gone == [status |-> "gone", level |-> "gone"]

\* Of a user, the status says whether it is active and the level whether it is an admin.
Values(field) ==
    IF view = "users"
    THEN IF field = "status" THEN {"active", "inactive"} ELSE {"user", "admin"}
    ELSE IF field = "status" THEN {"active", "inactive", "suspended"}
         ELSE {"new", "verified", "certified"}

Rows == [status : Values("status"), level : Values("level")] \cup {Gone}
NoGet == [at |-> "no", read |-> <<>>]
Call == [entry : Entries, field : {"status", "level", "delete"},
         value : Values("status") \cup Values("level") \cup {"gone"},
         at : {"sent", "written", "answered", "done"}]

TypeOK ==
    /\ view \in Views
    /\ row \in [Entries -> Rows] /\ list \in [Entries -> Rows]
    /\ get.at \in {"no", "asked", "read"} /\ (get.at = "read" => get.read \in [Entries -> Rows])
    /\ calls \subseteq Call /\ left \in BOOLEAN
    /\ even \in BOOLEAN /\ order \in {"none", "asc", "desc"} /\ index \in 0 .. Last
    /\ clicks \in 0 .. MaxClicks /\ others \in 0 .. MaxOthers /\ faults \in 0 .. MaxFaults

Init ==
    /\ view \in Views
    /\ row = [e \in Entries |-> IF view = "users" THEN [status |-> "active", level |-> "user"]
                                ELSE [status |-> "active", level |-> "new"]]
    /\ list = row /\ get = NoGet /\ calls = {} /\ left = FALSE
    /\ even = FALSE /\ order = "none" /\ index = 0
    /\ clicks = 0 /\ others = 0 /\ faults = 0

-----------------------------------------------------------------------------
(* The table                                                               *)

\* The rows found; a search stands for the one that finds the even entries.
Found == {e \in Entries : list[e] # Gone /\ (even => e % 2 = 0)}

Before(d, e) == IF order = "desc" THEN d > e ELSE d < e

\* The rows on the page that is open; the queue of agents to verify is not paged.
Visible ==
    IF view = "governance" THEN {e \in Entries : list[e] # Gone}
    ELSE {e \in Found : Cardinality({d \in Found : Before(d, e)}) \div PageSize = index}

Click == clicks < MaxClicks /\ clicks' = clicks + 1

\* A new search or order goes back to the first page; an order is turned over.
Search ==
    /\ Click /\ view # "governance"
    /\ even' = ~ even /\ index' = 0
    /\ UNCHANGED <<view, row, list, get, calls, left, order, others, faults>>

Sort ==
    /\ Click /\ view # "governance"
    /\ order' = IF order = "asc" THEN "desc" ELSE "asc"
    /\ index' = 0
    /\ UNCHANGED <<view, row, list, get, calls, left, even, others, faults>>

Turn(i) ==
    /\ Click /\ view # "governance"
    /\ \/ i = index + 1 /\ i * PageSize < Cardinality(Found)
       \/ i + 1 = index
    /\ index' = i
    /\ UNCHANGED <<view, row, list, get, calls, left, even, order, others, faults>>

-----------------------------------------------------------------------------
(* The buttons                                                             *)

\* A user's row has one mutation for both its buttons, the queue one for all its
\* rows, an agent's row one for each field.
Busy(e, field) ==
    \E c \in calls : \/ view = "governance"
                     \/ view = "users" /\ c.entry = e
                     \/ c.entry = e /\ c.field = field /\ field # "delete"

Send(e, field, value) ==
    /\ Click /\ e \in Visible
    /\ ~ Busy(e, field)
    /\ calls' = calls \cup {[entry |-> e, field |-> field, value |-> value, at |-> "sent"]}
    /\ UNCHANGED <<view, row, list, get, left, table, others, faults>>

\* The negation of what is shown: of a suspended agent too, which comes back active.
toggleStatus(e) ==
    /\ view \in {"agents", "users"}
    /\ Send(e, "status", IF list[e].status = "active" THEN "inactive" ELSE "active")

suspendAgent(e) ==
    /\ view = "agents" /\ list[e].status # "suspended"
    /\ Send(e, "status", "suspended")

toggleAdmin(e) ==
    /\ view = "users"
    /\ Send(e, "level", IF list[e].level = "admin" THEN "user" ELSE "admin")

setVerification(e, level) ==
    /\ view = "agents" /\ list[e].level # level
    /\ Send(e, "level", level)

\* The queue has no row for a certified agent.
handleVerification(e, level) ==
    /\ view = "governance"
    /\ \/ list[e].level = "new" /\ level \in {"verified", "certified"}
       \/ list[e].level = "verified" /\ level \in {"new", "certified"}
    /\ Send(e, "level", level)

\* Two confirmations and no guard.
deleteAgent(e) ==
    /\ view = "agents"
    /\ Send(e, "delete", "gone")

-----------------------------------------------------------------------------
(* The service                                                             *)

Written(c, r) == IF c.field = "delete" \/ r = Gone THEN Gone
                 ELSE IF c.field = "status" THEN [r EXCEPT !.status = c.value]
                 ELSE [r EXCEPT !.level = c.value]

Replace(c, at) == calls' = (calls \ {c}) \cup {[c EXCEPT !.at = at]}

\* Handlers that commit: those of the verification level and of the deletion.
Commits(c) == view # "users" /\ c.field \in {"level", "delete"}

Handle(c) ==
    /\ c.at = "sent" /\ row[c.entry] # Gone
    /\ IF Commits(c)
       THEN /\ row' = [row EXCEPT ![c.entry] = Written(c, @)]
            /\ Replace(c, "done")
       ELSE /\ Replace(c, "written") /\ UNCHANGED row
    /\ UNCHANGED <<view, list, get, left, table, clicks, others, faults>>

\* The commit of the session's dependency: "written" before the answer is heard,
\* "answered" after it.
Commit(c) ==
    /\ c.at \in {"written", "answered"}
    /\ row' = [row EXCEPT ![c.entry] = Written(c, @)]
    /\ IF c.at = "written" THEN Replace(c, "done") ELSE calls' = calls \ {c}
    /\ UNCHANGED <<view, list, get, left, table, clicks, others, faults>>

ReadList ==
    /\ get.at = "asked"
    /\ get' = [at |-> "read", read |-> row]
    /\ UNCHANGED <<view, row, list, calls, left, table, clicks, others, faults>>

\* Another administrator, or the owner of the agent.
Other(e, field, value) ==
    /\ others < MaxOthers /\ others' = others + 1
    /\ row[e] # Gone /\ row[e][field] # value
    /\ row' = [row EXCEPT ![e][field] = value]
    /\ UNCHANGED <<view, list, get, calls, left, table, clicks, faults>>

-----------------------------------------------------------------------------
(* The answers                                                             *)

\* A change that was made has the list asked for again, a look under way given up.
Refetch == get' = [at |-> "asked", read |-> <<>>]

\* Mutant of Hear: a look under way is not given up.
HearWithOldLook(c) ==
    /\ c.at \in {"written", "done"} /\ c.field # "delete"
    /\ IF c.at = "written" THEN Replace(c, "answered") ELSE calls' = calls \ {c}
    /\ IF get = NoGet THEN Refetch ELSE UNCHANGED get
    /\ UNCHANGED <<view, row, list, left, table, clicks, others, faults>>

Hear(c) ==
    /\ c.at \in {"written", "done"} /\ c.field # "delete"
    /\ IF c.at = "written" THEN Replace(c, "answered") ELSE calls' = calls \ {c}
    /\ Refetch
    /\ UNCHANGED <<view, row, list, left, table, clicks, others, faults>>

\* After a deletion the page is loaded anew: what was under way is not heard, and
\* may be done all the same.
Reload(c) ==
    /\ c.at = "done" /\ c.field = "delete"
    /\ \E given \in SUBSET {d \in calls : d.at = "sent"} :
          LET going == {d \in calls \ given : d.at # "done"}
          IN /\ calls' = {[d EXCEPT !.at = "answered"] : d \in going}
             /\ left' = (left \/ going # {})
    /\ Refetch
    /\ even' = FALSE /\ order' = "none" /\ index' = 0
    /\ UNCHANGED <<view, row, list, clicks, others, faults>>

\* A list that has changed takes the table back to its first page.
HearList ==
    /\ get.at = "read"
    /\ list' = get.read /\ get' = NoGet
    /\ index' = IF get.read # list THEN 0 ELSE index
    /\ UNCHANGED <<view, row, calls, left, even, order, clicks, others, faults>>

\* Of a row that is gone, or a call that fails: the list is not asked for again.
HearRefusal(c) ==
    /\ c.at = "sent" /\ row[c.entry] = Gone
    /\ calls' = calls \ {c}
    /\ UNCHANGED <<view, row, list, get, left, table, clicks, others, faults>>

Lose(c) ==
    /\ c.at \in {"sent", "done"}
    /\ faults < MaxFaults /\ faults' = faults + 1
    /\ calls' = calls \ {c}
    /\ UNCHANGED <<view, row, list, get, left, table, clicks, others>>

LoseList ==
    /\ get.at # "no"
    /\ faults < MaxFaults /\ faults' = faults + 1
    /\ get' = NoGet
    /\ UNCHANGED <<view, row, list, calls, left, table, clicks, others>>

Next ==
    \/ Search \/ Sort \/ \E i \in 0 .. Last : Turn(i)
    \/ \E e \in Entries : \/ toggleStatus(e) \/ suspendAgent(e) \/ toggleAdmin(e) \/ deleteAgent(e)
                          \/ \E level \in {"new", "verified", "certified"} :
                                setVerification(e, level) \/ handleVerification(e, level)
                          \/ \E field \in {"status", "level"} :
                                \E value \in Values(field) : Other(e, field, value)
    \/ \E c \in calls : Handle(c) \/ Commit(c) \/ Hear(c) \/ Reload(c) \/ HearRefusal(c) \/ Lose(c)
    \/ ReadList \/ HearList \/ LoseList

Spec == Init /\ [][Next]_vars

-----------------------------------------------------------------------------
\* When nothing is under way and nothing failed, the levels of verification shown are
\* those the agents have, whichever changes overlapped: each is committed before its
\* answer, and each answer gives up the look that may have read the row before.
LevelsCatchUp ==
    view # "users" /\ calls = {} /\ get = NoGet /\ ~ left /\ others = 0 /\ faults = 0
        => \A e \in Entries : list[e].level = row[e].level
=============================================================================
