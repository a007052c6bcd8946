----------------------------- MODULE Directory -----------------------------
(***************************************************************************)
(* The lists that are shown a page at a time: the marketplace's agents,    *)
(* my tasks, an agent's webhook logs and the community's agents.  A list   *)
(* is asked for with a filter and a page number; each pair has an answer   *)
(* of its own in the query cache, and the rows, the number of pages and    *)
(* the buttons shown are those of the pair now chosen.                     *)
(*                                                                         *)
(* Others change what is listed meanwhile, a filter resets the page, and   *)
(* the marketplace filters what it got once more, within the page.         *)
(***************************************************************************)
EXTENDS Naturals, FiniteSets

CONSTANTS Views,       \* among "agents", "tasks", "logs", "community"
          Last,        \* the entries are 1 .. Last, the newest first
          PerPage,
          MaxClicks, MaxChanges, MaxFaults

DirectoryAssumption ==
    /\ Views \subseteq {"agents", "tasks", "logs", "community"}
    /\ {Last, PerPage} \subseteq Nat \ {0}
    /\ {MaxClicks, MaxChanges, MaxFaults} \subseteq Nat

VARIABLES view,
          kind,        \* of every entry: "x" and "y" are listed, "gone" is not
          f, p,        \* the filter and the page
          search,      \* what is typed is long enough for a semantic search
          narrow,      \* the filters applied to the rows at hand: "no", "credits", "type"
          cache,       \* the last answer to each question
          asked,       \* the questions under way
          seen,        \* the entries of the pages walked since the filter was chosen
          clicks, changes, faults

choice == <<f, p, search, narrow>>
vars == <<view, kind, choice, cache, asked, seen, clicks, changes, faults>>

-----------------------------------------------------------------------------
Entries == 1 .. Last
Filters == {"all", "x", "y"}
Pages == 1 .. Last + 1
Questions == [f : Filters, p : Pages, search : BOOLEAN]
NoAnswer == [rows |-> {}, total |-> Last + 1]      \* a total no list has

\* A semantic search is not paged.
Question == [f |-> f, p |-> IF search THEN 1 ELSE p, search |-> search]
Answered == cache[Question] # NoAnswer
isLoading == ~ Answered /\ Question \in asked

TypeOK ==
    /\ view \in Views /\ kind \in [Entries -> {"x", "y", "gone"}]
    /\ f \in Filters /\ p \in Pages /\ search \in BOOLEAN
    /\ narrow \in {"no", "credits", "type"}
    /\ \A q \in Questions : cache[q].rows \subseteq Entries /\ cache[q].total \in 0 .. Last + 1
    /\ asked \subseteq Questions /\ seen \subseteq Entries
    /\ clicks \in 0 .. MaxClicks /\ changes \in 0 .. MaxChanges /\ faults \in 0 .. MaxFaults

Matching(g) == {i \in Entries : kind[i] \in (IF g = "all" THEN {"x", "y"} ELSE {g})}

\* The entries of page n: those with the page's places among the matching ones.
PageOf(g, n) ==
    {i \in Matching(g) : Cardinality({j \in Matching(g) : j < i}) \div PerPage = n - 1}

list_agents(q) ==
    IF q.search THEN [rows |-> Matching(q.f), total |-> 0]
    ELSE [rows |-> PageOf(q.f, q.p), total |-> Cardinality(Matching(q.f))]

\* Only the marketplace takes its page and its search from the URL.
Init ==
    /\ view \in Views
    /\ kind \in [Entries -> {"x", "y"}]
    /\ f = "all" /\ search = FALSE /\ narrow = "no"
    /\ p \in IF view = "agents" THEN {1, 2} ELSE {1}
    /\ cache = [q \in Questions |-> NoAnswer]
    /\ asked = {Question}
    /\ seen = UNION {PageOf(f, n) : n \in 1 .. p - 1}
    /\ clicks = 0 /\ changes = 0 /\ faults = 0

-----------------------------------------------------------------------------
(* What is shown                                                           *)

\* The entries filtered on the page stand for the even ones.
Passes(i) == narrow = "no" \/ (search /\ narrow = "credits") \/ i % 2 = 0
Rows == {i \in cache[Question].rows : Passes(i)}

\* An empty page of tasks, of logs or of the community has no buttons to leave it by.
HasPager ==
    /\ Answered /\ ~ search /\ cache[Question].total > PerPage
    /\ view # "agents" => Rows # {}

HasMore == p * PerPage < cache[Question].total

\* "No tasks yet", "No logs yet", "No agents found": also after a failure.
IsEmpty == ~ isLoading /\ Rows = {} /\ (view = "community" => Answered)

-----------------------------------------------------------------------------
(* The user                                                                *)

\* A new choice: a question that has no answer is asked, one that has a stale
\* one may be.
Choose(g, n, s, base, stale) ==
    LET q == [f |-> g, p |-> IF s THEN 1 ELSE n, search |-> s]
    IN /\ clicks < MaxClicks /\ clicks' = clicks + 1
       /\ f' = g /\ p' = n /\ search' = s
       /\ asked' = IF cache[q] = NoAnswer \/ stale THEN asked \cup {q} ELSE asked
       /\ seen' = base \cup cache[q].rows
       /\ UNCHANGED <<view, kind, cache, changes, faults>>

changeFilter(g, stale) ==
    /\ g # f
    /\ Choose(g, 1, search, {}, stale)
    /\ UNCHANGED narrow

Step(n, stale) ==
    /\ HasPager
    /\ \/ n = p + 1 /\ HasMore
       \/ n = p - 1 /\ n >= 1
    /\ Choose(f, n, search, seen, stale)
    /\ UNCHANGED narrow

\* Typing in the search bar goes to the first page, long enough or not.
handleSearchChange(stale) ==
    /\ view = "agents"
    /\ Choose(f, 1, ~ search, {}, stale)
    /\ UNCHANGED narrow

\* The filters on credits and reputation reset the page, the tabs of free and
\* commercial agents do not.
Narrow(to, stale) ==
    /\ view = "agents" /\ to # narrow
    /\ Choose(f, IF "type" \in {to, narrow} THEN p ELSE 1, search,
              IF "type" \in {to, narrow} THEN seen ELSE {}, stale)
    /\ narrow' = to

-----------------------------------------------------------------------------
(* The service, and others                                                 *)

Answer(q) ==
    /\ q \in asked
    /\ cache' = [cache EXCEPT ![q] = list_agents(q)]
    /\ asked' = asked \ {q}
    /\ seen' = IF q = Question THEN seen \cup list_agents(q).rows ELSE seen
    /\ UNCHANGED <<view, kind, choice, clicks, changes, faults>>

\* A question that fails, after its retry, leaves the answer it had.
Fail(q) ==
    /\ q \in asked
    /\ faults < MaxFaults /\ faults' = faults + 1
    /\ asked' = asked \ {q}
    /\ UNCHANGED <<view, kind, choice, cache, seen, clicks, changes>>

Change(i, k) ==
    /\ changes < MaxChanges /\ changes' = changes + 1
    /\ kind[i] # k
    /\ kind' = [kind EXCEPT ![i] = k]
    /\ UNCHANGED <<view, choice, cache, asked, seen, clicks, faults>>

Next ==
    \/ \E stale \in BOOLEAN : \/ \E g \in Filters : changeFilter(g, stale)
                              \/ \E n \in Pages : Step(n, stale)
                              \/ handleSearchChange(stale)
                              \/ \E to \in {"no", "credits", "type"} : Narrow(to, stale)
    \/ \E q \in asked : Answer(q) \/ Fail(q)
    \/ \E i \in Entries, k \in {"x", "y", "gone"} : Change(i, k)

Spec == Init /\ [][Next]_vars

-----------------------------------------------------------------------------
\* Whoever walks to the page where Next ends has been shown every entry that matches
\* the filter, if nothing changed meanwhile: whatever the filters tried before, the
\* answers still in the cache and the calls that failed.
EndIsReached ==
    changes = 0 /\ Answered /\ ~ search /\ ~ (HasPager /\ HasMore) => Matching(f) \subseteq seen
=============================================================================
