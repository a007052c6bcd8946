------------------------------ MODULE MagicBox ------------------------------
(***************************************************************************)
(* The search box of the landing page (components/landing/magic-box.tsx).  *)
(* A question is sent to the service, which may refuse a visitor; the box  *)
(* then ranks the public list of agents by itself.  Its button waits for   *)
(* the search under way, the Enter key and the starters do not.            *)
(***************************************************************************)
EXTENDS FiniteSets, Naturals

CONSTANTS Questions,   \* long enough to be asked
          Short,       \* a text too short to be asked
          Starters,    \* those among Questions offered below the box
          Searches,    \* identities of searches
          MaxClicks, MaxFaults

BoxAssumption ==
    /\ Short \notin Questions /\ Starters \subseteq Questions
    /\ {MaxClicks, MaxFaults} \subseteq Nat

VARIABLES user,        \* signed in
          query, loading,
          starter,     \* the starter whose search waits for the text to change
          due,         \* the text has changed to it
          searched,    \* the results are open
          results,     \* the question whose suggestions are kept
          error,
          flights,     \* searches under way
          last,        \* the search started last
          hasty,       \* one was started while another was under way
          clicks, faults

vars == <<user, query, loading, starter, due, searched, results, error, flights, last, hasty, clicks, faults>>

-----------------------------------------------------------------------------
Texts == Questions \cup {Short}
NoSearch == [id |-> Short, question |-> Short]
Flight == [id : Searches, question : Questions, at : {"suggest", "list"}]

TypeOK ==
    /\ user \in BOOLEAN /\ query \in Texts /\ loading \in BOOLEAN
    /\ starter \in Starters \cup {Short} /\ due \in BOOLEAN /\ searched \in BOOLEAN
    /\ results \in Texts /\ error \in BOOLEAN
    /\ flights \subseteq Flight
    /\ last \in [id : Searches, question : Questions] \cup {NoSearch}
    /\ hasty \in BOOLEAN /\ clicks \in 0 .. MaxClicks /\ faults \in 0 .. MaxFaults

Init ==
    /\ user \in BOOLEAN /\ query = Short /\ loading = FALSE /\ starter = Short /\ due = FALSE
    /\ searched = FALSE /\ results = Short /\ error = FALSE
    /\ flights = {} /\ last = NoSearch /\ hasty = FALSE /\ clicks = 0 /\ faults = 0

Click == clicks < MaxClicks /\ clicks' = clicks + 1

\* The text a search is for is the text of the box when it starts.
Begin(s) ==
    /\ query # Short
    /\ \A x \in flights : x.id # s
    /\ loading' = TRUE /\ error' = FALSE
    /\ flights' = flights \cup {[id |-> s, question |-> query, at |-> "suggest"]}
    /\ last' = [id |-> s, question |-> query]

Hastily == hasty' = (hasty \/ flights # {})

-----------------------------------------------------------------------------
Type(t) ==
    /\ Click /\ t # query
    /\ query' = t /\ due' = (t = starter)
    /\ UNCHANGED <<user, loading, starter, searched, results, error, flights, last, hasty, faults>>

\* Mutant of Find: the button does not wait for the answer.
FindAgain(s) ==
    /\ Click /\ Begin(s)
    /\ UNCHANGED <<user, query, starter, due, searched, results, hasty, faults>>

Find(s) ==
    /\ ~ loading
    /\ Click /\ Begin(s)
    /\ UNCHANGED <<user, query, starter, due, searched, results, hasty, faults>>

\* The key asks whatever is under way.
Enter(s) ==
    /\ Click /\ Begin(s) /\ Hastily
    /\ UNCHANGED <<user, query, starter, due, searched, results, faults>>

\* A starter sets the text, and its search starts when the text has changed: a starter
\* equal to the text waits until the text changes and changes back.
PickStarter(t) ==
    /\ ~ searched
    /\ Click
    /\ starter' = t /\ query' = t /\ due' = (t # query)
    /\ UNCHANGED <<user, loading, searched, results, error, flights, last, hasty, faults>>

StarterSearch(s) ==
    /\ due
    /\ Begin(s) /\ Hastily
    /\ starter' = Short /\ due' = FALSE
    /\ UNCHANGED <<user, query, searched, results, clicks, faults>>

handleClickOutside ==
    /\ Click /\ searched
    /\ searched' = FALSE
    /\ UNCHANGED <<user, query, loading, starter, due, results, error, flights, last, hasty, faults>>

-----------------------------------------------------------------------------
\* The end of any search ends the loading.
Over(x) == flights' = flights \ {x} /\ loading' = FALSE

\* The suggestions of the service, or the box's own ranking of the public list.
HearSearch(x) ==
    /\ x \in flights
    /\ user \/ x.at = "list"
    /\ Over(x)
    /\ results' = x.question /\ searched' = TRUE
    /\ UNCHANGED <<user, query, starter, due, error, last, hasty, clicks, faults>>

\* A visitor without an account is refused: the public list is asked for.
Fallback(x) ==
    /\ x \in flights /\ ~ user /\ x.at = "suggest"
    /\ flights' = (flights \ {x}) \cup {[x EXCEPT !.at = "list"]}
    /\ UNCHANGED <<user, query, loading, starter, due, searched, results, error, last, hasty, clicks, faults>>

\* A failure is kept, and shown only if results were already open.
HearFailure(x) ==
    /\ x \in flights
    /\ faults < MaxFaults /\ faults' = faults + 1
    /\ Over(x)
    /\ error' = TRUE
    /\ UNCHANGED <<user, query, starter, due, searched, results, last, hasty, clicks>>

\* The card's link carries the text of the box, which may not be the question.
Carried == query

Next ==
    \/ \E t \in Texts : Type(t)
    \/ \E s \in Searches : Find(s) \/ Enter(s) \/ StarterSearch(s)
    \/ \E t \in Starters : PickStarter(t)
    \/ handleClickOutside
    \/ \E x \in flights : HearSearch(x) \/ Fallback(x) \/ HearFailure(x)

Spec == Init /\ [][Next]_vars

-----------------------------------------------------------------------------
\* The suggestions shown when nothing is loading and nothing failed answer the
\* question asked last, unless a search was started behind another's back: two
\* searches are two calls, and their answers come in any order.
ShowsLastAnswer ==
    searched /\ ~ loading /\ ~ error /\ ~ hasty => results = last.question
=============================================================================
