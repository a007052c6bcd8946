----------------------------- MODULE Community -----------------------------
(***************************************************************************)
(* The page of an agent of the community: votes and trials                 *)
(* (community-agent-detail-client.tsx, services/custom_agent_service.py),  *)
(* and the form that has a new agent made (community-agents/page.tsx).     *)
(*                                                                         *)
(* An agent keeps the number of its upvotes next to the votes themselves:  *)
(* a call reads both, and writes back its own vote and the number worked   *)
(* out from what it has read.  Nothing is locked.                          *)
(***************************************************************************)
EXTENDS Integers, FiniteSets, Functions

CONSTANTS Me, Others,    \* voters
          Nothing, Results,
          MaxTries,      \* the API client's
          MaxClicks, MaxVotes, MaxFaults

CommunityAssumption ==
    /\ Me \notin Others /\ IsFiniteSet(Others) /\ Nothing \notin Results
    /\ MaxTries \in Nat \ {0} /\ {MaxClicks, MaxVotes, MaxFaults} \subseteq Nat

VARIABLES open,          \* the page: "agent", the form "new", or left: "login", "task", "made"
          message, result,
          shown,         \* the agent as the page has it: my vote and the upvotes
          get,           \* a look at the agent under way
          trial,         \* the trial or the making of an agent
          vote,          \* of each voter, the call under way
          votes, upvotes,
          raced,         \* two votes overlapped
          clicks, cast, faults

vars == <<open, message, result, shown, get, trial, vote, votes, upvotes, raced, clicks, cast, faults>>

-----------------------------------------------------------------------------
Voters == Others \cup {Me}
NoVote == [at |-> "none", value |-> 0, count |-> 0, tries |-> 0]
Steps == {"none", "sent", "loaded", "done", "failed"}

TypeOK ==
    /\ open \in {"agent", "new", "login", "task", "made"}
    /\ message \in BOOLEAN /\ result \in Results \cup {Nothing}
    /\ shown.mine \in {-1, 0, 1} /\ shown.upvotes \in Int
    /\ get \in BOOLEAN /\ trial \in {"none", "sent", "failed"}
    /\ \A v \in Voters : /\ vote[v].at \in Steps /\ vote[v].value \in {-1, 0, 1}
                         /\ vote[v].count \in Int /\ vote[v].tries \in 0 .. MaxTries
    /\ votes \in [Voters -> {-1, 0, 1}] /\ upvotes \in Int /\ raced \in BOOLEAN
    /\ clicks \in 0 .. MaxClicks /\ cast \in 0 .. MaxVotes /\ faults \in 0 .. MaxFaults

Init ==
    /\ open \in {"agent", "new"}
    /\ message = FALSE /\ result = Nothing
    /\ shown = [mine |-> 0, upvotes |-> 0] /\ get = TRUE /\ trial = "none"
    /\ vote = [v \in Voters |-> NoVote]
    /\ votes = [v \in Voters |-> 0] /\ upvotes = 0 /\ raced = FALSE
    /\ clicks = 0 /\ cast = 0 /\ faults = 0

Click == clicks < MaxClicks /\ clicks' = clicks + 1

Asked(v, value) == vote' = [vote EXCEPT ![v] = [at |-> "sent", value |-> value, count |-> 0, tries |-> 1]]

-----------------------------------------------------------------------------
(* The page                                                                *)

TypeMessage ==
    /\ Click /\ open \in {"agent", "new"}
    /\ message' = ~ message
    /\ UNCHANGED <<open, result, shown, get, trial, vote, votes, upvotes, raced, cast, faults>>

\* The same vote may be sent again; both buttons wait for the vote under way.
handleVote(value) ==
    /\ Click /\ open = "agent"
    /\ vote[Me].at = "none"
    /\ Asked(Me, value)
    /\ UNCHANGED <<open, message, result, shown, get, trial, votes, upvotes, raced, cast, faults>>

\* Without an account the page goes to the login page.
VoteAsGuest ==
    /\ Click /\ open = "agent" /\ vote[Me].at = "none"
    /\ open' = "login"
    /\ UNCHANGED <<message, result, shown, get, trial, vote, votes, upvotes, raced, cast, faults>>

\* handleTry on the agent's page, handleCreate on the form.
handleTry ==
    /\ Click /\ open \in {"agent", "new"}
    /\ message /\ trial = "none"
    /\ trial' = "sent"
    /\ UNCHANGED <<open, message, result, shown, get, vote, votes, upvotes, raced, cast, faults>>

\* A result is shown, whatever the message has become; a trial handed to another agent
\* and an agent that was made are gone to.
HearTrial(r) ==
    /\ trial = "sent" /\ open \in {"agent", "new"}
    /\ trial' = "none"
    /\ \/ open = "agent" /\ result' = r /\ get' = TRUE /\ UNCHANGED open
       \/ open = "agent" /\ open' = "task" /\ get' = TRUE /\ UNCHANGED result
       \/ open = "new" /\ open' = "made" /\ UNCHANGED <<result, get>>
    /\ UNCHANGED <<message, shown, vote, votes, upvotes, raced, clicks, cast, faults>>

\* The older result stays shown below the message of the failure.
TrialFails ==
    /\ trial = "sent" /\ open \in {"agent", "new"}
    /\ faults < MaxFaults /\ faults' = faults + 1
    /\ trial' = "none"
    /\ UNCHANGED <<open, message, result, shown, get, vote, votes, upvotes, raced, clicks, cast>>

HearAgent ==
    /\ get
    /\ get' = FALSE
    /\ shown' = [mine |-> votes[Me], upvotes |-> upvotes]
    /\ UNCHANGED <<open, message, result, trial, vote, votes, upvotes, raced, clicks, cast, faults>>

\* The answer to a vote asks for the agent, unless the vote failed.
HearVote ==
    /\ vote[Me].at \in {"done", "failed"}
    /\ get' = (get \/ vote[Me].at = "done")
    /\ vote' = [vote EXCEPT ![Me] = NoVote]
    /\ UNCHANGED <<open, message, result, shown, trial, votes, upvotes, raced, clicks, cast, faults>>

-----------------------------------------------------------------------------
(* The service                                                             *)

\* Another voter's call.
Cast(v, value) ==
    /\ v # Me /\ vote[v].at \in {"none", "done", "failed"}
    /\ cast < MaxVotes /\ cast' = cast + 1
    /\ Asked(v, value)
    /\ UNCHANGED <<open, message, result, shown, get, trial, votes, upvotes, raced, clicks, faults>>

\* Mutant of Counted: a changed vote is counted beside the old one.
CountedTwice(v) == upvotes + vote[v].value

\* What the number becomes: the old vote is taken off, the new one added.
Counted(v) == upvotes + vote[v].value - votes[v]

\* The agent and the voter's vote are read: the number is worked out from them ...
LoadVote(v) ==
    /\ vote[v].at = "sent"
    /\ vote' = [vote EXCEPT ![v].at = "loaded", ![v].count = Counted(v)]
    /\ raced' = (raced \/ \E w \in Voters : vote[w].at = "loaded")
    /\ UNCHANGED <<open, message, result, shown, get, trial, votes, upvotes, clicks, cast, faults>>

\* ... and both are written when the session is committed.
StoreVote(v) ==
    /\ vote[v].at = "loaded"
    /\ votes' = [votes EXCEPT ![v] = vote[v].value]
    /\ upvotes' = vote[v].count
    /\ vote' = [vote EXCEPT ![v].at = "done"]
    /\ UNCHANGED <<open, message, result, shown, get, trial, raced, clicks, cast, faults>>

\* An answer is lost: the client votes again.
LoseVote(v) ==
    /\ vote[v].at \in {"sent", "done"}
    /\ faults < MaxFaults /\ faults' = faults + 1
    /\ vote' = [vote EXCEPT ![v].at = IF vote[v].tries < MaxTries THEN "sent" ELSE "failed",
                            ![v].tries = IF @ < MaxTries THEN @ + 1 ELSE @]
    /\ UNCHANGED <<open, message, result, shown, get, trial, votes, upvotes, raced, clicks, cast>>

Next ==
    \/ TypeMessage \/ VoteAsGuest \/ handleTry \/ TrialFails \/ HearAgent \/ HearVote
    \/ \E r \in Results : HearTrial(r)
    \/ \E value \in {-1, 1} : \/ handleVote(value)
                              \/ \E v \in Others : Cast(v, value)
    \/ \E v \in Voters : LoadVote(v) \/ StoreVote(v) \/ LoseVote(v)

Spec == Init /\ [][Next]_vars

-----------------------------------------------------------------------------
\* The number of upvotes an agent is ranked by is the sum of the votes there are, if no
\* two votes overlapped: for votes changed, sent twice and sent again after an answer
\* was lost alike (custom_agent_service.py, vote).
UpvotesAreVotes ==
    ~ raced => upvotes = SumFunctionOnSet(votes, Voters)
=============================================================================
