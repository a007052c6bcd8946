---------------------------- MODULE ActivityFeed ----------------------------
(***************************************************************************)
(* The stream of activity (api/activity.py), the feed that shows and keeps *)
(* what it tells (lib/hooks/use-activity-feed.ts) and the rings that show  *)
(* how busy an agent is (lib/hooks/use-agent-activity.tsx).                *)
(*                                                                         *)
(* The service polls the database, and remembers the newest task it told   *)
(* of; a stream ends after some minutes, or with an error, and says so by  *)
(* an event without a key, which the feed shows each time.  The page then  *)
(* connects again, after a delay, until too many attempts in a row have    *)
(* failed.  What it closes when it is left is its first connection.        *)
(***************************************************************************)
EXTENDS Integers, FiniteSets, Sequences, SequencesExt

CONSTANTS Users,       \* of the stream: among "feed", "rings"
          Chains,      \* a mount's connection and those that follow it
          Newest,        \* the tasks are 1 .. Newest, in the order they are created
          Limit,       \* tasks told by a poll
          MaxEvents, MaxFailures,
          MaxMounts, MaxFaults

FeedAssumption ==
    /\ Users \subseteq {"feed", "rings"}
    /\ {Newest, Limit, MaxEvents} \subseteq Nat \ {0} /\ {MaxFailures, MaxMounts, MaxFaults} \subseteq Nat

VARIABLES who, mounted,
          chain,       \* of each: where it is, its failures, what its stream has told of
          events, stored,
          ring,        \* the agent's activity: events counted, age of the last
          created, ended, aged,  \* tasks: all, those that ended, the first that are a day old
          mounts, faults

tasks == <<created, ended, aged>>
vars == <<who, mounted, chain, events, stored, ring, tasks, mounts, faults>>

-----------------------------------------------------------------------------
NoChain == [at |-> "none", first |-> FALSE, mine |-> FALSE, fails |-> 0, seen |-> 0, queue |-> <<>>]
\* The last event of a stream, a timeout or an error, is of no task: it has no key, no date.
Farewell == [task |-> 0, type |-> "timeout"]
Told == [task : 1 .. Newest, type : {"task_created", "task_completed"}] \cup {Farewell}
Streams == {"connecting", "open", "over"}

TypeOK ==
    /\ who \in Users /\ mounted \in BOOLEAN
    /\ \A c \in Chains : /\ chain[c].at \in {"none", "waiting"} \cup Streams
                         /\ chain[c].first \in BOOLEAN /\ chain[c].mine \in BOOLEAN
                         /\ chain[c].fails \in 0 .. MaxFailures /\ chain[c].seen \in 0 .. Newest
                         /\ chain[c].queue \in Seq(Told)
    /\ events \in Seq(Told) /\ Len(events) <= MaxEvents
    /\ stored \in Seq(Told) /\ Len(stored) <= MaxEvents
    /\ ring.count \in Nat /\ ring.age \in {"active", "recent", "old"}
    /\ created \in 0 .. Newest /\ ended \subseteq 1 .. created /\ aged \in 0 .. created
    /\ mounts \in 0 .. MaxMounts /\ faults \in 0 .. MaxFaults

Init ==
    /\ who \in Users /\ mounted = FALSE
    /\ chain = [c \in Chains |-> NoChain]
    /\ events = <<>> /\ stored = <<>> /\ ring = [count |-> 0, age |-> "old"]
    /\ created = 0 /\ ended = {} /\ aged = 0
    /\ mounts = 0 /\ faults = 0

Live(c) == chain[c].at # "none"

-----------------------------------------------------------------------------
(* The page                                                                *)

\* What is shown again of what was stored has a date, of the last day.
Recent(e) == e.task > aged
Rising(S) == {at \in [1 .. Cardinality(S) -> S] : \A i, j \in DOMAIN at : i < j => at[i] < at[j]}

\* What was stored is shown at once, in its order; the first connection is made (whichever
\* of those not in use).
Mount(c) ==
    /\ ~ mounted /\ ~ Live(c) /\ c = CHOOSE x \in Chains : ~ Live(x)
    /\ mounts < MaxMounts /\ mounts' = mounts + 1
    /\ mounted' = TRUE
    /\ \E at \in Rising({i \in DOMAIN stored : Recent(stored[i])}) :
          events' = [i \in DOMAIN at |-> stored[at[i]]]
    /\ ring' = [count |-> 0, age |-> "old"]
    /\ chain' = [chain EXCEPT ![c] = [NoChain EXCEPT !.at = "connecting", !.first = TRUE, !.mine = TRUE]]
    /\ UNCHANGED <<who, stored, tasks, faults>>

\* Leaving aborts the first connection: one made after it goes on, and so does the
\* timer of the next.
Left(c) ==
    IF chain[c].mine /\ chain[c].first /\ chain[c].at \in Streams THEN NoChain
    ELSE [chain[c] EXCEPT !.mine = FALSE]

Unmount ==
    /\ mounted
    /\ mounted' = FALSE
    /\ chain' = [c \in Chains |-> Left(c)]
    /\ events' = <<>>
    /\ UNCHANGED <<who, stored, ring, tasks, mounts, faults>>

\* The page is loaded anew: nothing of it goes on.
Reload ==
    /\ mounts < MaxMounts
    /\ mounted' = FALSE /\ events' = <<>>
    /\ chain' = [c \in Chains |-> NoChain]
    /\ UNCHANGED <<who, stored, ring, tasks, mounts, faults>>

\* The answer has come: the failures are forgotten.  A new stream looks back some minutes.
Open(c) ==
    /\ chain[c].at = "connecting"
    /\ \E t \in aged .. created :
          chain' = [chain EXCEPT ![c].at = "open", ![c].fails = 0, ![c].seen = t, ![c].queue = <<>>]
    /\ UNCHANGED <<who, mounted, events, stored, ring, tasks, mounts, faults>>

Ended(c) == IF chain[c].fails = MaxFailures THEN NoChain
            ELSE [chain[c] EXCEPT !.at = "waiting", !.fails = @ + 1, !.queue = <<>>]

\* The connection fails, or breaks with what it had not delivered: one more failure,
\* and a timer unless they were too many.
End(c) ==
    /\ chain[c].at \in Streams
    /\ faults < MaxFaults /\ faults' = faults + 1
    /\ chain' = [chain EXCEPT ![c] = Ended(c)]
    /\ UNCHANGED <<who, mounted, events, stored, ring, tasks, mounts>>

\* All that a stream told before its end has been read.
Done(c) ==
    /\ chain[c].at = "over" /\ chain[c].queue = <<>>
    /\ chain' = [chain EXCEPT ![c] = Ended(c)]
    /\ UNCHANGED <<who, mounted, events, stored, ring, tasks, mounts, faults>>

Reconnect(c) ==
    /\ chain[c].at = "waiting"
    /\ chain' = [chain EXCEPT ![c].at = "connecting", ![c].first = FALSE]
    /\ UNCHANGED <<who, mounted, events, stored, ring, tasks, mounts, faults>>

\* An event with a key is dropped if one of its type is there.
Known(e) == e.task # 0 /\ e \in ToSet(events)

\* The oldest beyond the limit goes.
Pushed(e) == SubSeq(<<e>> \o events, 1, IF Len(events) < MaxEvents THEN Len(events) + 1 ELSE MaxEvents)

\* A ring counts the events that follow each other within its window.
Processed == [count |-> IF ring.age = "old" THEN 1 ELSE ring.count + 1, age |-> "active"]

\* What is read by a connection of a page that was left is shown nowhere.
pushEvent(c) ==
    /\ chain[c].at \in {"open", "over"} /\ chain[c].queue # <<>>
    /\ chain' = [chain EXCEPT ![c].queue = Tail(@)]
    /\ LET e == Head(chain[c].queue)
       IN IF chain[c].mine /\ who = "feed" /\ ~ Known(e)
          THEN events' = Pushed(e) /\ stored' = events'
          ELSE UNCHANGED <<events, stored>>
    /\ ring' = IF /\ chain[c].mine /\ who = "rings" /\ ring.count < Newest
                  /\ Head(chain[c].queue).task # 0
               THEN Processed ELSE ring
    /\ UNCHANGED <<who, mounted, tasks, mounts, faults>>

\* Time passes: an activity is shown while it is recent, and forgotten later.
Tick ==
    /\ who = "rings" /\ ring.age # "old"
    /\ ring' = [ring EXCEPT !.age = IF @ = "active" THEN "recent" ELSE "old"]
    /\ UNCHANGED <<who, mounted, chain, events, stored, tasks, mounts, faults>>

-----------------------------------------------------------------------------
(* The service                                                             *)

\* The newest tasks created since the newest told of, at most Limit, oldest first,
\* each by the state it has now.
News(c) ==
    LET new == {t \in 1 .. created : t > chain[c].seen /\ t > created - Limit}
    IN [i \in 1 .. Cardinality(new) |->
           LET t == created - Cardinality(new) + i
           IN [task |-> t, type |-> IF t \in ended THEN "task_completed" ELSE "task_created"]]

activity_stream(c) ==
    /\ chain[c].at = "open" /\ News(c) # <<>>
    /\ chain' = [chain EXCEPT ![c].queue = @ \o News(c), ![c].seen = created]
    /\ UNCHANGED <<who, mounted, events, stored, ring, tasks, mounts, faults>>

\* A stream has lasted long enough, or its query has failed: its last event.
LastEvent(c) ==
    /\ chain[c].at = "open"
    /\ faults < MaxFaults /\ faults' = faults + 1
    /\ chain' = [chain EXCEPT ![c].at = "over", ![c].queue = Append(@, Farewell)]
    /\ UNCHANGED <<who, mounted, events, stored, ring, tasks, mounts>>

Work ==
    /\ \/ created < Newest /\ created' = created + 1 /\ UNCHANGED ended
       \/ \E t \in 1 .. created \ ended : ended' = ended \cup {t} /\ UNCHANGED created
    /\ UNCHANGED <<who, mounted, chain, events, stored, ring, aged, mounts, faults>>

\* A day passes, longer than any poll or stream.
Age ==
    /\ aged < created /\ aged' = aged + 1
    /\ \A c \in Chains : chain[c].at \notin {"open", "over"}
    /\ UNCHANGED <<who, mounted, chain, events, stored, ring, created, ended, mounts, faults>>

Next ==
    \/ Unmount \/ Reload \/ Tick \/ Work \/ Age
    \/ \E c \in Chains : \/ Mount(c) \/ Open(c) \/ End(c) \/ Done(c) \/ Reconnect(c)
                          \/ pushEvent(c) \/ activity_stream(c) \/ LastEvent(c)

Spec == Init /\ [][Next]_vars

-----------------------------------------------------------------------------
\* A page that is left leaves no connection and no timer behind, if none of its
\* connections had ended (useActivityFeed's cleanup); and never are there two streams
\* for one page.
LeftIsClosed ==
    /\ ~ mounted /\ faults = 0 => \A c \in Chains : ~ Live(c)
    /\ Cardinality({c \in Chains : Live(c) /\ chain[c].mine}) <= 1

\* The feed shows no event of a task twice, whatever streams told it again and again;
\* and what the next mount will show of it is what this one shows of the last day.
ShownOnce ==
    /\ \A i, j \in 1 .. Len(events) : events[i] = events[j] /\ events[i].task # 0 => i = j
    /\ mounted /\ who = "feed" =>
          {e \in ToSet(events) : Recent(e)} = {e \in ToSet(stored) : Recent(e)}
=============================================================================
