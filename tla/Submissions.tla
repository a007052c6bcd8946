----------------------------- MODULE Submissions ----------------------------
(***************************************************************************)
(* Agents built without code, from the builder's submission to the review  *)
(* that puts them on the market: the builder's pages (builder/page.tsx,    *)
(* builder/submissions/page.tsx, hooks/use-builder.ts), the reviewers'     *)
(* page (admin/submissions/page.tsx, hooks/use-admin-submissions.ts) and   *)
(* the backend's handlers (api/builder.py, api/admin.py).                  *)
(*                                                                         *)
(* A handler reads its submission without a lock. An approval then waits   *)
(* for an embedding of the skill, and writes what it decided whatever has  *)
(* become of the submission; it fails only when the row is gone.           *)
(***************************************************************************)
EXTENDS Naturals, FiniteSets

CONSTANTS Flows, Reviews,   \* submissions, and requests of reviewers
          Limit,            \* submissions pending or approved, for a builder
          MaxClicks, MaxFaults

SubmissionsAssumption == {Limit, MaxClicks, MaxFaults} \subseteq Nat

VARIABLES row,      \* the submissions in the database
          live,     \* the agents made of them
          publish,  \* the builder's sheet and its request
          mine,     \* the builder's list, with what localStorage knows
          told,     \* verdicts the builder was told
          theirs,   \* the reviewers' list of what is pending or approved
          review,   \* the reviewers' requests
          resend, remove, \* the builder's requests
          past, clicks, faults

builder == <<publish, mine, told, resend, remove>>
vars == <<row, live, builder, theirs, review, past, clicks, faults>>

-----------------------------------------------------------------------------
Verdicts == {"approved", "rejected", "revoked"}
States == {"none", "pending", "deleted"} \cup Verdicts
Free == [at |-> "none", of |-> "none", flow |-> "none"]
Seen == [Flows -> States]

TypeOK ==
    /\ row \in [Flows -> [is : States, agent : Reviews \cup {"none"}]]
    /\ live \in SUBSET [flow : Flows, by : Reviews]
    /\ publish \in [open : BOOLEAN, at : {"none", "checked", "answered", "refused"}, flow : Flows \cup {"none"}]
    /\ mine \in [open : BOOLEAN, get : BOOLEAN, is : Seen, stored : Seen]
    /\ told \in [Flows -> Nat]
    /\ theirs \in [get : BOOLEAN, is : Seen]
    /\ review \in [Reviews -> [at : {"none", "sent", "embed", "over"},
                               of : {"none", "approve", "reject", "revoke"}, flow : Flows \cup {"none"}]]
    /\ resend \in Flows \cup {"none"} /\ remove \in Flows \cup {"none"}
    /\ past \subseteq {"overlap", "unpublished"}
    /\ clicks \in 0 .. MaxClicks /\ faults \in 0 .. MaxFaults

Init ==
    /\ row = [f \in Flows |-> [is |-> "none", agent |-> "none"]] /\ live = {}
    /\ publish = [open |-> FALSE, at |-> "none", flow |-> "none"]
    /\ mine = [open |-> FALSE, get |-> FALSE, is |-> [f \in Flows |-> "none"],
               stored |-> [f \in Flows |-> "none"]]
    /\ told = [f \in Flows |-> 0]
    /\ theirs = [get |-> FALSE, is |-> [f \in Flows |-> "none"]]
    /\ review = [r \in Reviews |-> Free]
    /\ resend = "none" /\ remove = "none"
    /\ past = {} /\ clicks = 0 /\ faults = 0

Click == clicks < MaxClicks /\ clicks' = clicks + 1
Fault == faults < MaxFaults /\ faults' = faults + 1

Listed == [f \in Flows |-> IF row[f].is = "deleted" THEN "none" ELSE row[f].is]

-----------------------------------------------------------------------------
(* Publishing                                                              *)

OpenPublish ==
    /\ ~ mine.open /\ ~ publish.open
    /\ publish' = [publish EXCEPT !.open = TRUE]
    /\ UNCHANGED <<row, live, mine, told, resend, remove, theirs, review, past, clicks, faults>>

\* The builder's submissions are counted first and the new one is added later.
handlePublish(f) ==
    /\ publish.open /\ publish.at = "none" /\ row[f].is = "none"
    /\ Click
    /\ publish' = [publish EXCEPT !.flow = f,
                      !.at = IF Cardinality({g \in Flows : row[g].is \in {"pending", "approved"}}) < Limit
                             THEN "checked" ELSE "refused"]
    /\ UNCHANGED <<row, live, mine, told, resend, remove, theirs, review, past, faults>>

create_submission ==
    /\ publish.at = "checked"
    /\ \/ /\ row' = [row EXCEPT ![publish.flow].is = "pending"]
          /\ publish' = [publish EXCEPT !.at = "answered"] /\ UNCHANGED faults
       \/ publish' = [publish EXCEPT !.at = "refused"] /\ Fault /\ UNCHANGED row
    /\ UNCHANGED <<live, mine, told, resend, remove, theirs, review, past, clicks>>

\* Refused, the form stays as it was filled in.
HearPublish ==
    /\ publish.at \in {"answered", "refused"}
    /\ publish' = [open |-> publish.open /\ publish.at = "refused", at |-> "none", flow |-> "none"]
    /\ mine' = [mine EXCEPT !.get = @ \/ mine.open]
    /\ UNCHANGED <<row, live, told, resend, remove, theirs, review, past, clicks, faults>>

-----------------------------------------------------------------------------
(* The builder's list                                                      *)

OpenMine ==
    /\ ~ mine.open
    /\ mine' = [mine EXCEPT !.open = TRUE, !.get = TRUE]
    /\ publish' = [publish EXCEPT !.open = FALSE]
    /\ UNCHANGED <<row, live, told, resend, remove, theirs, review, past, clicks, faults>>

LeaveMine ==
    /\ mine.open /\ resend = "none" /\ remove = "none"
    /\ Click
    /\ mine' = [mine EXCEPT !.open = FALSE, !.get = FALSE, !.is = [f \in Flows |-> "none"]]
    /\ UNCHANGED <<row, live, publish, told, resend, remove, theirs, review, past, faults>>

\* A verdict is news when the list that was stored last had the submission pending.
HearMine ==
    /\ mine.open /\ mine.get
    /\ mine' = [mine EXCEPT !.get = FALSE, !.is = Listed, !.stored = Listed]
    /\ told' = [f \in Flows |-> told[f] +
                  IF mine.stored[f] = "pending" /\ row[f].is \in {"approved", "rejected"} THEN 1 ELSE 0]
    /\ UNCHANGED <<row, live, publish, resend, remove, theirs, review, past, clicks, faults>>

handleResubmit(f) ==
    /\ mine.open /\ mine.is[f] = "rejected" /\ resend = "none"
    /\ Click
    /\ resend' = f
    /\ UNCHANGED <<row, live, publish, mine, told, remove, theirs, review, past, faults>>

resubmit_submission ==
    /\ resend # "none"
    /\ resend' = "none"
    /\ \/ row[resend].is = "rejected" /\ row' = [row EXCEPT ![resend].is = "pending"] /\ UNCHANGED faults
       \/ row[resend].is # "rejected" /\ UNCHANGED <<row, faults>>
       \/ UNCHANGED row /\ Fault
    /\ mine' = [mine EXCEPT !.get = @ \/ row' # row]
    /\ UNCHANGED <<live, publish, told, remove, theirs, review, past, clicks>>

\* Offered for what the list does not show as approved.
handleDelete(f) ==
    /\ mine.open /\ mine.is[f] \notin {"none", "approved"} /\ remove = "none"
    /\ Click
    /\ remove' = f
    /\ UNCHANGED <<row, live, publish, mine, told, resend, theirs, review, past, faults>>

\* Done for whatever it is by then; the agent that was made of it stays.
delete_submission ==
    /\ remove # "none"
    /\ remove' = "none"
    /\ \/ /\ row[remove].is # "deleted"
          /\ row' = [row EXCEPT ![remove] = [is |-> "deleted", agent |-> "none"]]
          /\ past' = IF row[remove].is = "approved" THEN past \cup {"unpublished"} ELSE past
          /\ UNCHANGED faults
       \/ UNCHANGED <<row, past>> /\ Fault
    /\ mine' = [mine EXCEPT !.get = @ \/ row' # row]
    /\ UNCHANGED <<live, publish, told, resend, theirs, review, clicks>>

-----------------------------------------------------------------------------
(* The reviewers                                                           *)

ListTheirs ==
    /\ theirs.is # Listed
    /\ \/ theirs.get /\ UNCHANGED clicks
       \/ ~ theirs.get /\ Click
    /\ theirs' = [get |-> FALSE, is |-> Listed]
    /\ UNCHANGED <<row, live, builder, review, past, faults>>

\* Every card offers its verdicts, whatever verdict was just given.
Decide(r, of, f) ==
    /\ review[r].at = "none"
    /\ theirs.is[f] = IF of = "revoke" THEN "approved" ELSE "pending"
    /\ Click
    /\ review' = [review EXCEPT ![r] = [at |-> "sent", of |-> of, flow |-> f]]
    /\ UNCHANGED <<row, live, builder, theirs, past, faults>>

\* Mutant of Begin: a revocation leaves the agent on the market.
BeginKeepingAgent(r) ==
    /\ review[r].at = "sent"
    /\ LET f == review[r].flow
           needed == IF review[r].of = "revoke" THEN "approved" ELSE "pending"
       IN /\ row[f].is = needed
          /\ IF review[r].of = "approve"
             THEN /\ review' = [review EXCEPT ![r].at = "embed"]
                  /\ UNCHANGED <<row, theirs>>
             ELSE /\ review' = [review EXCEPT ![r].at = "over"]
                  /\ row' = [row EXCEPT ![f].is = IF needed = "pending" THEN "rejected" ELSE "revoked"]
                  /\ theirs' = [theirs EXCEPT !.get = TRUE]
    /\ UNCHANGED <<live, past, builder, clicks, faults>>

\* What is not as the verdict needs it is refused.
Begin(r) ==
    /\ review[r].at = "sent"
    /\ LET f == review[r].flow
           needed == IF review[r].of = "revoke" THEN "approved" ELSE "pending"
       IN \/ /\ row[f].is = needed /\ review[r].of = "approve"
             /\ review' = [review EXCEPT ![r].at = "embed"]
             /\ past' = IF \E q \in Reviews : review[q].at = "embed" /\ review[q].flow = f
                        THEN past \cup {"overlap"} ELSE past
             /\ UNCHANGED <<row, live, theirs>>
          \/ /\ row[f].is = needed /\ review[r].of # "approve"
             /\ review' = [review EXCEPT ![r].at = "over"]
             /\ row' = [row EXCEPT ![f].is = IF needed = "pending" THEN "rejected" ELSE "revoked"]
             /\ live' = IF needed = "pending" THEN live ELSE live \ {[flow |-> f, by |-> row[f].agent]}
             /\ past' = IF \E q \in Reviews : review[q].at = "embed" /\ review[q].flow = f
                        THEN past \cup {"overlap"} ELSE past
             /\ theirs' = [theirs EXCEPT !.get = TRUE]
          \/ /\ row[f].is # needed
             /\ review' = [review EXCEPT ![r].at = "over"]
             /\ UNCHANGED <<row, live, past, theirs>>
    /\ UNCHANGED <<builder, clicks, faults>>

approve_submission(r) ==
    /\ review[r].at = "embed"
    /\ review' = [review EXCEPT ![r].at = "over"]
    /\ LET f == review[r].flow
       IN \/ /\ row[f].is # "deleted"
             /\ row' = [row EXCEPT ![f] = [is |-> "approved", agent |-> r]]
             /\ live' = live \cup {[flow |-> f, by |-> r]}
             /\ theirs' = [theirs EXCEPT !.get = TRUE]
             /\ UNCHANGED faults
          \/ row[f].is = "deleted" /\ UNCHANGED <<row, live, theirs, faults>>
          \/ Fault /\ UNCHANGED <<row, live, theirs>>
    /\ UNCHANGED <<builder, past, clicks>>

-----------------------------------------------------------------------------
Next ==
    \/ OpenPublish \/ create_submission \/ HearPublish
    \/ OpenMine \/ LeaveMine \/ HearMine \/ resubmit_submission \/ delete_submission \/ ListTheirs
    \/ \E f \in Flows : \/ handlePublish(f) \/ handleResubmit(f) \/ handleDelete(f)
                        \/ \E r \in Reviews, of \in {"approve", "reject", "revoke"} : Decide(r, of, f)
    \/ \E r \in Reviews : Begin(r) \/ approve_submission(r)

Spec == Init /\ [][Next]_vars

-----------------------------------------------------------------------------
(* An agent is on the market for a submission that is approved and knows   *)
(* it as its agent, so that a revocation finds it - unless another verdict *)
(* overlapped the approval, or the builder deleted from a stale list what  *)
(* had been approved (approve_submission, revoke_submission,               *)
(* delete_submission).                                                     *)
LiveIsApproved ==
    \A a \in live : \/ row[a.flow] = [is |-> "approved", agent |-> a.by]
                    \/ past # {}

(* A builder is told of a verdict once: no oftener than the submission was *)
(* reviewed, however often the list is opened (the effect on data in       *)
(* SubmissionsPage).                                                       *)
VerdictIsToldOnce ==
    \A f \in Flows : told[f] <= Cardinality({r \in Reviews : review[r].at = "over" /\ review[r].flow = f})
=============================================================================
