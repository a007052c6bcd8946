------------------------------ MODULE Payouts ------------------------------
(***************************************************************************)
(* How an agent's owner is paid: the payouts page                          *)
(* (dashboard/payouts/page.tsx, lib/hooks/use-payouts.ts) and              *)
(* PayoutService.request_payout behind it, beside the reservations that    *)
(* the task broker makes in the same account.                              *)
(*                                                                         *)
(* A request loads the user, and the account with it, computes what may be *)
(* withdrawn, then locks the account, makes the transfer at Stripe, a call *)
(* that blocks the process, and commits.  The SELECT FOR UPDATE does not   *)
(* refresh the account: it is tested, and its balance written, as it was   *)
(* read with the user.                                                     *)
(* The API client asks again when it has lost an answer.                   *)
(***************************************************************************)
EXTENDS Naturals, Functions

CONSTANTS Requests,        \* payout requests that reach the service
          Balance,         \* credits in the account: what was earned and what was bought
          Cleared,         \* credits earned by tasks that ended before the clearance period
          Minimum,         \* the smallest payout
          MaxTries,        \* the API client's
          MaxClicks, MaxFaults

PayoutsAssumption ==
    /\ {Balance, Cleared, MaxClicks, MaxFaults} \subseteq Nat
    /\ {Minimum, MaxTries} \subseteq Nat \ {0}

VARIABLES view, dialog, amount,
          shown,     \* what the page was told may be withdrawn, and of the connection
          awaited,   \* the withdrawal the page awaits: its request and tries
          connect,   \* the account at Stripe and what the user's row says of it
          request, account,
          copy,      \* the account as the session of a request has loaded it
          sent,      \* requests Stripe has made a transfer for
          again,     \* a request was repeated, or left running by a page that was left
          clicks, faults

page == <<view, dialog, amount, shown, awaited>>
service == <<connect, request, account, copy, sent>>
vars == <<page, service, again, clicks, faults>>

-----------------------------------------------------------------------------
\* What was earned may have been spent, so that more may be withdrawn than the account has.
Amounts == 0 .. IF Cleared > Balance THEN Cleared ELSE Balance
Links == {"none", "created", "submitted", "enabled"}
Recorded == {"completed", "failed"}
NoRequest == [at |-> "none", amount |-> 0]
NoCopy == [balance |-> 0, reserved |-> 0]
NoWithdrawal == [request |-> {}, tries |-> 0]

TypeOK ==
    /\ view \in {"page", "leaving", "stripe", "left"} /\ dialog \in BOOLEAN /\ amount \in Amounts
    /\ shown \in [withdrawable : Amounts, onboarded : BOOLEAN]
    /\ awaited \in [request : SUBSET Requests, tries : 0 .. MaxTries]
    /\ connect \in [stripe : Links, row : Links]
    /\ request \in [Requests -> [at : {"none", "sent", "checked", "refused"} \cup Recorded \cup {"lost"},
                                 amount : Amounts]]
    /\ account \in [balance : Nat, reserved : Nat]
    /\ copy \in [Requests -> [balance : Nat, reserved : Nat]]
    /\ sent \subseteq Requests /\ again \in BOOLEAN
    /\ clicks \in 0 .. MaxClicks /\ faults \in 0 .. MaxFaults

Init ==
    /\ view = "page" /\ dialog = FALSE /\ amount = 0
    /\ shown = [withdrawable |-> 0, onboarded |-> FALSE]
    /\ awaited = NoWithdrawal
    /\ connect \in {[stripe |-> s, row |-> s] : s \in {"none", "enabled"}}
    /\ request = [r \in Requests |-> NoRequest]
    /\ account = [balance |-> Balance, reserved |-> 0]
    /\ copy = [r \in Requests |-> NoCopy]
    /\ sent = {} /\ again = FALSE
    /\ clicks = 0 /\ faults = 0

Click == clicks < MaxClicks /\ clicks' = clicks + 1
Fault == faults < MaxFaults /\ faults' = faults + 1

-----------------------------------------------------------------------------
(* The service                                                             *)

Total(R) == SumFunctionOnSet([r \in Requests |-> request[r].amount], R)

\* PAYOUT rows: a failed transfer's row stays.
PaidOut == {r \in Requests : request[r].at \in Recorded}

\* What was earned and not paid out.
get_withdrawable_balance == IF Total(PaidOut) >= Cleared THEN 0 ELSE Cleared - Total(PaidOut)

\* Mutant of Verdict: the balance is taken for what may be withdrawn.
VerdictOnBalance(r) ==
    IF connect.row # "enabled" \/ request[r].amount < Minimum \/ request[r].amount > Balance
    THEN "refused" ELSE "checked"

Verdict(r) == IF connect.row # "enabled" \/ request[r].amount < Minimum
                 \/ request[r].amount > get_withdrawable_balance
              THEN "refused" ELSE "checked"

\* The first half of request_payout, which holds no lock: db.get(User) brings the
\* account along.
Check(r) ==
    /\ request[r].at = "sent"
    /\ request' = [request EXCEPT ![r].at = Verdict(r)]
    /\ copy' = [copy EXCEPT ![r] = account]
    /\ UNCHANGED <<again, page, connect, account, sent, clicks, faults>>

Suffices(r) == copy[r].balance >= copy[r].reserved + request[r].amount

\* The second half, from the lock to the commit: Stripe makes the transfer, or
\* answers with an error, and the balance is written back as it was loaded.
request_payout(r) ==
    /\ request[r].at = "checked"
    /\ \/ /\ ~ Suffices(r)
          /\ request' = [request EXCEPT ![r].at = "refused"]
          /\ UNCHANGED <<account, sent, faults>>
       \/ /\ Suffices(r)
          /\ request' = [request EXCEPT ![r].at = "completed"]
          /\ account' = [account EXCEPT !.balance = copy[r].balance - request[r].amount]
          /\ sent' = sent \cup {r}
          /\ UNCHANGED faults
       \/ /\ Suffices(r)
          /\ Fault
          /\ request' = [request EXCEPT ![r].at = "failed"]
          /\ account' = [account EXCEPT !.balance = copy[r].balance]
          /\ UNCHANGED sent
    /\ copy' = [copy EXCEPT ![r] = NoCopy]
    /\ UNCHANGED <<again, page, connect, clicks>>

\* The process dies in the middle of it: nothing is committed, but a transfer
\* that Stripe has made stays made.
Crash(r) ==
    /\ request[r].at = "checked"
    /\ Fault
    /\ sent' \in {sent, sent \cup {r}}
    /\ request' = [request EXCEPT ![r].at = "lost"]
    /\ copy' = [copy EXCEPT ![r] = NoCopy]
    /\ UNCHANGED <<again, page, connect, account, clicks>>

\* The task broker reserves credits of the same account, under the row's lock.
Reserve ==
    /\ account.reserved < account.balance
    /\ Click
    /\ account' = [account EXCEPT !.reserved = @ + 1]
    /\ UNCHANGED <<again, page, connect, request, copy, sent, faults>>

\* The details the owner gives Stripe are verified, and Stripe's webhook reports it.
Verify ==
    /\ connect.stripe = "submitted"
    /\ connect' \in {[stripe |-> "enabled", row |-> w] : w \in {connect.row, "enabled"}}
    /\ UNCHANGED <<again, page, request, account, copy, sent, clicks, faults>>

-----------------------------------------------------------------------------
(* The page                                                                *)

\* The queries of the page, and again whenever a payout was made.  Asking for the
\* status brings the user's row up to date.
Refetch ==
    /\ view = "page"
    /\ connect' = [connect EXCEPT !.row = connect.stripe]
    /\ shown' = [withdrawable |-> get_withdrawable_balance,
                 onboarded |-> connect.stripe \in {"submitted", "enabled"}]
    /\ shown' # shown \/ connect' # connect
    /\ UNCHANGED <<again, view, dialog, amount, awaited, request, account, copy, sent, clicks, faults>>

handleConnect ==
    /\ view = "page" /\ ~ shown.onboarded
    /\ Click
    /\ view' = "leaving"
    /\ UNCHANGED <<again, dialog, amount, shown, awaited, service, faults>>

\* create_connect_account, and the link that its answer leads to.
create_connect_account ==
    /\ view = "leaving"
    /\ \/ /\ connect' = IF connect.stripe = "none" THEN [stripe |-> "created", row |-> "created"]
                        ELSE connect
          /\ view' = "stripe" /\ UNCHANGED faults
       \/ Fault /\ view' = "page" /\ UNCHANGED connect
    /\ UNCHANGED <<again, dialog, amount, shown, awaited, request, account, copy, sent, clicks>>

\* The owner comes back from Stripe to a new page, having filled in the form or not.
Return ==
    /\ view = "stripe"
    /\ connect' = [connect EXCEPT !.stripe = IF @ = "created" THEN "submitted" ELSE @]
          \/ UNCHANGED connect
    /\ view' = "page" /\ dialog' = FALSE /\ amount' = 0
    /\ shown' = [withdrawable |-> 0, onboarded |-> FALSE]
    /\ awaited' = NoWithdrawal
    /\ again' = (again \/ awaited # NoWithdrawal)
    /\ UNCHANGED <<request, account, copy, sent, clicks, faults>>

canWithdraw == shown.onboarded /\ shown.withdrawable >= Minimum

\* The dialog proposes all there is.
OpenWithdraw ==
    /\ view = "page" /\ canWithdraw /\ ~ dialog
    /\ Click
    /\ dialog' = TRUE /\ amount' = shown.withdrawable
    /\ UNCHANGED <<again, view, shown, awaited, service, faults>>

TypeAmount(n) ==
    /\ view = "page" /\ dialog /\ n # amount
    /\ Click
    /\ amount' = n
    /\ UNCHANGED <<again, view, dialog, shown, awaited, service, faults>>

Cancel ==
    /\ view = "page" /\ dialog
    /\ dialog' = FALSE
    /\ UNCHANGED <<again, view, amount, shown, awaited, service, clicks, faults>>

\* The button waits for the last withdrawal and for an amount that may be withdrawn.
handleWithdraw(r) ==
    /\ view = "page" /\ dialog /\ awaited = NoWithdrawal
    /\ amount >= Minimum /\ amount <= shown.withdrawable
    /\ request[r].at = "none"
    /\ Click
    /\ request' = [request EXCEPT ![r] = [at |-> "sent", amount |-> amount]]
    /\ awaited' = [request |-> {r}, tries |-> 1]
    /\ UNCHANGED <<again, view, dialog, amount, shown, connect, account, copy, sent, faults>>

\* The answer closes the dialog and empties it, even if it was opened again meanwhile.
HearPayout(r) ==
    /\ r \in awaited.request /\ request[r].at \in Recorded \cup {"refused"}
    /\ awaited' = NoWithdrawal
    /\ IF request[r].at = "completed" THEN dialog' = FALSE /\ amount' = 0
       ELSE UNCHANGED <<dialog, amount>>
    /\ UNCHANGED <<again, view, shown, service, clicks, faults>>

\* An answer is lost, whether or not the request was carried out: another one is made.
LosePayout(r, q) ==
    /\ r \in awaited.request /\ request[q].at = "none"
    /\ \/ Fault
       \/ request[r].at = "lost" /\ UNCHANGED faults
    /\ again' = TRUE
    /\ IF awaited.tries < MaxTries
       THEN /\ request' = [request EXCEPT ![q] = [at |-> "sent", amount |-> request[r].amount]]
            /\ awaited' = [request |-> {q}, tries |-> awaited.tries + 1]
       ELSE awaited' = NoWithdrawal /\ UNCHANGED request
    /\ UNCHANGED <<view, dialog, amount, shown, connect, account, copy, sent, clicks>>

Next ==
    \/ \E r \in Requests : \/ Check(r) \/ request_payout(r) \/ Crash(r)
                           \/ handleWithdraw(r) \/ HearPayout(r)
                           \/ \E q \in Requests : LosePayout(r, q)
    \/ \E n \in Amounts \ {0} : TypeAmount(n)
    \/ Reserve \/ Verify \/ Refetch
    \/ handleConnect \/ create_connect_account \/ Return \/ OpenWithdraw \/ Cancel

Spec == Init /\ [][Next]_vars

-----------------------------------------------------------------------------
\* Unless a request is repeated or its page is left, no more is ever paid out than
\* was earned, although the page confirms against a balance it fetched long ago and
\* the service checks without the lock (handleWithdraw, request_payout).
PaidWasEarned == again \/ Total(sent) <= Cleared

\* "Uses SELECT FOR UPDATE on Account to prevent double-withdrawal"
\* (payout_service.py): the payouts that are committed were earned.
NoDoubleWithdrawal == Total({r \in sent : request[r].at = "completed"}) <= Cleared
=============================================================================
