------------------------------- MODULE Session -------------------------------
(***************************************************************************)
(* Who is signed in, in one tab of the web client: Firebase's user, the    *)
(* token in localStorage, the httpOnly session cookie and the user on the  *)
(* screen (lib/auth-context.tsx), the API client's retries and its refresh *)
(* on a 401 (lib/api-client.ts), the sign-in pages, the two guards of the  *)
(* protected pages (middleware.ts, auth-guard.tsx), the way out (top-nav,  *)
(* the account's deletion on the settings page).                           *)
(*                                                                         *)
(* Every async function in progress is a thread; what it has read before   *)
(* an await is in its record.                                              *)
(***************************************************************************)
EXTENDS Naturals, FiniteSets

CONSTANTS Users,
          Nobody,
          Threads,    \* async functions that may be in progress at once
          MaxFaults,  \* calls that fail, credentials that expire
          MaxMoves    \* sign-ins, logouts and full page loads of the user

SessionAssumption ==
    Nobody \notin Users /\ MaxFaults \in Nat /\ MaxMoves \in Nat

VARIABLES site,     \* Firebase or local accounts; whether the API shares the site
          firebase, \* firebaseAuth.currentUser, which survives a reload
          token,    \* auth_token in localStorage
          pass,     \* __auth_token, the cookie the middleware looks for
          session,  \* whose httpOnly cookie the browser holds
          shown,    \* AuthState
          page, leaving,
          thread,
          past,     \* history, see TypeOK
          faults, moves

vars == <<site, firebase, token, pass, session, shown, page, leaving, thread, past, faults, moves>>

-----------------------------------------------------------------------------
Pages == {"public", "login", "dashboard"}
Maybe == Users \cup {Nobody}
Kinds == {"none", "call", "profile", "interval", "login", "logout", "delete"}
Points == {"none", "password", "token", "session", "sent", "backoff", "signout", "unsession"}
MaxRetries == 2

(* Types. Of the past is kept: overlap, a sign-in or a token given up while *)
(* a thread was signing someone in; stuck, a listener whose getIdToken threw; out, a       *)
(* logout that ran to its end; cut, one that could not end the session.     *)
TypeOK ==
    /\ site \in [firebase: BOOLEAN, same: BOOLEAN]
    /\ firebase \in Maybe /\ session \in Maybe
    /\ token \in [user: Maybe, old: BOOLEAN]
    /\ pass \in BOOLEAN
    /\ shown \in [user: Maybe, loading: BOOLEAN]
    /\ page \in Pages /\ leaving \in Pages \cup {"no"}
    /\ thread \in [Threads -> [kind: Kinds, at: Points, user: Maybe, old: BOOLEAN,
                               tries: 0 .. MaxRetries, again: BOOLEAN, sends: Nat]]
    /\ past \in [overlap: BOOLEAN, stuck: BOOLEAN, out: BOOLEAN, cut: BOOLEAN]
    /\ faults \in 0 .. MaxFaults /\ moves \in 0 .. MaxMoves

NoToken == [user |-> Nobody, old |-> FALSE]
Idle == [kind |-> "none", at |-> "none", user |-> Nobody, old |-> FALSE,
         tries |-> 0, again |-> FALSE, sends |-> 0]
New(kind, at, u) == [Idle EXCEPT !.kind = kind, !.at = at, !.user = u]

\* fetch: the stored token goes in a header; only without one is the cookie sent.
Sent(r, t) ==
    [r EXCEPT !.at = "sent", !.sends = @ + 1,
              !.user = IF t.user # Nobody THEN t.user ELSE IF site.same THEN session ELSE Nobody,
              !.old = t.user # Nobody /\ t.old]

Busy(t) == thread[t].at # "none"
Fault == faults < MaxFaults /\ faults' = faults + 1
Move == moves < MaxMoves /\ moves' = moves + 1
SetThread(t, r) == thread' = [thread EXCEPT ![t] = r]
Clear == token' = NoToken /\ pass' = FALSE
Store(u) == token' = [user |-> u, old |-> FALSE] /\ pass' = TRUE
Show(u) == shown' = [user |-> u, loading |-> FALSE]

\* The provider's effect on a page load: Firebase's listener, or the stored token.
Mount(target) ==
    LET waits == IF site.firebase THEN firebase # Nobody ELSE token.user # Nobody
        first == IF site.firebase THEN New("profile", "token", firebase)
                 ELSE Sent(New("profile", "sent", Nobody), token)
    IN  /\ page' = target /\ leaving' = "no"
        /\ shown' = [user |-> Nobody, loading |-> waits]
        /\ IF waits THEN \E t \in Threads : thread' = [x \in Threads |-> IF x = t THEN first ELSE Idle]
           ELSE thread' = [x \in Threads |-> Idle]
        /\ IF waits THEN token' = token /\ pass' = (pass \/ ~ site.firebase)
           ELSE IF site.firebase THEN Clear ELSE UNCHANGED <<token, pass>>

Init ==
    /\ site \in [firebase: BOOLEAN, same: BOOLEAN]
    /\ firebase = Nobody /\ session = Nobody /\ token = NoToken /\ pass = FALSE
    /\ shown = [user |-> Nobody, loading |-> FALSE]
    /\ page = "public" /\ leaving = "no"
    /\ thread = [t \in Threads |-> Idle]
    /\ past = [overlap |-> FALSE, stuck |-> FALSE, out |-> FALSE, cut |-> FALSE]
    /\ faults = 0 /\ moves = 0

-----------------------------------------------------------------------------
(* The API client                                                          *)

\* A page calls the API.
Call(t) ==
    /\ ~ Busy(t)
    /\ SetThread(t, Sent(New("call", "sent", Nobody), token))
    /\ UNCHANGED <<site, firebase, token, pass, session, shown, page, leaving, past, faults, moves>>

\* Mutant of Failed: the spinner of a profile that was not had goes on.
FailedSilently(t) == SetThread(t, Idle) /\ UNCHANGED shown

\* A request has failed for good. fetchProfile catches that and shows nobody.
Failed(t) ==
    /\ SetThread(t, Idle)
    /\ IF thread[t].kind \in {"profile", "login"} THEN Show(Nobody) ELSE UNCHANGED shown

\* What a request does when it is answered: fetchProfile shows the user, and a sign-in
\* goes on to the dashboard; a deleted account is logged out while the page is left.
Answered(t) ==
    /\ thread[t].at = "sent" /\ thread[t].user # Nobody /\ ~ thread[t].old
    /\ IF thread[t].kind \in {"profile", "login"} THEN Show(thread[t].user) ELSE UNCHANGED shown
    /\ page' = IF thread[t].kind = "login" /\ leaving = "no" THEN "dashboard" ELSE page
    /\ IF thread[t].kind = "delete"
       THEN SetThread(t, New("delete", "signout", Nobody)) /\ leaving' = "public"
       ELSE SetThread(t, Idle) /\ UNCHANGED leaving
    /\ UNCHANGED <<site, firebase, token, pass, session, past, faults, moves>>

\* Mutant of Lost: one attempt too many.
LostOnceMore(t) ==
    /\ thread[t].at = "sent"
    /\ Fault
    /\ IF thread[t].tries <= MaxRetries
       THEN SetThread(t, [thread[t] EXCEPT !.at = "backoff", !.tries = MaxRetries + 1]) /\ UNCHANGED shown
       ELSE Failed(t)
    /\ UNCHANGED <<site, firebase, token, pass, session, page, leaving, past, moves>>

\* A network error or a 5xx.
Lost(t) ==
    /\ thread[t].at = "sent"
    /\ Fault
    /\ IF thread[t].tries < MaxRetries
       THEN SetThread(t, [thread[t] EXCEPT !.at = "backoff", !.tries = @ + 1]) /\ UNCHANGED shown
       ELSE Failed(t)
    /\ UNCHANGED <<site, firebase, token, pass, session, page, leaving, past, moves>>

Retry(t) ==
    /\ thread[t].at = "backoff"
    /\ SetThread(t, Sent(thread[t], token))
    /\ UNCHANGED <<site, firebase, token, pass, session, shown, page, leaving, past, faults, moves>>

\* The credentials are given up; a protected page is left.
GiveUp(t) ==
    /\ Clear /\ Failed(t)
    /\ leaving' = IF page = "dashboard" THEN "login" ELSE leaving

\* A 401: refreshToken once, for the user Firebase knows now.
Unauthorized(t) ==
    /\ thread[t].at = "sent" /\ (thread[t].user = Nobody \/ thread[t].old)
    /\ \/ thread[t].again /\ Failed(t) /\ UNCHANGED <<token, pass, leaving>>
       \/ ~ thread[t].again /\ firebase = Nobody /\ GiveUp(t)
       \/ /\ ~ thread[t].again /\ firebase # Nobody
          /\ SetThread(t, [thread[t] EXCEPT !.at = "token", !.user = firebase,
                                            !.again = TRUE, !.tries = 0])
          /\ UNCHANGED <<token, pass, shown, leaving>>
    /\ UNCHANGED <<site, firebase, session, page, past, faults, moves>>

-----------------------------------------------------------------------------
(* Tokens: the listener, the 55-minute interval, refreshToken, the sign-in *)

\* Every 55 minutes, of the user Firebase knows then.
Interval(t) ==
    /\ site.firebase /\ firebase # Nobody /\ ~ Busy(t)
    /\ \A x \in Threads : thread[x].kind # "interval"
    /\ SetThread(t, New("interval", "token", firebase))
    /\ UNCHANGED <<site, firebase, token, pass, session, shown, page, leaving, past, faults, moves>>

\* getIdToken of the user object a thread holds; createSession comes next.
GotToken(t) ==
    /\ thread[t].at = "token"
    /\ SetThread(t, [thread[t] EXCEPT !.at = "session"])
    /\ UNCHANGED <<site, firebase, token, pass, session, shown, page, leaving, past, faults, moves>>

\* It throws. Nobody catches that in the listener.
NoTokenGot(t) ==
    /\ thread[t].at = "token"
    /\ Fault
    /\ IF thread[t].again THEN GiveUp(t)
       ELSE SetThread(t, Idle) /\ UNCHANGED <<token, pass, shown, leaving>>
    /\ past' = IF thread[t].again
               THEN [past EXCEPT !.overlap = @ \/ \E x \in Threads : thread[x].kind \in {"profile", "login"}]
               ELSE [past EXCEPT !.stuck = @ \/ thread[t].kind = "profile"]
    /\ UNCHANGED <<site, firebase, session, page, moves>>

\* Mutant of GotSession: the profile is asked for with the token there was before.
GotSessionTooLate(t) ==
    LET r == thread[t] IN
    /\ r.at = "session"
    /\ session' \in {session, IF site.same THEN r.user ELSE session}
    /\ Store(r.user)
    /\ SetThread(t, IF r.kind = "interval" THEN Idle ELSE Sent(r, token))
    /\ UNCHANGED <<site, firebase, shown, page, leaving, past, faults, moves>>

\* The session cookie is set, or it is not and nobody minds; then the token is stored,
\* whatever has been stored since the thread began.
GotSession(t) ==
    LET r == thread[t] IN
    /\ r.at = "session"
    /\ session' \in {session, IF site.same THEN r.user ELSE session}
    /\ Store(r.user)
    /\ SetThread(t, IF r.kind = "interval" THEN Idle ELSE Sent(r, token'))
    /\ UNCHANGED <<site, firebase, shown, page, leaving, past, faults, moves>>

\* A sign-in: Firebase's listener starts beside it. The buttons wait for the last one.
SignIn(t, u) ==
    /\ Move
    /\ page # "dashboard" /\ leaving = "no" /\ ~ Busy(t)
    /\ \A x \in Threads : thread[x].kind \notin {"login", "logout", "delete"}
    /\ past' = [past EXCEPT !.overlap = @ \/ \E x \in Threads :
                                                Busy(x) /\ (thread[x].kind = "call" => thread[x].again),
                            !.out = FALSE]
    /\ \/ /\ site.firebase
          /\ firebase' = u
          /\ IF u = firebase THEN SetThread(t, New("login", "token", u))
             ELSE \E x \in Threads \ {t} :
                    /\ ~ Busy(x)
                    /\ thread' = [thread EXCEPT ![t] = New("login", "token", u),
                                                ![x] = New("profile", "token", u)]
       \/ ~ site.firebase /\ SetThread(t, New("login", "password", u)) /\ UNCHANGED firebase
    /\ UNCHANGED <<site, token, pass, session, shown, page, leaving, faults>>

\* /auth/login of a local account, after /auth/register for a new one. To the API
\* client a wrong password is an expired session.
Password(t) ==
    /\ thread[t].at = "password"
    /\ \/ /\ Store(thread[t].user)
          /\ SetThread(t, Sent(thread[t], token'))
          /\ UNCHANGED leaving
       \/ /\ Clear
          /\ SetThread(t, Idle)
          /\ leaving' = IF page = "dashboard" THEN "login" ELSE leaving
    /\ UNCHANGED <<site, firebase, session, shown, page, past, faults, moves>>

-----------------------------------------------------------------------------
(* The way out                                                             *)

Logout(t) ==
    /\ Move
    /\ shown.user # Nobody /\ leaving = "no" /\ ~ Busy(t)
    /\ \A x \in Threads : thread[x].kind \notin {"login", "logout", "delete"}
    /\ SetThread(t, New("logout", "signout", Nobody))
    /\ UNCHANGED <<site, firebase, token, pass, session, shown, page, leaving, past, faults>>

DeleteAccount(t) ==
    /\ Move
    /\ shown.user # Nobody /\ page = "dashboard" /\ leaving = "no" /\ ~ Busy(t)
    /\ \A x \in Threads : thread[x].kind \notin {"login", "logout", "delete"}
    /\ SetThread(t, Sent(New("delete", "sent", Nobody), token))
    /\ UNCHANGED <<site, firebase, token, pass, session, shown, page, leaving, past, faults>>

\* Firebase signs out and its listener forgets the token.
SignedOut(t) ==
    /\ thread[t].at = "signout"
    /\ SetThread(t, [thread[t] EXCEPT !.at = "unsession"])
    /\ firebase' = Nobody
    /\ IF site.firebase THEN Clear /\ Show(Nobody) ELSE UNCHANGED <<token, pass, shown>>
    /\ past' = [past EXCEPT !.cut = @ \/ \E x \in Threads : thread[x].at \in {"token", "session"}]
    /\ UNCHANGED <<site, session, page, leaving, faults, moves>>

\* Mutant of LoggedOut: the session's cookie is kept.
LoggedOutOfPage(t) ==
    /\ thread[t].at = "unsession"
    /\ Clear /\ Show(Nobody) /\ SetThread(t, Idle)
    /\ past' = [past EXCEPT !.out = TRUE]
    /\ leaving' = "public"
    /\ UNCHANGED <<site, firebase, session, page, faults, moves>>

\* The rest of logout; the menu then loads the front page.
LoggedOut(t) ==
    /\ thread[t].at = "unsession"
    /\ Clear /\ Show(Nobody) /\ SetThread(t, Idle)
    /\ \/ session' = Nobody /\ past' = [past EXCEPT !.out = TRUE] /\ UNCHANGED faults
       \/ /\ site.same /\ Fault
          /\ past' = [past EXCEPT !.out = TRUE, !.cut = TRUE]
          /\ UNCHANGED session
    /\ leaving' = "public"
    /\ UNCHANGED <<site, firebase, page, moves>>

-----------------------------------------------------------------------------
(* Pages                                                                   *)

\* The browser loads the page window.location was set to: every thread is gone.
Reload ==
    /\ leaving # "no"
    /\ Mount(leaving)
    /\ UNCHANGED <<site, firebase, session, past, faults, moves>>

\* The user loads a page; the middleware turns one without the cookie away.
Visit(target) ==
    /\ Move
    /\ leaving = "no"
    /\ Mount(IF target = "dashboard" /\ ~ pass THEN "login" ELSE target)
    /\ UNCHANGED <<site, firebase, session, past, faults>>

\* AuthGuard, once it knows that nobody is signed in.
TurnedAway ==
    /\ page = "dashboard" /\ leaving = "no" /\ ~ shown.loading /\ shown.user = Nobody
    /\ page' = "login"
    /\ UNCHANGED <<site, firebase, token, pass, session, shown, leaving, thread, past, faults, moves>>

\* A token is good for an hour, and so is the middleware's cookie.
Expire ==
    /\ Fault
    /\ \/ token.user # Nobody /\ ~ token.old /\ token' = [token EXCEPT !.old = TRUE] /\ UNCHANGED pass
       \/ pass /\ pass' = FALSE /\ UNCHANGED token
    /\ UNCHANGED <<site, firebase, session, shown, page, leaving, thread, past, moves>>

-----------------------------------------------------------------------------
Progress(t) == \/ Answered(t) \/ Retry(t) \/ Unauthorized(t) \/ GotToken(t) \/ GotSession(t)
               \/ Password(t) \/ SignedOut(t) \/ LoggedOut(t)

Next == \/ \E t \in Threads : \/ Progress(t) \/ Call(t) \/ Lost(t) \/ Interval(t) \/ NoTokenGot(t)
                              \/ Logout(t) \/ DeleteAccount(t) \/ \E u \in Users : SignIn(t, u)
        \/ Reload \/ TurnedAway \/ Expire \/ \E target \in Pages : Visit(target)

Spec == Init /\ [][Next]_vars

\* The network answers in the end, and the browser finishes loading.
FairSpec == Spec /\ (\A t \in Threads : WF_vars(Progress(t))) /\ WF_vars(Reload) /\ WF_vars(TurnedAway)

-----------------------------------------------------------------------------
Settled == leaving = "no" /\ \A t \in Threads : ~ Busy(t)

(* When nothing is in progress, the token requests are made with and the   *)
(* user on the screen are those of one account, unless a sign-in began     *)
(* while another thread was yet to store its token or to show its user, or *)
(* such a thread got no token, or lost it to a 401 that got none.          *)
OneAccount ==
    Settled /\ ~ past.overlap /\ ~ past.stuck =>
        /\ token.user # Nobody /\ shown.user # Nobody => token.user = shown.user
        /\ site.firebase => token.user \in {Nobody, firebase} /\ shown.user \in {Nobody, firebase}

(* A logout that has run to its end leaves no credentials in the browser   *)
(* after the reload, not even those a refresh was fetching meanwhile.      *)
LogoutSticks ==
    past.out /\ Settled => /\ token.user = Nobody /\ shown.user = Nobody /\ ~ pass
                           /\ session = Nobody \/ past.cut

(* A call is sent six times at the most: the 401 starts the three attempts *)
(* over, once.                                                             *)
SendsAreBounded == \A t \in Threads : thread[t].sends <= 2 * (MaxRetries + 1)

(* The spinner of the protected pages goes away, unless Firebase's token   *)
(* could not be had when its listener was called.                          *)
LoadingEnds == shown.loading ~> (~ shown.loading \/ past.stuck)
=============================================================================
