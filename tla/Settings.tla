------------------------------ MODULE Settings ------------------------------
(***************************************************************************)
(* The settings of an account (dashboard/settings/page.tsx) and the calls  *)
(* behind them (api/auth.py, api/llm_keys.py): the limit on daily          *)
(* spending, the account's API key, keys of language-model providers,  *)
(* the export of the data and the deletion of the account.                 *)
(*                                                                         *)
(* Each kind of call has a flag that keeps a second one of its kind from   *)
(* being made; calls of different kinds overlap.  A user has one API key,  *)
(* which the service knows the hash of.                                    *)
(***************************************************************************)
EXTENDS Naturals, FiniteSets

CONSTANTS Keys, Nothing,   \* API keys in the order of no one's choice; none
          Providers,       \* of language models
          MaxTries,        \* the API client's
          MaxClicks, MaxFaults

SettingsAssumption ==
    /\ Nothing \notin Keys \cup Providers
    /\ MaxTries \in Nat \ {0} /\ {MaxClicks, MaxFaults} \subseteq Nat

VARIABLES open,
          limit,       \* the field of the limit: "", "0" or "n"
          naming,      \* a name for the key is typed
          shown,       \* the key to copy
          revokeOpen, deleteOpen,
          provider,    \* selected, with a key typed
          doomed,      \* the provider whose key is about to be removed
          listed,      \* the providers listed as configured
          call,        \* calls under way
          user,        \* the row of the account
          past, clicks, faults

fields == <<limit, naming, shown, revokeOpen, deleteOpen, provider, doomed, listed>>
vars == <<open, fields, call, user, past, clicks, faults>>

-----------------------------------------------------------------------------
Kinds == {"limit", "generate", "revoke", "save", "remove", "list", "export", "delete"}
Limits == {"", "0", "n"}
Idle == [at |-> "none", arg |-> Nothing, copy |-> {}, tries |-> 0]

TypeOK ==
    /\ open \in BOOLEAN /\ limit \in Limits /\ naming \in BOOLEAN
    /\ shown \in Keys \cup {Nothing}
    /\ revokeOpen \in BOOLEAN /\ deleteOpen \in {"no", "asked", "typed"}
    /\ {provider, doomed} \subseteq Providers \cup {Nothing} /\ listed \subseteq Providers
    /\ \A k \in Kinds : /\ call[k].at \in {"none", "sent", "loaded", "done", "listing", "listed", "failed"}
                        /\ call[k].arg \in Keys \cup Providers \cup Limits \cup {Nothing}
                        /\ call[k].copy \subseteq Providers
                        /\ call[k].tries \in 0 .. MaxTries
    /\ user \in [key : Keys \cup {Nothing}, revoked : BOOLEAN, limit : Limits,
                 llm : SUBSET Providers, active : BOOLEAN]
    /\ past \subseteq {"revoked", "repeated"}
    /\ clicks \in 0 .. MaxClicks /\ faults \in 0 .. MaxFaults

\* The page asks for the providers' keys when it opens.
Init ==
    /\ open = TRUE /\ limit = "" /\ naming = FALSE /\ shown = Nothing
    /\ revokeOpen = FALSE /\ deleteOpen = "no"
    /\ provider = Nothing /\ doomed = Nothing /\ listed = {}
    /\ call = [k \in Kinds |-> IF k = "list" THEN [Idle EXCEPT !.at = "listing", !.tries = 1]
                               ELSE Idle]
    /\ user = [key |-> Nothing, revoked |-> FALSE, limit |-> "", llm |-> {}, active |-> TRUE]
    /\ past = {} /\ clicks = 0 /\ faults = 0

Click == open /\ clicks < MaxClicks /\ clicks' = clicks + 1
Fault == faults < MaxFaults /\ faults' = faults + 1
Pending(k) == call[k].at # "none"

Ask(k, arg) ==
    /\ Click /\ ~ Pending(k)
    /\ call' = [call EXCEPT ![k] = [Idle EXCEPT !.at = "sent", !.arg = arg, !.tries = 1]]
    /\ UNCHANGED <<open, user, faults>>

-----------------------------------------------------------------------------
(* The limit, the export and the deletion                                  *)

TypeLimit(l) ==
    /\ Click /\ limit # l
    /\ limit' = l
    /\ UNCHANGED <<open, naming, shown, revokeOpen, deleteOpen, provider, doomed, listed, call, user,
                   past, faults>>

\* A limit of 0 is sent as none.
handleSaveSpendLimit ==
    /\ Ask("limit", IF limit = "n" THEN "n" ELSE "")
    /\ UNCHANGED <<fields, past>>

handleExportData == Ask("export", Nothing) /\ UNCHANGED <<fields, past>>

AskDelete ==
    /\ Click /\ deleteOpen # "typed"
    /\ deleteOpen' = IF deleteOpen = "no" THEN "asked" ELSE "typed"
    /\ UNCHANGED <<open, limit, naming, shown, revokeOpen, provider, doomed, listed, call, user, past,
                   faults>>

\* Cancel closes the dialog; a deletion under way goes on.
CancelDelete ==
    /\ open /\ deleteOpen # "no"
    /\ deleteOpen' = "no"
    /\ UNCHANGED <<open, limit, naming, shown, revokeOpen, provider, doomed, listed, call, user, past,
                   clicks, faults>>

handleDeleteAccount ==
    /\ deleteOpen = "typed"
    /\ Ask("delete", Nothing) /\ UNCHANGED <<fields, past>>

-----------------------------------------------------------------------------
(* The API key                                                             *)

TypeKeyName ==
    /\ Click /\ ~ naming
    /\ naming' = TRUE
    /\ UNCHANGED <<open, limit, shown, revokeOpen, deleteOpen, provider, doomed, listed, call, user,
                   past, faults>>

handleGenerateKey ==
    /\ naming
    /\ Ask("generate", Nothing) /\ UNCHANGED <<fields, past>>

AskRevoke(b) ==
    /\ Click /\ revokeOpen # b
    /\ revokeOpen' = b
    /\ UNCHANGED <<open, limit, naming, shown, deleteOpen, provider, doomed, listed, call, user, past,
                   faults>>

handleRevokeKey ==
    /\ revokeOpen
    /\ Ask("revoke", Nothing)
    /\ past' = past \cup {"revoked"}
    /\ UNCHANGED fields

-----------------------------------------------------------------------------
(* The keys of the providers                                               *)

SelectProvider(p) ==
    /\ Click /\ provider # p
    /\ provider' = p
    /\ UNCHANGED <<open, limit, naming, shown, revokeOpen, deleteOpen, doomed, listed, call, user,
                   past, faults>>

handleSaveKey ==
    /\ provider # Nothing
    /\ Ask("save", provider) /\ UNCHANGED <<fields, past>>

\* The trash of a listed key, and the dialog's Cancel.
Doom(p) ==
    /\ doomed # p /\ p \in listed \cup {Nothing}
    /\ p # Nothing => call["remove"].arg # p
    /\ Click
    /\ doomed' = p
    /\ UNCHANGED <<open, limit, naming, shown, revokeOpen, deleteOpen, provider, listed, call, user,
                   past, faults>>

\* One removal at a time, whatever the provider.
handleDeleteKey ==
    /\ doomed # Nothing
    /\ Ask("remove", doomed)
    /\ doomed' = Nothing
    /\ UNCHANGED <<limit, naming, shown, revokeOpen, deleteOpen, provider, listed, past>>

-----------------------------------------------------------------------------
(* The service                                                             *)

Answer(k, arg) == [call EXCEPT ![k].at = "done", ![k].arg = arg]

\* The new hash replaces the old one; nothing else of the row changes.
create_api_key(k) ==
    /\ call["generate"].at = "sent" /\ user.active
    /\ k # user.key
    /\ user' = [user EXCEPT !.key = k]
    /\ call' = Answer("generate", k)
    /\ UNCHANGED <<open, fields, past, clicks, faults>>

\* What the other calls do to the row.
Effect(k) ==
    CASE k = "limit"  -> [user EXCEPT !.limit = call[k].arg]
      [] k = "revoke" -> [user EXCEPT !.revoked = TRUE]
      [] k = "delete" -> [user EXCEPT !.active = FALSE, !.key = Nothing, !.llm = {}]
      [] OTHER        -> user

Serve(k) ==
    /\ k \in {"limit", "revoke", "delete", "export"}
    /\ call[k].at = "sent" /\ user.active
    /\ user' = Effect(k)
    /\ call' = Answer(k, call[k].arg)
    /\ UNCHANGED <<open, fields, past, clicks, faults>>

\* The providers' keys are one column: it is read, and written back changed.
LoadKeys(k) ==
    /\ k \in {"save", "remove"}
    /\ call[k].at = "sent" /\ user.active
    /\ call' = [call EXCEPT ![k].at = "loaded", ![k].copy = user.llm]
    /\ UNCHANGED <<open, fields, user, past, clicks, faults>>

StoreKeys(k) ==
    /\ call[k].at = "loaded"
    /\ user' = [user EXCEPT !.llm = IF k = "save" THEN call[k].copy \cup {call[k].arg}
                                    ELSE call[k].copy \ {call[k].arg}]
    /\ call' = Answer(k, call[k].arg)
    /\ UNCHANGED <<open, fields, past, clicks, faults>>

list_llm_keys(k) ==
    /\ call[k].at = "listing" /\ user.active
    /\ call' = [call EXCEPT ![k].at = "listed", ![k].copy = user.llm]
    /\ UNCHANGED <<open, fields, user, past, clicks, faults>>

\* A deactivated account is refused everything.
Refuse(k) ==
    /\ call[k].at \in {"sent", "listing"} /\ ~ user.active
    /\ call' = [call EXCEPT ![k].at = "failed"]
    /\ UNCHANGED <<open, fields, user, past, clicks, faults>>

\* An answer is lost: the API client asks again, whatever has been done.
Lose(k) ==
    /\ call[k].at \in {"sent", "done", "listing", "listed"}
    /\ Fault
    /\ call' = [call EXCEPT ![k].at = IF call[k].tries = MaxTries THEN "failed"
                                     ELSE IF @ \in {"sent", "done"} THEN "sent" ELSE "listing",
                            ![k].tries = IF @ < MaxTries THEN @ + 1 ELSE @]
    /\ past' = past \cup {"repeated"}
    /\ UNCHANGED <<open, fields, user, clicks>>

-----------------------------------------------------------------------------
(* The answers                                                             *)

\* A saved or a removed key is followed by a look at the list, which belongs to it.
Ended(k) == IF k \in {"save", "remove"} THEN [Idle EXCEPT !.at = "listing", !.tries = 1] ELSE Idle

\* Mutant of Hear: of the keys generated, the first stays on the page.
HearFirstKey(k) ==
    /\ call[k].at = "done"
    /\ call' = [call EXCEPT ![k] = Ended(k)]
    /\ naming' = (naming /\ k # "generate")
    /\ shown' = CASE k = "generate" /\ shown = Nothing -> call[k].arg
                  [] k = "revoke" -> Nothing
                  [] OTHER        -> shown
    /\ revokeOpen' = (revokeOpen /\ k # "revoke")
    /\ provider' = IF k = "save" THEN Nothing ELSE provider
    /\ open' = (open /\ k # "delete")
    /\ UNCHANGED <<limit, deleteOpen, doomed, listed, user, past, clicks, faults>>

\* What a good answer does to the page, whatever was done there meanwhile.
Hear(k) ==
    /\ call[k].at = "done"
    /\ call' = [call EXCEPT ![k] = Ended(k)]
    /\ naming' = (naming /\ k # "generate")
    /\ shown' = CASE k = "generate" -> call[k].arg
                  [] k = "revoke"   -> Nothing
                  [] OTHER          -> shown
    /\ revokeOpen' = (revokeOpen /\ k # "revoke")
    /\ provider' = IF k = "save" THEN Nothing ELSE provider
    /\ open' = (open /\ k # "delete")
    /\ UNCHANGED <<limit, deleteOpen, doomed, listed, user, past, clicks, faults>>

loadLLMKeys(k) ==
    /\ call[k].at = "listed"
    /\ listed' = call[k].copy
    /\ call' = [call EXCEPT ![k] = Idle]
    /\ UNCHANGED <<open, limit, naming, shown, revokeOpen, deleteOpen, provider, doomed, user, past,
                   clicks, faults>>

HearFailure(k) ==
    /\ call[k].at = "failed"
    /\ call' = [call EXCEPT ![k] = Idle]
    /\ UNCHANGED <<open, fields, user, past, clicks, faults>>

Next ==
    \/ \E l \in Limits : TypeLimit(l)
    \/ handleSaveSpendLimit \/ handleExportData \/ AskDelete \/ CancelDelete \/ handleDeleteAccount
    \/ TypeKeyName \/ handleGenerateKey \/ handleRevokeKey
    \/ \E b \in BOOLEAN : AskRevoke(b)
    \/ \E p \in Providers : SelectProvider(p)
    \/ \E p \in Providers \cup {Nothing} : Doom(p)
    \/ handleSaveKey \/ handleDeleteKey
    \/ \E k \in Keys : create_api_key(k)
    \/ \E k \in Kinds : \/ Serve(k) \/ LoadKeys(k) \/ StoreKeys(k) \/ list_llm_keys(k)
                        \/ Refuse(k) \/ Lose(k)
                        \/ Hear(k) \/ loadLLMKeys(k) \/ HearFailure(k)

Spec == Init /\ [][Next]_vars

-----------------------------------------------------------------------------
Accepted(k) == user.active /\ user.key = k /\ ~ user.revoked

\* The key the page tells its user to copy is the one the service accepts, as long as
\* none was ever revoked, no request repeated and no other key is being made: however
\* calls overlap, no second one was made behind it (handleGenerateKey).
ShownKeyWorks ==
    past = {} /\ shown # Nothing => Accepted(shown) \/ ~ user.active \/ Pending("generate")
=============================================================================
