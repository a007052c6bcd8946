-------------------------- MODULE WebClientProofs --------------------------
(***************************************************************************)
(* Properties of the web client, for any values of its constants. A        *)
(* behaviour stays in one section, so that an invariant of the section's   *)
(* component, proved of the component's own actions, is one of the client. *)
(***************************************************************************)
EXTENDS WebClient, FiniteSetTheorems, SumTheorems, TLAPS

-----------------------------------------------------------------------------
(***************************************************************************)
(* For any keys and providers and any number of clicks and lost answers,   *)
(* the key the settings page tells its user to copy is the one the service *)
(* accepts.                                                                *)
(*                                                                         *)
(* The property is not inductive: what an answer on its way back will put  *)
(* on the page must already be the key of the row (AnswerIsKey), a call    *)
(* that fails must do so because the account is gone (FailsWhenGone), and  *)
(* nothing may have revoked the key in a history without revocations       *)
(* (NeverRevoked).                                                         *)
(***************************************************************************)

\* Types as wide as the argument about the key allows.
KeyArgs == Keys \cup Providers \cup TheSettings!Limits \cup {NoName}
KeyCall == [at : {"none", "sent", "loaded", "done", "listing", "listed", "failed"},
            arg : KeyArgs, copy : SUBSET KeyArgs, tries : Nat]
KeyHolder == [key : KeyArgs, revoked : BOOLEAN, limit : KeyArgs, llm : SUBSET KeyArgs,
    active : BOOLEAN]

KeyTypes ==
    /\ settingsCall \in [TheSettings!Kinds -> KeyCall]
    /\ settingsUser \in KeyHolder
    /\ provider \in Providers \cup {NoName} /\ doomed \in Providers \cup {NoName}
    /\ settingsCall["generate"].at \in {"none", "sent", "done", "failed"}

NeverRevoked == settingsPast = {} => settingsCall["revoke"].at = "none" /\ ~ settingsUser.revoked

AnswerIsKey ==
    settingsPast = {} /\ settingsCall["generate"].at = "done"
        => settingsUser.key = settingsCall["generate"].arg \/ ~ settingsUser.active

FailsWhenGone == settingsPast = {} /\ settingsCall["generate"].at = "failed"
    => ~ settingsUser.active

KeyInv == KeyTypes /\ NeverRevoked /\ AnswerIsKey /\ FailsWhenGone /\ TheSettings!ShownKeyWorks

-----------------------------------------------------------------------------
(* The page as it opens satisfies the invariant. *)
LEMMA InitKey == ASSUME TheSettings!SettingsAssumption, TheSettings!Init PROVE KeyInv
  BY DEF TheSettings!SettingsAssumption, TheSettings!Init, KeyInv, KeyTypes, KeyCall, KeyHolder,
         KeyArgs, TheSettings!Kinds, TheSettings!Limits, TheSettings!Idle, NeverRevoked,
         AnswerIsKey, FailsWhenGone, TheSettings!ShownKeyWorks

(* A click that asks for something starts a call of its own kind and       *)
(* touches neither the row nor the key shown.                              *)
LEMMA AskKeepsKey ==
    ASSUME TheSettings!SettingsAssumption, KeyInv, NEW k \in TheSettings!Kinds,
           NEW arg \in KeyArgs, TheSettings!Ask(k, arg), settingsShown' = settingsShown,
               provider' = provider,
           doomed' \in {doomed, NoName},
           (k # "revoke" /\ settingsPast' = settingsPast)
               \/ settingsPast' = settingsPast \cup {"revoked"}
    PROVE  KeyInv'
<1>1. KeyTypes'
  <2> DEFINE wanted == [TheSettings!Idle EXCEPT !.at = "sent", !.arg = arg, !.tries = 1]
  <2>1. wanted \in KeyCall /\ wanted.at = "sent"
    BY DEF TheSettings!Idle, KeyCall, KeyArgs
  <2> HIDE DEF wanted
  <2>2. settingsCall' = [settingsCall EXCEPT ![k] = wanted] /\ settingsUser' = settingsUser
    BY DEF TheSettings!Ask, wanted
  <2>3. settingsCall' \in [TheSettings!Kinds -> KeyCall]
          /\ settingsCall'["generate"].at \in {settingsCall["generate"].at, "sent"}
    BY <2>1, <2>2 DEF KeyInv, KeyTypes, TheSettings!Kinds
  <2> QED
    BY <2>2, <2>3 DEF KeyInv, KeyTypes
<1>2. settingsPast' = {} => settingsPast = {} /\ k # "revoke"
  OBVIOUS
<1>3. NeverRevoked' /\ AnswerIsKey' /\ FailsWhenGone' /\ TheSettings!ShownKeyWorks'
  BY <1>2 DEF KeyInv, KeyTypes, KeyCall, TheSettings!Kinds, TheSettings!Ask, TheSettings!Idle,
         NeverRevoked, AnswerIsKey, FailsWhenGone, TheSettings!ShownKeyWorks,
         TheSettings!Accepted, TheSettings!Pending
<1> QED
  BY <1>1, <1>3 DEF KeyInv

(* The service does no more to the row than what was asked, and a new key  *)
(* is on its way back as soon as it is the row's.                          *)
LEMMA ServiceKeepsKey ==
    ASSUME TheSettings!SettingsAssumption, KeyInv,
           \/ \E k \in Keys : TheSettings!create_api_key(k)
           \/ \E k \in TheSettings!Kinds : TheSettings!Serve(k) \/ TheSettings!LoadKeys(k)
               \/ TheSettings!StoreKeys(k) \/ TheSettings!list_llm_keys(k)
                               \/ TheSettings!Refuse(k) \/ TheSettings!Lose(k)
    PROVE  KeyInv'
<1>1. CASE \E k \in Keys : TheSettings!create_api_key(k)
  <2>1. PICK k \in Keys : TheSettings!create_api_key(k)
    BY <1>1
  <2> DEFINE answer == [settingsCall["generate"] EXCEPT !.at = "done", !.arg = k]
  <2>2. answer \in KeyCall /\ answer.at = "done" /\ answer.arg = k
    BY DEF KeyInv, KeyTypes, KeyCall, TheSettings!Kinds, KeyArgs
  <2> HIDE DEF answer
  <2>3. settingsCall' = [settingsCall EXCEPT !["generate"] = answer]
    BY <2>1 DEF TheSettings!create_api_key, TheSettings!Answer, answer
  <2>4. settingsUser' = [settingsUser EXCEPT !.key = k]
          /\ UNCHANGED <<TheSettings!fields, settingsPast>>
    BY <2>1 DEF TheSettings!create_api_key
  <2>5. KeyTypes'
    BY <2>1, <2>2, <2>3, <2>4 DEF KeyInv, KeyTypes, TheSettings!Kinds, TheSettings!fields,
           KeyHolder, KeyArgs
  <2> QED
    BY <2>2, <2>3, <2>4, <2>5 DEF KeyInv, KeyTypes, TheSettings!Kinds, TheSettings!fields,
           NeverRevoked, AnswerIsKey, FailsWhenGone, TheSettings!ShownKeyWorks,
           TheSettings!Accepted, TheSettings!Pending
<1>2. CASE \E k \in TheSettings!Kinds : TheSettings!Serve(k)
  <2>1. PICK k \in TheSettings!Kinds : TheSettings!Serve(k)
    BY <1>2
  <2>2. TheSettings!Effect(k).active => settingsUser.active
          /\ TheSettings!Effect(k).key = settingsUser.key
    BY <2>1 DEF TheSettings!Serve, TheSettings!Effect, KeyInv, KeyTypes, KeyHolder
  <2>3. k # "revoke" => TheSettings!Effect(k).revoked = settingsUser.revoked
    BY <2>1 DEF TheSettings!Serve, TheSettings!Effect, KeyInv, KeyTypes, KeyHolder
  <2>4. KeyTypes'
    <3> DEFINE answer == [settingsCall[k] EXCEPT !.at = "done"]
    <3>1. settingsCall[k] \in KeyCall
      BY <2>1 DEF KeyInv, KeyTypes
    <3>2. answer \in KeyCall
      BY <3>1 DEF KeyCall
    <3>3. settingsCall' = [settingsCall EXCEPT ![k] = answer]
      BY <2>1, <3>1 DEF TheSettings!Serve, TheSettings!Answer, KeyCall, KeyInv, KeyTypes
    <3> HIDE DEF answer
    <3>4. settingsCall' \in [TheSettings!Kinds -> KeyCall]
            /\ settingsCall'["generate"] = settingsCall["generate"]
      BY <2>1, <3>2, <3>3 DEF KeyInv, KeyTypes, TheSettings!Kinds, TheSettings!Serve
    <3>5. settingsUser' \in KeyHolder
      BY ZenonT(30), <2>1, <3>1 DEF TheSettings!Serve, TheSettings!Effect, KeyInv, KeyTypes, KeyHolder,
             KeyCall, KeyArgs
    <3> QED
      BY <2>1, <3>4, <3>5 DEF KeyInv, KeyTypes, TheSettings!Serve, TheSettings!fields
  <2>5. settingsPast = {} => k # "revoke"
    BY <2>1 DEF KeyInv, NeverRevoked, TheSettings!Serve
  <2> QED
    BY SMTT(30), <2>1, <2>2, <2>3, <2>4, <2>5 DEF KeyInv, KeyTypes, KeyCall, TheSettings!Kinds,
           TheSettings!Serve, TheSettings!Answer, TheSettings!fields, NeverRevoked, AnswerIsKey,
           FailsWhenGone, TheSettings!ShownKeyWorks, TheSettings!Accepted, TheSettings!Pending
<1>3. CASE \E k \in TheSettings!Kinds : TheSettings!LoadKeys(k) \/ TheSettings!StoreKeys(k)
        \/ TheSettings!list_llm_keys(k)
  <2>1. PICK k \in TheSettings!Kinds : TheSettings!LoadKeys(k) \/ TheSettings!StoreKeys(k)
          \/ TheSettings!list_llm_keys(k)
    BY <1>3
  <2>2. k # "generate" \* its answers and its copies are others'
    BY <2>1 DEF KeyInv, KeyTypes, TheSettings!LoadKeys, TheSettings!StoreKeys,
           TheSettings!list_llm_keys
  <2>3. KeyTypes'
    <3>1. settingsCall[k] \in KeyCall /\ settingsUser.llm \subseteq KeyArgs
      BY DEF KeyInv, KeyTypes, KeyHolder
    <3>2. PICK c \in KeyCall : settingsCall' = [settingsCall EXCEPT ![k] = c]
      <4>1. CASE TheSettings!LoadKeys(k) \/ TheSettings!list_llm_keys(k)
        <5>1. /\ [settingsCall[k] EXCEPT !.at = "loaded", !.copy = settingsUser.llm] \in KeyCall
              /\ [settingsCall[k] EXCEPT !.at = "listed", !.copy = settingsUser.llm] \in KeyCall
          BY <3>1 DEF KeyCall
        <5> QED
          BY ZenonT(30), <4>1, <5>1 DEF TheSettings!LoadKeys, TheSettings!list_llm_keys
      <4>2. CASE TheSettings!StoreKeys(k)
        <5>1. [settingsCall[k] EXCEPT !.at = "done", !.arg = settingsCall[k].arg] \in KeyCall
          BY <3>1 DEF KeyCall
        <5> QED
          BY <4>2, <5>1 DEF TheSettings!StoreKeys, TheSettings!Answer
      <4> QED
        BY <2>1, <4>1, <4>2
    <3>3. settingsCall' \in [TheSettings!Kinds -> KeyCall]
            /\ settingsCall'["generate"] = settingsCall["generate"]
      BY <2>2, <3>2 DEF KeyInv, KeyTypes, TheSettings!Kinds
    <3>4. settingsUser' \in KeyHolder
      BY <2>1, <3>1 DEF TheSettings!LoadKeys, TheSettings!StoreKeys, TheSettings!list_llm_keys,
             KeyInv, KeyTypes, KeyHolder, KeyCall
    <3> QED
      BY <2>1, <3>3, <3>4 DEF KeyInv, KeyTypes, TheSettings!LoadKeys, TheSettings!StoreKeys,
             TheSettings!list_llm_keys, TheSettings!fields
  <2>4. /\ settingsCall'["generate"] = settingsCall["generate"]
        /\ k = "revoke" \/ settingsCall'["revoke"] = settingsCall["revoke"]
    BY <2>1, <2>2 DEF KeyInv, KeyTypes, TheSettings!Kinds, TheSettings!LoadKeys,
           TheSettings!StoreKeys, TheSettings!list_llm_keys, TheSettings!Answer
  <2>5. settingsPast = {} => k # "revoke"
    BY <2>1 DEF KeyInv, NeverRevoked, TheSettings!LoadKeys, TheSettings!StoreKeys,
           TheSettings!list_llm_keys
  <2>6. /\ settingsUser'.key = settingsUser.key /\ settingsUser'.revoked = settingsUser.revoked
        /\ settingsUser'.active = settingsUser.active
        /\ UNCHANGED <<settingsPast, settingsShown>>
    BY <2>1 DEF KeyInv, KeyTypes, KeyHolder, TheSettings!LoadKeys, TheSettings!StoreKeys,
           TheSettings!list_llm_keys, TheSettings!fields
  <2> QED
    BY <2>3, <2>4, <2>5, <2>6 DEF KeyInv, NeverRevoked, AnswerIsKey, FailsWhenGone,
           TheSettings!ShownKeyWorks, TheSettings!Accepted, TheSettings!Pending
<1>4. CASE \E k \in TheSettings!Kinds : TheSettings!Refuse(k)
  BY <1>4, SMTT(30) DEF TheSettings!SettingsAssumption, KeyInv, KeyTypes, KeyCall,
         TheSettings!Kinds, TheSettings!Refuse, TheSettings!fields, NeverRevoked, AnswerIsKey,
         FailsWhenGone, TheSettings!ShownKeyWorks, TheSettings!Accepted, TheSettings!Pending
<1>5. CASE \E k \in TheSettings!Kinds : TheSettings!Lose(k)
  <2>1. PICK k \in TheSettings!Kinds : TheSettings!Lose(k)
    BY <1>5
  <2>2. settingsPast' # {}
    BY <2>1 DEF TheSettings!Lose
  <2>3. KeyTypes'
    BY <2>1, SMTT(60) DEF TheSettings!SettingsAssumption, KeyInv, KeyTypes, KeyCall,
           TheSettings!Kinds, TheSettings!Lose, TheSettings!fields
  <2> QED
    BY <2>2, <2>3 DEF KeyInv, NeverRevoked, AnswerIsKey, FailsWhenGone, TheSettings!ShownKeyWorks
<1> QED
  BY <1>1, <1>2, <1>3, <1>4, <1>5

(* An answer that is heard puts a key on the page that is the row's.       *)
LEMMA AnswersKeepKey ==
    ASSUME TheSettings!SettingsAssumption, KeyInv, NEW k \in TheSettings!Kinds,
           TheSettings!Hear(k) \/ TheSettings!loadLLMKeys(k) \/ TheSettings!HearFailure(k)
    PROVE  KeyInv'
<1>1. KeyTypes'
  <2>1. TheSettings!Idle \in KeyCall
          /\ [TheSettings!Idle EXCEPT !.at = "listing", !.tries = 1] \in KeyCall
          /\ TheSettings!Idle.at = "none"
    BY DEF TheSettings!Idle, KeyCall, KeyArgs
  <2>2. TheSettings!Ended(k) \in KeyCall
          /\ (k = "generate" => TheSettings!Ended(k) = TheSettings!Idle)
    BY <2>1 DEF TheSettings!Ended
  <2>3. PICK c \in KeyCall : settingsCall' = [settingsCall EXCEPT ![k] = c]
          /\ (k = "generate" => c.at = "none")
    BY <2>1, <2>2 DEF TheSettings!Hear, TheSettings!loadLLMKeys, TheSettings!HearFailure
  <2>4. settingsCall' \in [TheSettings!Kinds -> KeyCall]
          /\ settingsCall'["generate"].at \in {settingsCall["generate"].at, "none"}
    BY <2>3 DEF KeyInv, KeyTypes, TheSettings!Kinds
  <2>5. provider' \in {provider, NoName} /\ UNCHANGED <<settingsUser, doomed>>
    BY DEF TheSettings!Hear, TheSettings!loadLLMKeys, TheSettings!HearFailure, TheSettings!fields,
           KeyInv, KeyTypes, KeyCall
  <2> QED
    BY <2>4, <2>5 DEF KeyInv, KeyTypes
<1>2. CASE TheSettings!Hear(k)
  BY <1>1, <1>2 DEF KeyInv, KeyTypes, KeyCall, TheSettings!Kinds, TheSettings!Hear,
         TheSettings!Ended, TheSettings!Idle, NeverRevoked, AnswerIsKey, FailsWhenGone,
         TheSettings!ShownKeyWorks, TheSettings!Accepted, TheSettings!Pending
<1>3. CASE TheSettings!loadLLMKeys(k) \/ TheSettings!HearFailure(k)
  BY <1>1, <1>3 DEF KeyInv, KeyTypes, KeyCall, TheSettings!Kinds, TheSettings!Idle,
         TheSettings!loadLLMKeys, TheSettings!HearFailure, TheSettings!fields, NeverRevoked,
         AnswerIsKey, FailsWhenGone, TheSettings!ShownKeyWorks, TheSettings!Accepted,
         TheSettings!Pending
<1> QED
  BY <1>2, <1>3

LEMMA NextKeepsKey == ASSUME TheSettings!SettingsAssumption,
    KeyInv, [TheSettings!Next]_settingsVars PROVE KeyInv'
<1>1. CASE TheSettings!handleSaveSpendLimit \/ TheSettings!handleExportData
        \/ TheSettings!handleDeleteAccount \/ TheSettings!handleGenerateKey
  BY <1>1, AskKeepsKey DEF TheSettings!handleSaveSpendLimit, TheSettings!handleExportData,
         TheSettings!handleDeleteAccount, TheSettings!handleGenerateKey, TheSettings!fields,
         TheSettings!Kinds, TheSettings!Limits, KeyArgs
<1>2. CASE TheSettings!handleRevokeKey
  BY <1>2, AskKeepsKey DEF TheSettings!handleRevokeKey, TheSettings!fields, TheSettings!Kinds,
         KeyArgs
<1>3. CASE TheSettings!handleSaveKey
  BY <1>3, AskKeepsKey DEF TheSettings!handleSaveKey, TheSettings!fields, TheSettings!Kinds,
         KeyInv, KeyTypes, KeyArgs
<1>4. CASE TheSettings!handleDeleteKey
  BY <1>4, AskKeepsKey DEF TheSettings!handleDeleteKey, TheSettings!fields, TheSettings!Kinds,
         KeyInv, KeyTypes, KeyArgs
<1>5. CASE \/ \E l \in TheSettings!Limits : TheSettings!TypeLimit(l)
           \/ TheSettings!AskDelete \/ TheSettings!CancelDelete \/ TheSettings!TypeKeyName
           \/ \E b \in BOOLEAN : TheSettings!AskRevoke(b)
           \/ \E m \in Providers : TheSettings!SelectProvider(m)
           \/ \E m \in Providers \cup {NoName} : TheSettings!Doom(m)
           \/ UNCHANGED settingsVars
  <2>1. /\ UNCHANGED <<settingsCall, settingsUser, settingsPast, settingsShown>>
        /\ provider' \in Providers \cup {NoName} /\ doomed' \in Providers \cup {NoName}
    BY <1>5 DEF TheSettings!TypeLimit, TheSettings!AskDelete, TheSettings!CancelDelete,
           TheSettings!TypeKeyName, TheSettings!AskRevoke, TheSettings!SelectProvider,
           TheSettings!Doom, settingsVars, TheSettings!fields, KeyInv, KeyTypes
  <2> QED
    BY <2>1 DEF KeyInv, KeyTypes, NeverRevoked, AnswerIsKey, FailsWhenGone,
           TheSettings!ShownKeyWorks, TheSettings!Accepted, TheSettings!Pending
<1>6. CASE \/ \E k \in Keys : TheSettings!create_api_key(k)
           \/ \E k \in TheSettings!Kinds : TheSettings!Serve(k) \/ TheSettings!LoadKeys(k)
               \/ TheSettings!StoreKeys(k) \/ TheSettings!list_llm_keys(k)
                               \/ TheSettings!Refuse(k) \/ TheSettings!Lose(k)
  BY <1>6, ServiceKeepsKey
<1>7. CASE \E k \in TheSettings!Kinds : TheSettings!Hear(k) \/ TheSettings!loadLLMKeys(k)
        \/ TheSettings!HearFailure(k)
  BY <1>7, AnswersKeepKey
<1> QED
  BY <1>1, <1>2, <1>3, <1>4, <1>5, <1>6, <1>7 DEF TheSettings!Next

(* The key the page tells its user to copy is the one the service accepts, *)
(* however calls of different kinds overlap (settings/page.tsx,            *)
(* create_api_key and revoke_api_key).                                     *)
THEOREM ShownKeyIsAccepted == Spec => []ShownKeyWorks
<1> DEFINE Inv == section = "settings" => KeyInv
<1>1. Init => Inv
  <2>1. Init => (section = "settings" => TheSettings!Init)
    BY DEF Init
  <2> QED
    BY <2>1, SettingsBounds, InitKey
<1>2. Inv /\ [Next]_vars => Inv'
  <2>1. [Next]_vars => section' = section
    BY DEF Next, vars
  <2>2. [Next]_vars => (section = "settings" => [TheSettings!Next]_settingsVars)
    BY DEF Next, vars
  <2> QED
    BY <2>1, <2>2, SettingsBounds, NextKeepsKey
<1>3. Inv => ShownKeyWorks
  BY DEF ShownKeyWorks, KeyInv
<1> HIDE DEF Inv
<1> QED
  BY <1>1, <1>2, <1>3, PTL DEF Spec

-----------------------------------------------------------------------------
(***************************************************************************)
(* For any plans, goals and items and any number of clicks, the workflow   *)
(* of a plan is run with the goal the plan was made for.                   *)
(*                                                                         *)
(* The goal on the page must be that of every request under way            *)
(* (UnderWayForGoal) and of the plan on display (DisplayedForGoal), which  *)
(* holds because a goal cannot be typed over a plan, and a new plan is     *)
(* asked for from a plan on display (ReplansDisplayed); an approval in     *)
(* progress must carry the goal of its plan (ActsForGoal), which nobody    *)
(* asks for again (HeardIsOver).                                           *)
(***************************************************************************)

PlanRequest == [at : ThePlanner!CallStates \cup {"over"}, kind : {"plan", "replan"},
                goal : Goals \cup {NoName}, own : BOOLEAN]
PlanAct == [at : {"none", "approve", "approved", "refused", "run", "ran"},
            run : BOOLEAN, goal : Goals \cup {NoName}, own : BOOLEAN]

PlanTypes ==
    /\ goal \in Goals \cup {NoName} /\ plan \in Plans \cup {NoName}
    /\ plannerRequest \in [Plans -> PlanRequest] /\ act \in [Plans -> PlanAct]
    /\ \A r \in ran : r.plan \in Plans

HeardIsOver ==
    /\ plan # NoName => plannerRequest[plan].at = "over"
    /\ \A b \in Plans : act[b].at # "none" => plannerRequest[b].at = "over"
    /\ \A r \in ran : plannerRequest[r.plan].at = "over"

\* Neither typed over nor gone back with a plan on its way.
Calm == plannerPast \cap {"typed", "back"} = {}

UnderWayForGoal == Calm => \A b \in Plans : ThePlanner!InProgress(b)
    => plannerRequest[b].goal = goal
ReplansDisplayed == Calm => \A b \in Plans : ThePlanner!InProgress(b)
    /\ plannerRequest[b].kind = "replan" => plan # NoName
DisplayedForGoal == Calm /\ plan # NoName => plannerRequest[plan].goal = goal
ActsForGoal == Calm => \A b \in Plans : act[b].at # "none" => act[b].goal = plannerRequest[b].goal
RanForGoal == Calm => \A r \in ran : r.message = plannerRequest[r.plan].goal

GoalInv == /\ PlanTypes /\ HeardIsOver /\ UnderWayForGoal /\ ReplansDisplayed
           /\ DisplayedForGoal /\ ActsForGoal /\ RanForGoal

-----------------------------------------------------------------------------
(* The pages as they open satisfy the invariant. *)
LEMMA InitGoal == ASSUME ThePlanner!PlannerAssumption, ThePlanner!Init PROVE GoalInv
  BY DEF ThePlanner!PlannerAssumption, ThePlanner!Init, GoalInv, PlanTypes, PlanRequest, PlanAct,
         ThePlanner!NoRequest, ThePlanner!NoAct, ThePlanner!CallStates, HeardIsOver,
         UnderWayForGoal, ReplansDisplayed, DisplayedForGoal, ActsForGoal, RanForGoal,
         ThePlanner!InProgress

(* A step that leaves the plans, their requests and what is done with them *)
(* alone keeps the invariant: history only grows.                          *)
LEMMA ElsewhereKeepsGoal ==
    ASSUME GoalInv, UNCHANGED <<goal, plan, plannerRequest, act, ran>>,
           plannerPast \subseteq plannerPast'
    PROVE  GoalInv'
  BY DEF GoalInv, PlanTypes, HeardIsOver, Calm, UnderWayForGoal, ReplansDisplayed,
         DisplayedForGoal, ActsForGoal, RanForGoal, ThePlanner!InProgress

(* Asking for a plan, the first or a new one. *)
LEMMA AskKeepsGoal ==
    ASSUME ThePlanner!PlannerAssumption, GoalInv, NEW b \in Plans,
           NEW which \in {"plan", "replan"},
           ThePlanner!Ask(b, which), which = "replan" => plan # NoName
    PROVE  GoalInv'
<1> DEFINE wanted == [at |-> "sent", kind |-> which, goal |-> goal, own |-> TRUE]
<1>1. wanted \in PlanRequest /\ wanted.at = "sent" /\ wanted.goal = goal /\ wanted.kind = which
  BY DEF PlanRequest, ThePlanner!CallStates, GoalInv, PlanTypes
<1> HIDE DEF wanted
<1>2. /\ plannerRequest' = [plannerRequest EXCEPT ![b] = wanted] /\ plannerRequest[b].at = "none"
      /\ UNCHANGED <<goal, plan, act, ran, plannerPast>>
  BY DEF ThePlanner!Ask, wanted
<1>3. \A x \in Plans : plannerRequest'[x] = IF x = b THEN wanted ELSE plannerRequest[x]
  BY <1>2 DEF GoalInv, PlanTypes
<1>4. PlanTypes'
  BY <1>1, <1>2 DEF GoalInv, PlanTypes
<1>5. HeardIsOver'
  BY <1>2, <1>3, <1>4 DEF GoalInv, PlanTypes, HeardIsOver
<1>6. UnderWayForGoal' /\ ReplansDisplayed'
  BY <1>1, <1>2, <1>3 DEF GoalInv, Calm, UnderWayForGoal, ReplansDisplayed, ThePlanner!InProgress
<1>7. DisplayedForGoal' /\ ActsForGoal' /\ RanForGoal'
  BY <1>2, <1>3 DEF GoalInv, PlanTypes, HeardIsOver, Calm, DisplayedForGoal, ActsForGoal,
         RanForGoal
<1> QED
  BY <1>4, <1>5, <1>6, <1>7 DEF GoalInv

(* A request is answered, fails, or is heard; its goal stays.              *)
LEMMA RequestKeepsGoal ==
    ASSUME ThePlanner!PlannerAssumption, GoalInv, NEW b \in Plans, ThePlanner!ServePlan(b)
           \/ ThePlanner!HearPlan(b)
    PROVE  GoalInv'
<1>1. /\ \A x \in Plans : plannerRequest'[x].goal = plannerRequest[x].goal
          /\ plannerRequest'[x].kind = plannerRequest[x].kind
      /\ \A x \in Plans \ {b} : plannerRequest'[x] = plannerRequest[x]
      /\ plannerRequest[b].at \in {"sent", "answered"}
      /\ plannerRequest'[b].at \in {"answered", "over"}
      /\ plannerRequest' \in [Plans -> PlanRequest]
  BY DEF ThePlanner!ServePlan, ThePlanner!HearPlan, GoalInv, PlanTypes, PlanRequest,
         ThePlanner!CallStates
<1>2. /\ UNCHANGED <<goal, act, ran, plannerPast>>
      /\ plan' = plan \/ (plan' = b /\ plannerRequest'[b].at = "over")
  BY DEF ThePlanner!ServePlan, ThePlanner!HearPlan, GoalInv, PlanTypes, PlanRequest
<1>3. PlanTypes' /\ HeardIsOver'
  BY <1>1, <1>2 DEF GoalInv, PlanTypes, HeardIsOver, ThePlanner!PlannerAssumption
<1>4. UnderWayForGoal' /\ ReplansDisplayed' /\ DisplayedForGoal'
  BY <1>1, <1>2 DEF GoalInv, PlanTypes, Calm, UnderWayForGoal, ReplansDisplayed, DisplayedForGoal,
         ThePlanner!InProgress, ThePlanner!PlannerAssumption
<1>5. ActsForGoal' /\ RanForGoal'
  BY <1>1, <1>2 DEF GoalInv, PlanTypes, Calm, ActsForGoal, RanForGoal
<1> QED
  BY <1>3, <1>4, <1>5 DEF GoalInv

(* Approving, saving and running: every step carries the plan's goal on.   *)
LEMMA ActKeepsGoal ==
    ASSUME ThePlanner!PlannerAssumption, GoalInv,
           \/ \E now \in BOOLEAN : ThePlanner!Approve(now)
           \/ \E b \in Plans : ThePlanner!ServeApprove(b) \/ ThePlanner!HearApprove(b)
               \/ ThePlanner!ServeRun(b)
    PROVE  GoalInv'
<1>1. PICK b \in Plans : /\ \/ plan = b /\ \E now \in BOOLEAN : ThePlanner!Approve(now)
                            \/ ThePlanner!ServeApprove(b) \/ ThePlanner!HearApprove(b)
                            \/ ThePlanner!ServeRun(b)
  BY DEF ThePlanner!Approve, ThePlanner!Displayed, GoalInv, PlanTypes
<1>2. /\ act' \in [Plans -> PlanAct]
      /\ \A x \in Plans \ {b} : act'[x] = act[x]
      /\ act'[b].at # "none" => /\ act[b].at # "none" \/ plan = b
                                /\ \/ act[b].at # "none" /\ act'[b].goal = act[b].goal
                                   \/ plan = b /\ plan # NoName /\ act'[b].goal = goal
  <2>0. ThePlanner!NoAct \in PlanAct /\ ThePlanner!NoAct.at = "none"
    BY DEF ThePlanner!NoAct, PlanAct
  <2>1. CASE plan = b /\ \E now \in BOOLEAN : ThePlanner!Approve(now)
    BY <2>1 DEF ThePlanner!Approve, ThePlanner!Displayed, GoalInv, PlanTypes, PlanAct
  <2>2. CASE ThePlanner!ServeApprove(b)
    BY <2>2 DEF ThePlanner!ServeApprove, GoalInv, PlanTypes, PlanAct
  <2>3. CASE ThePlanner!HearApprove(b)
    <3>1. [act[b] EXCEPT !.at = "run"] \in PlanAct
      BY DEF GoalInv, PlanTypes, PlanAct
    <3>2. \/ act' = [act EXCEPT ![b] = ThePlanner!NoAct]
          \/ act' = act
          \/ act[b].at # "none" /\ act' = [act EXCEPT ![b] = [act[b] EXCEPT !.at = "run"]]
      BY <2>3 DEF ThePlanner!HearApprove
    <3> QED
      BY <2>0, <3>1, <3>2 DEF GoalInv, PlanTypes, PlanAct
  <2>4. CASE ThePlanner!ServeRun(b)
    <3>1. [act[b] EXCEPT !.at = "ran"] \in PlanAct
      BY DEF GoalInv, PlanTypes, PlanAct
    <3>2. \/ act' = [act EXCEPT ![b] = ThePlanner!NoAct]
          \/ act[b].at # "none" /\ act' = [act EXCEPT ![b] = [act[b] EXCEPT !.at = "ran"]]
      BY <2>4 DEF ThePlanner!ServeRun
    <3> QED
      BY <2>0, <3>1, <3>2 DEF GoalInv, PlanTypes, PlanAct
  <2> QED
    BY <1>1, <2>1, <2>2, <2>3, <2>4
<1>3. UNCHANGED <<goal, plan, plannerRequest, plannerPast>>
  BY <1>1 DEF ThePlanner!Approve, ThePlanner!ServeApprove, ThePlanner!HearApprove,
         ThePlanner!ServeRun
<1>4. \A r \in ran' : r \in ran \/ (r.plan = b /\ r.message = act[b].goal /\ act[b].at # "none")
  BY <1>1 DEF ThePlanner!Approve, ThePlanner!ServeApprove, ThePlanner!HearApprove,
         ThePlanner!ServeRun
<1>5. PlanTypes' /\ HeardIsOver'
  BY <1>2, <1>3, <1>4 DEF GoalInv, PlanTypes, HeardIsOver
<1>6. UnderWayForGoal' /\ ReplansDisplayed' /\ DisplayedForGoal'
  BY <1>3 DEF GoalInv, Calm, UnderWayForGoal, ReplansDisplayed, DisplayedForGoal,
         ThePlanner!InProgress
<1>7. ActsForGoal' /\ RanForGoal'
  BY <1>2, <1>3, <1>4 DEF GoalInv, Calm, DisplayedForGoal, ActsForGoal, RanForGoal
<1> QED
  BY <1>5, <1>6, <1>7 DEF GoalInv

(* Typing over the goal with a first plan on its way is remembered, and    *)
(* with a new plan on its way there is a plan on display.                  *)
LEMMA TypeKeepsGoal == ASSUME GoalInv, NEW g \in Goals, ThePlanner!TypeGoal(g) PROVE GoalInv'
<1>1. /\ plan = NoName /\ goal' = g /\ UNCHANGED <<plan, plannerRequest, act, ran>>
      /\ plannerPast' = plannerPast \/ ("typed" \in plannerPast')
      /\ ThePlanner!Planning => "typed" \in plannerPast'
  BY DEF ThePlanner!TypeGoal
<1>2. Calm' => Calm /\ \A b \in Plans : ~ ThePlanner!InProgress(b)
  BY <1>1 DEF GoalInv, PlanTypes, PlanRequest, Calm, ReplansDisplayed, ThePlanner!Planning,
         ThePlanner!InProgress
<1> QED
  BY <1>1, <1>2 DEF GoalInv, PlanTypes, HeardIsOver, UnderWayForGoal, ReplansDisplayed,
         DisplayedForGoal, ActsForGoal, RanForGoal, ThePlanner!InProgress

(* Going back with a plan on its way is remembered, without one it only    *)
(* takes the plan off the page.                                            *)
LEMMA BackKeepsGoal == ASSUME ThePlanner!PlannerAssumption, GoalInv, ThePlanner!BackToPatterns
    PROVE GoalInv'
<1>1. /\ goal' = goal /\ ran' = ran /\ plan' \in {plan, NoName}
      /\ plannerRequest' \in [Plans -> PlanRequest] /\ act' \in [Plans -> PlanAct]
      /\ \A b \in Plans : /\ plannerRequest'[b].at = plannerRequest[b].at
                          /\ plannerRequest'[b].goal = plannerRequest[b].goal
                          /\ act'[b].at = act[b].at /\ act'[b].goal = act[b].goal
  <2> DEFINE wanted(b) == [plannerRequest[b] EXCEPT !.own = FALSE]
             done(b) == [act[b] EXCEPT !.own = FALSE]
  <2>0. /\ \A r \in PlanRequest : LET d == [r EXCEPT !.own = FALSE]
                                  IN d \in PlanRequest /\ d.at = r.at /\ d.goal = r.goal
        /\ \A a \in PlanAct : LET d == [a EXCEPT !.own = FALSE]
                              IN d \in PlanAct /\ d.at = a.at /\ d.goal = a.goal
    BY DEF PlanRequest, PlanAct
  <2>1. \A b \in Plans : /\ wanted(b) \in PlanRequest /\ done(b) \in PlanAct
                         /\ wanted(b).at = plannerRequest[b].at
                         /\ wanted(b).goal = plannerRequest[b].goal
                         /\ done(b).at = act[b].at /\ done(b).goal = act[b].goal
    BY <2>0, Zenon DEF GoalInv, PlanTypes
  <2>2. CASE pattern = "supervisor"
    <3>1. plannerRequest' = [b \in Plans |-> wanted(b)] /\ act' = [b \in Plans |-> done(b)]
      BY <2>2 DEF ThePlanner!BackToPatterns, ThePlanner!Disown
    <3>2. UNCHANGED <<goal, ran>> /\ plan' = NoName
      BY <2>2 DEF ThePlanner!BackToPatterns
    <3> HIDE DEF wanted, done
    <3> QED
      BY <2>1, <3>1, <3>2
  <2>3. CASE pattern # "supervisor"
    BY <2>3 DEF ThePlanner!BackToPatterns, GoalInv, PlanTypes
  <2> QED
    BY <2>2, <2>3
<1>2. Calm' => Calm /\ \A b \in Plans : ~ ThePlanner!InProgress(b)
  BY DEF ThePlanner!BackToPatterns, Calm
<1>3. PlanTypes' /\ HeardIsOver'
  BY <1>1 DEF GoalInv, PlanTypes, HeardIsOver
<1>4. UnderWayForGoal' /\ ReplansDisplayed'
  BY <1>1, <1>2 DEF UnderWayForGoal, ReplansDisplayed, ThePlanner!InProgress
<1>5. DisplayedForGoal' /\ ActsForGoal' /\ RanForGoal'
  BY <1>1, <1>2 DEF GoalInv, PlanTypes, DisplayedForGoal, ActsForGoal, RanForGoal
<1> QED
  BY <1>3, <1>4, <1>5 DEF GoalInv

LEMMA NextKeepsGoal == ASSUME ThePlanner!PlannerAssumption,
    GoalInv, [ThePlanner!Next]_plannerVars PROVE GoalInv'
<1>1. CASE \E b \in Plans : ThePlanner!Generate(b) \/ ThePlanner!Regenerate(b)
  BY <1>1, AskKeepsGoal DEF ThePlanner!Generate, ThePlanner!Regenerate, ThePlanner!Displayed
<1>2. CASE \E b \in Plans : ThePlanner!ServePlan(b) \/ ThePlanner!HearPlan(b)
  BY <1>2, RequestKeepsGoal
<1>3. CASE \/ \E now \in BOOLEAN : ThePlanner!Approve(now)
           \/ \E b \in Plans : ThePlanner!ServeApprove(b) \/ ThePlanner!HearApprove(b)
               \/ ThePlanner!ServeRun(b)
  BY <1>3, ActKeepsGoal
<1>4. CASE \E g \in Goals : ThePlanner!TypeGoal(g)
  BY <1>4, TypeKeepsGoal
<1>5. CASE ThePlanner!BackToPatterns
  BY <1>5, BackKeepsGoal
<1>6. CASE \/ \E x \in {"form", "supervisor"} : ThePlanner!ChoosePattern(x)
           \/ ThePlanner!Create \/ ThePlanner!HearCreate \/ ThePlanner!GoToWorkflow
           \/ UNCHANGED plannerVars
  BY <1>6, ElsewhereKeepsGoal DEF ThePlanner!ChoosePattern, ThePlanner!Create,
         ThePlanner!HearCreate, ThePlanner!GoToWorkflow, ThePlanner!planner, plannerVars
<1>7. CASE \/ ThePlanner!HearList \/ ThePlanner!OpenSheet \/ ThePlanner!TypeSchedule
           \/ ThePlanner!CloseSheet \/ ThePlanner!KeepItem \/ ThePlanner!Delete
           \/ ThePlanner!ServeDelete \/ ThePlanner!HearDelete
  <2>1. UNCHANGED ThePlanner!planner /\ plannerPast \subseteq plannerPast'
    BY <1>7 DEF ThePlanner!HearList, ThePlanner!OpenSheet, ThePlanner!TypeSchedule,
           ThePlanner!CloseSheet, ThePlanner!KeepItem, ThePlanner!Delete, ThePlanner!ServeDelete,
           ThePlanner!HearDelete
  <2> QED
    BY <2>1, ElsewhereKeepsGoal DEF ThePlanner!planner
<1>8. CASE \E i \in Items : \/ ThePlanner!CreateSchedule(i) \/ ThePlanner!ServeSchedule(i)
                            \/ ThePlanner!HearSchedule(i)
                            \/ ThePlanner!Toggle(i) \/ ThePlanner!HearToggle(i)
                            \/ ThePlanner!AskToDelete(i)
  <2>1. UNCHANGED ThePlanner!planner /\ plannerPast \subseteq plannerPast'
    BY <1>8 DEF ThePlanner!CreateSchedule, ThePlanner!ServeSchedule, ThePlanner!HearSchedule,
           ThePlanner!Toggle, ThePlanner!HearToggle, ThePlanner!AskToDelete
  <2> QED
    BY <2>1, ElsewhereKeepsGoal DEF ThePlanner!planner
<1> QED
  BY <1>1, <1>2, <1>3, <1>4, <1>5, <1>6, <1>7, <1>8 DEF ThePlanner!Next

(* The workflow of a plan is run with the goal the plan was made for,      *)
(* however plans, new plans and approvals overlap, unless the goal was     *)
(* typed over or the patterns were gone back to with a plan on its way     *)
(* (handleApproveAndRun of supervisor-plan.tsx).                           *)
THEOREM GoalIsOfPlan == Spec => []PlanRunsWithItsGoal
<1> DEFINE Inv == section = "planner" => GoalInv
<1>1. Init => Inv
  <2>1. Init => (section = "planner" => ThePlanner!Init)
    BY DEF Init
  <2> QED
    BY <2>1, PlannerBounds, InitGoal
<1>2. Inv /\ [Next]_vars => Inv'
  <2>1. [Next]_vars => section' = section
    BY DEF Next, vars
  <2>2. [Next]_vars => (section = "planner" => [ThePlanner!Next]_plannerVars)
    BY DEF Next, vars
  <2> QED
    BY <2>1, <2>2, PlannerBounds, NextKeepsGoal
<1>3. Inv => PlanRunsWithItsGoal
  BY DEF PlanRunsWithItsGoal, GoalInv, RanForGoal, Calm, ThePlanner!PlanRunsWithItsGoal
<1> HIDE DEF Inv
<1> QED
  BY <1>1, <1>2, <1>3, PTL DEF Spec

-----------------------------------------------------------------------------
(***************************************************************************)
(* For any submissions, reviewers, limits and clicks, an agent on the      *)
(* market is the agent of an approved submission, until a verdict overlaps *)
(* an approval or an approved submission is deleted from a stale list.     *)
(*                                                                         *)
(* While an approval waits for its embedding the submission is pending or  *)
(* deleted (EmbeddedIsOpen), and no other approval waits for it            *)
(* (EmbeddedAlone). Nobody begins anew with a submission that exists: what *)
(* is being published was not there (CheckedIsNew), and what the builder   *)
(* deletes or reviews was (RemovedExists, SeenExists, EmbeddedExists).     *)
(***************************************************************************)

SubmissionRow == [is : TheSubmissions!States, agent : Reviews \cup {"none"}]
ReviewCall == [at : {"none", "sent", "embed", "over"},
    of : {"none", "approve", "reject", "revoke"},
               flow : Flows \cup {"none"}]
PublishCall == [open : BOOLEAN, at : {"none", "checked", "answered", "refused"},
    flow : Flows \cup {"none"}]
MineCall == [open : BOOLEAN, get : BOOLEAN, is : TheSubmissions!Seen,
    stored : TheSubmissions!Seen]

MarketTypes ==
    /\ submissionsRow \in [Flows -> SubmissionRow]
    /\ live \subseteq [flow : Flows, by : Reviews]
    /\ review \in [Reviews -> ReviewCall]
    /\ publish \in PublishCall /\ mine \in MineCall
    /\ resend \in Flows \cup {"none"} /\ remove \in Flows \cup {"none"}
    /\ publish.at = "checked" => publish.flow \in Flows
    /\ \A r \in Reviews : review[r].at \in {"sent", "embed"} => review[r].flow \in Flows

CheckedIsNew == publish.at = "checked" => submissionsRow[publish.flow].is = "none"
SeenExists == \A e \in Flows : mine.is[e] # "none" => submissionsRow[e].is # "none"
RemovedExists == remove # "none" => submissionsRow[remove].is # "none"
EmbeddedExists == \A r \in Reviews : review[r].at = "embed"
    => submissionsRow[review[r].flow].is # "none"
EmbeddedIsOpen == submissionsPast = {} => \A r \in Reviews :
    review[r].at = "embed" => submissionsRow[review[r].flow].is \in {"pending", "deleted"}
EmbeddedAlone == submissionsPast = {} => \A r, q \in Reviews :
    review[r].at = "embed" /\ review[q].at = "embed" /\ review[r].flow = review[q].flow => r = q

MarketInv == MarketTypes /\ CheckedIsNew /\ SeenExists /\ RemovedExists /\ EmbeddedExists
             /\ EmbeddedIsOpen /\ EmbeddedAlone /\ TheSubmissions!LiveIsApproved

-----------------------------------------------------------------------------
LEMMA InitMarket == ASSUME TheSubmissions!Init PROVE MarketInv
<1>1. MarketTypes
  BY DEF TheSubmissions!Init, MarketTypes, SubmissionRow, ReviewCall, PublishCall, MineCall,
         TheSubmissions!Seen, TheSubmissions!States, TheSubmissions!Verdicts, TheSubmissions!Free
<1> QED
  BY <1>1 DEF TheSubmissions!Init, MarketInv, CheckedIsNew, SeenExists, RemovedExists,
         EmbeddedExists, EmbeddedIsOpen, EmbeddedAlone, TheSubmissions!LiveIsApproved,
         TheSubmissions!Free

(* What the list shows of a submission is what it is. *)
LEMMA ListedIsSeen ==
    ASSUME MarketTypes
    PROVE  TheSubmissions!Listed \in TheSubmissions!Seen
        /\ \A e \in Flows : TheSubmissions!Listed[e] # "none" => submissionsRow[e].is # "none"
  BY DEF MarketTypes, SubmissionRow, TheSubmissions!Listed, TheSubmissions!Seen,
         TheSubmissions!States

(* Steps of the builder that leave the submissions alone.                  *)
LEMMA BuilderKeepsMarket ==
    ASSUME MarketInv, UNCHANGED <<submissionsRow, live, review, submissionsPast>>,
           publish' \in PublishCall, mine' \in MineCall, resend' \in Flows \cup {"none"},
           remove' \in Flows \cup {"none"},
           publish'.at = "checked" => publish'.flow \in Flows
               /\ submissionsRow[publish'.flow].is = "none",
           \A e \in Flows : mine'.is[e] # "none" => submissionsRow[e].is # "none",
           remove' # "none" => submissionsRow[remove'].is # "none"
    PROVE  MarketInv'
  BY DEF MarketInv, MarketTypes, CheckedIsNew, SeenExists, RemovedExists, EmbeddedExists,
         EmbeddedIsOpen, EmbeddedAlone, TheSubmissions!LiveIsApproved

LEMMA PagesKeepMarket ==
    ASSUME MarketInv,
           \/ TheSubmissions!OpenPublish \/ TheSubmissions!HearPublish \/ TheSubmissions!OpenMine
           \/ TheSubmissions!LeaveMine \/ TheSubmissions!HearMine
           \/ \E e \in Flows : TheSubmissions!handlePublish(e)
               \/ TheSubmissions!handleResubmit(e) \/ TheSubmissions!handleDelete(e)
    PROVE  MarketInv'
<1>0. /\ MarketTypes /\ CheckedIsNew /\ SeenExists /\ RemovedExists
      /\ publish \in PublishCall /\ mine \in MineCall
  BY DEF MarketInv, MarketTypes
<1>1. CASE TheSubmissions!OpenPublish
  BY <1>0, <1>1, BuilderKeepsMarket DEF TheSubmissions!OpenPublish, MarketTypes, CheckedIsNew,
         SeenExists, RemovedExists, PublishCall
<1>2. CASE TheSubmissions!HearPublish
  BY <1>0, <1>2, BuilderKeepsMarket DEF TheSubmissions!HearPublish, MarketTypes, CheckedIsNew,
         SeenExists, RemovedExists, PublishCall, MineCall
<1>3. CASE TheSubmissions!OpenMine
  BY <1>0, <1>3, BuilderKeepsMarket DEF TheSubmissions!OpenMine, MarketTypes, CheckedIsNew,
         SeenExists, RemovedExists, PublishCall, MineCall
<1>4. CASE TheSubmissions!LeaveMine
  BY <1>0, <1>4, BuilderKeepsMarket DEF TheSubmissions!LeaveMine, MarketTypes, CheckedIsNew,
         SeenExists, RemovedExists, MineCall, TheSubmissions!Seen, TheSubmissions!States
<1>5. CASE TheSubmissions!HearMine
  BY <1>0, <1>5, BuilderKeepsMarket, ListedIsSeen DEF TheSubmissions!HearMine, MarketTypes,
         CheckedIsNew, SeenExists, RemovedExists, MineCall
<1>6. CASE \E e \in Flows : TheSubmissions!handlePublish(e)
  BY <1>0, <1>6, BuilderKeepsMarket DEF TheSubmissions!handlePublish, MarketTypes, CheckedIsNew,
         SeenExists, RemovedExists, PublishCall
<1>7. CASE \E e \in Flows : TheSubmissions!handleResubmit(e)
  BY <1>0, <1>7, BuilderKeepsMarket DEF TheSubmissions!handleResubmit, MarketTypes, CheckedIsNew,
         SeenExists, RemovedExists
<1>8. CASE \E e \in Flows : TheSubmissions!handleDelete(e)
  BY <1>0, <1>8, BuilderKeepsMarket DEF TheSubmissions!handleDelete, MarketTypes, CheckedIsNew,
         SeenExists, RemovedExists
<1> QED
  BY <1>1, <1>2, <1>3, <1>4, <1>5, <1>6, <1>7, <1>8

(* The builder's requests change one submission, which no agent on the     *)
(* market is of.                                                           *)
LEMMA RowKeepsMarket ==
    ASSUME MarketInv, NEW e \in Flows,
           submissionsRow' \in [Flows -> SubmissionRow],
               \A g \in Flows \ {e} : submissionsRow'[g] = submissionsRow[g],
           submissionsRow'[e].is # "none", submissionsRow[e].is # "approved"
               \/ submissionsPast' # {},
           submissionsPast \subseteq submissionsPast',
           submissionsRow[e].is = "pending" => submissionsRow'[e].is \in {"pending", "deleted"},
           submissionsRow[e].is = "deleted" => submissionsRow'[e].is = "deleted",
           UNCHANGED <<live, review>>,
           resend' \in {resend, "none"}, remove' \in {remove, "none"},
           publish' \in PublishCall, publish'.at = "checked" => publish' = publish
               /\ publish.flow # e,
           mine' \in MineCall, mine'.is = mine.is
    PROVE  MarketInv'
<1>1. MarketTypes'
  BY DEF MarketInv, MarketTypes
<1>2. CheckedIsNew' /\ SeenExists' /\ RemovedExists'
  BY DEF MarketInv, MarketTypes, CheckedIsNew, SeenExists, RemovedExists
<1>5. EmbeddedExists'
  BY DEF MarketInv, MarketTypes, EmbeddedExists
<1>3. EmbeddedIsOpen' /\ EmbeddedAlone'
  <2>1. submissionsPast' = {} => submissionsPast = {}
    OBVIOUS
  <2>2. EmbeddedAlone'
    BY <2>1 DEF MarketInv, EmbeddedAlone
  <2>3. \A r \in Reviews : review[r].at = "embed" => review[r].flow \in Flows
    BY DEF MarketInv, MarketTypes
  <2>4. EmbeddedIsOpen'
    BY <2>1, <2>3 DEF MarketInv, EmbeddedIsOpen
  <2> QED
    BY <2>2, <2>4
<1>4. TheSubmissions!LiveIsApproved'
  <2> SUFFICES ASSUME NEW a \in live, submissionsPast' = {}
               PROVE  submissionsRow'[a.flow] = [is |-> "approved", agent |-> a.by]
    BY DEF TheSubmissions!LiveIsApproved
  <2>1. a.flow \in Flows /\ submissionsRow[a.flow] = [is |-> "approved", agent |-> a.by]
    BY DEF MarketInv, MarketTypes, TheSubmissions!LiveIsApproved
  <2>2. a.flow # e
    BY <2>1
  <2> QED
    BY <2>1, <2>2
<1> QED
  BY <1>1, <1>2, <1>3, <1>4, <1>5 DEF MarketInv

LEMMA RequestsKeepMarket ==
    ASSUME MarketInv, TheSubmissions!create_submission \/ TheSubmissions!resubmit_submission
           \/ TheSubmissions!delete_submission
    PROVE  MarketInv'
<1>0. /\ MarketTypes /\ CheckedIsNew /\ SeenExists /\ RemovedExists
      /\ publish \in PublishCall /\ mine \in MineCall
      /\ \A g \in Flows : submissionsRow[g].is \in TheSubmissions!States
          /\ submissionsRow[g] \in SubmissionRow
  BY DEF MarketInv, MarketTypes, SubmissionRow
<1>1. CASE TheSubmissions!create_submission
  <2> DEFINE e == publish.flow
             new == [submissionsRow[e] EXCEPT !.is = "pending"]
  <2>1. e \in Flows /\ submissionsRow[e].is = "none" /\ new \in SubmissionRow
          /\ new.is = "pending"
    BY <1>0, <1>1 DEF TheSubmissions!create_submission, MarketTypes, CheckedIsNew, SubmissionRow,
           TheSubmissions!States
  <2>2. /\ publish' \in PublishCall /\ publish'.at # "checked"
        /\ UNCHANGED <<live, review, resend, remove, mine, submissionsPast>>
    BY <1>0, <1>1 DEF TheSubmissions!create_submission, PublishCall
  <2>3. submissionsRow' = submissionsRow \/ submissionsRow' = [submissionsRow EXCEPT ![e] = new]
    BY <1>1 DEF TheSubmissions!create_submission
  <2> HIDE DEF e, new
  <2>4. CASE submissionsRow' = submissionsRow
    BY <1>0, <2>2, <2>4, BuilderKeepsMarket DEF MarketTypes, SeenExists, RemovedExists
  <2>5. CASE submissionsRow' = [submissionsRow EXCEPT ![e] = new]
    <3>1. /\ submissionsRow' \in [Flows -> SubmissionRow]
          /\ \A g \in Flows \ {e} : submissionsRow'[g] = submissionsRow[g]
          /\ submissionsRow'[e].is = "pending"
      BY <1>0, <2>1, <2>5 DEF MarketTypes
    <3> QED
      BY <1>0, <2>1, <2>2, <3>1, RowKeepsMarket
  <2> QED
    BY <2>3, <2>4, <2>5
<1>2. CASE TheSubmissions!resubmit_submission
  <2> DEFINE e == resend
             new == [submissionsRow[e] EXCEPT !.is = "pending"]
  <2>1. e \in Flows /\ new \in SubmissionRow /\ new.is = "pending"
    BY <1>0, <1>2 DEF TheSubmissions!resubmit_submission, MarketTypes, SubmissionRow,
           TheSubmissions!States
  <2>2. /\ mine' \in MineCall /\ mine'.is = mine.is /\ resend' = "none"
        /\ UNCHANGED <<live, review, remove, publish, submissionsPast>>
    BY <1>0, <1>2 DEF TheSubmissions!resubmit_submission, MineCall
  <2>3. submissionsRow' = submissionsRow
          \/ (submissionsRow[e].is = "rejected"
              /\ submissionsRow' = [submissionsRow EXCEPT ![e] = new])
    BY <1>2 DEF TheSubmissions!resubmit_submission
  <2> HIDE DEF e, new
  <2>4. CASE submissionsRow' = submissionsRow
    BY <1>0, <2>2, <2>4, BuilderKeepsMarket DEF MarketTypes, SeenExists, RemovedExists,
           CheckedIsNew
  <2>5. CASE submissionsRow[e].is = "rejected"
          /\ submissionsRow' = [submissionsRow EXCEPT ![e] = new]
    <3>1. publish.at = "checked" => publish.flow # e
      BY <1>0, <2>5 DEF CheckedIsNew
    <3> QED
      BY <1>0, <2>1, <2>2, <2>5, <3>1, RowKeepsMarket DEF MarketTypes
  <2> QED
    BY <2>3, <2>4, <2>5
<1>3. CASE TheSubmissions!delete_submission
  <2> DEFINE e == remove
             new == [is |-> "deleted", agent |-> "none"]
  <2>1. e \in Flows /\ new \in SubmissionRow /\ new.is = "deleted"
          /\ submissionsRow[e].is # "none"
    BY <1>0, <1>3 DEF TheSubmissions!delete_submission, MarketTypes, SubmissionRow,
           TheSubmissions!States, RemovedExists
  <2>2. /\ mine' \in MineCall /\ mine'.is = mine.is /\ remove' = "none"
        /\ UNCHANGED <<live, review, resend, publish>>
    BY <1>0, <1>3 DEF TheSubmissions!delete_submission, MineCall
  <2>3. \/ submissionsRow' = submissionsRow /\ submissionsPast' = submissionsPast
        \/ /\ submissionsRow' = [submissionsRow EXCEPT ![e] = new]
           /\ submissionsPast \subseteq submissionsPast'
           /\ submissionsRow[e].is = "approved" => submissionsPast' # {}
    BY <1>3 DEF TheSubmissions!delete_submission
  <2> HIDE DEF e, new
  <2>4. CASE submissionsRow' = submissionsRow /\ submissionsPast' = submissionsPast
    BY <1>0, <2>2, <2>4, BuilderKeepsMarket DEF MarketTypes, SeenExists, RemovedExists,
           CheckedIsNew
  <2>5. CASE /\ submissionsRow' = [submissionsRow EXCEPT ![e] = new]
             /\ submissionsPast \subseteq submissionsPast'
             /\ submissionsRow[e].is = "approved" => submissionsPast' # {}
    <3>1. publish.at = "checked" => publish.flow # e
      BY <1>0, <2>1 DEF CheckedIsNew
    <3>2. /\ submissionsRow' \in [Flows -> SubmissionRow]
          /\ \A g \in Flows \ {e} : submissionsRow'[g] = submissionsRow[g]
          /\ submissionsRow'[e].is = "deleted"
          /\ (submissionsRow[e].is # "approved" \/ submissionsPast' # {})
          /\ submissionsPast \subseteq submissionsPast'
      BY <1>0, <2>1, <2>5 DEF MarketTypes
    <3> QED
      BY <1>0, <2>1, <2>2, <3>1, <3>2, RowKeepsMarket
  <2> QED
    BY <2>3, <2>4, <2>5
<1> QED
  BY <1>1, <1>2, <1>3

(* The reviewers: a verdict on its way, an approval that waits, a verdict  *)
(* that is given, and the approval that ends.                              *)
LEMMA DecideKeepsMarket ==
    ASSUME MarketInv, NEW e \in Flows, NEW r \in Reviews,
           NEW of \in {"approve", "reject", "revoke"}, TheSubmissions!Decide(r, of, e)
    PROVE  MarketInv'
<1> DEFINE posted == [at |-> "sent", of |-> of, flow |-> e]
<1>1. posted \in ReviewCall /\ posted.at = "sent" /\ posted.flow = e
  BY DEF ReviewCall
<1>2. review' = [review EXCEPT ![r] = posted]
        /\ UNCHANGED <<submissionsRow, live, TheSubmissions!builder, submissionsPast>>
  BY DEF TheSubmissions!Decide
<1> HIDE DEF posted
<1>3. MarketTypes'
  BY <1>1, <1>2 DEF MarketInv, MarketTypes, TheSubmissions!builder
<1>4. CheckedIsNew' /\ SeenExists' /\ RemovedExists' /\ TheSubmissions!LiveIsApproved'
  BY <1>2 DEF MarketInv, CheckedIsNew, SeenExists, RemovedExists, TheSubmissions!LiveIsApproved,
         TheSubmissions!builder
<1>5. EmbeddedExists' /\ EmbeddedIsOpen' /\ EmbeddedAlone'
  BY <1>1, <1>2 DEF MarketInv, MarketTypes, EmbeddedExists, EmbeddedIsOpen, EmbeddedAlone
<1> QED
  BY <1>3, <1>4, <1>5 DEF MarketInv

(* A review that moves on to its embedding, alone, or is over.             *)
LEMMA ReviewMoves ==
    ASSUME MarketTypes, NEW r \in Reviews, NEW at \in {"embed", "over"},
           review[r].at \in {"sent", "embed"}, review' = [review EXCEPT ![r].at = at]
    PROVE  /\ review' \in [Reviews -> ReviewCall]
           /\ \A q \in Reviews : review'[q].flow = review[q].flow
           /\ \A q \in Reviews \ {r} : review'[q] = review[q]
           /\ review'[r].at = at /\ review[r].flow \in Flows
  BY DEF MarketTypes, ReviewCall

(* The end of a review, whatever it leaves of the submission: no agent on  *)
(* the market is of it but the one that is just made.                      *)
Ends(r, e) ==
    /\ review' = [review EXCEPT ![r].at = "over"]
    /\ UNCHANGED <<publish, mine, resend, remove>> /\ submissionsPast \subseteq submissionsPast'
    /\ submissionsRow' \in [Flows -> SubmissionRow]
    /\ \A g \in Flows \ {e} : submissionsRow'[g] = submissionsRow[g]
    /\ submissionsRow'[e].is = "none" <=> submissionsRow[e].is = "none"
    /\ submissionsPast' = {} => submissionsRow' = submissionsRow
        \/ \A q \in Reviews \ {r} : review[q].at = "embed" => review[q].flow # e
    /\ live' \subseteq live \cup {[flow |-> e, by |-> r]}
    /\ submissionsPast' = {} => \A a \in live' : a.flow = e
        => submissionsRow'[e] = [is |-> "approved", agent |-> a.by]

LEMMA EndKeepsMarket ==
    ASSUME MarketInv, NEW r \in Reviews, NEW e \in Flows, e = review[r].flow,
           review[r].at \in {"sent", "embed"}, Ends(r, e)
    PROVE  MarketInv'
<1> USE DEF Ends
<1>1. /\ review' \in [Reviews -> ReviewCall] /\ review'[r].at = "over"
      /\ \A q \in Reviews \ {r} : review'[q] = review[q]
  BY ReviewMoves DEF MarketInv
<1>2. MarketTypes'
  BY <1>1 DEF MarketInv, MarketTypes
<1>3. CheckedIsNew' /\ SeenExists' /\ RemovedExists'
  BY DEF MarketInv, MarketTypes, CheckedIsNew, SeenExists, RemovedExists
<1>6. EmbeddedExists'
  BY <1>1 DEF MarketInv, MarketTypes, EmbeddedExists
<1>4. EmbeddedIsOpen' /\ EmbeddedAlone'
  <2>1. submissionsPast' = {} => submissionsPast = {}
    OBVIOUS
  <2>2. \A q \in Reviews \ {r} : review[q].at = "embed" => review[q].flow \in Flows
    BY DEF MarketInv, MarketTypes
  <2>3. EmbeddedAlone'
    BY <1>1, <2>1 DEF MarketInv, EmbeddedAlone
  <2>4. EmbeddedIsOpen'
    BY <1>1, <2>1, <2>2 DEF MarketInv, EmbeddedIsOpen
  <2> QED
    BY <2>3, <2>4
<1>5. TheSubmissions!LiveIsApproved'
  <2> SUFFICES ASSUME NEW a \in live', submissionsPast' = {}
               PROVE  submissionsRow'[a.flow] = [is |-> "approved", agent |-> a.by]
    BY DEF TheSubmissions!LiveIsApproved
  <2>1. CASE a.flow = e
    BY <2>1
  <2>2. CASE a.flow # e
    <3>1. a \in live
      BY <2>2
    <3> QED
      BY <2>2, <3>1 DEF MarketInv, MarketTypes, TheSubmissions!LiveIsApproved
  <2> QED
    BY <2>1, <2>2
<1> QED
  BY <1>2, <1>3, <1>4, <1>5, <1>6 DEF MarketInv

(* While nothing has overlapped, an agent of f is the one its row names.   *)
LEMMA LiveIsNamed ==
    ASSUME MarketInv, submissionsPast = {}, NEW a \in live
    PROVE  /\ a.flow \in Flows /\ submissionsRow[a.flow].is = "approved"
           /\ a = [flow |-> a.flow, by |-> submissionsRow[a.flow].agent]
<1>1. a \in [flow : Flows, by : Reviews]
        /\ submissionsRow[a.flow] = [is |-> "approved", agent |-> a.by]
  BY DEF MarketInv, MarketTypes, TheSubmissions!LiveIsApproved
<1> QED
  BY <1>1

LEMMA BeginKeepsMarket == ASSUME MarketInv, NEW r \in Reviews, TheSubmissions!Begin(r)
    PROVE MarketInv'
<1> DEFINE e == review[r].flow
           waits(q) == review[q].at = "embed" /\ review[q].flow = e
<1>1. /\ MarketTypes /\ UNCHANGED <<publish, mine, resend, remove>> /\ e \in Flows
      /\ review[r].at = "sent" /\ submissionsRow[e] \in SubmissionRow
  BY DEF MarketInv, MarketTypes, TheSubmissions!Begin, TheSubmissions!builder
<1>2. /\ submissionsPast \subseteq submissionsPast'
      /\ submissionsPast' = {} /\ submissionsRow[e].is = (IF review[r].of = "revoke" THEN "approved" ELSE "pending")
           => \A q \in Reviews : ~ waits(q)
  BY DEF TheSubmissions!Begin
<1>3. CASE submissionsRow[e].is = "pending" /\ review[r].of = "approve"
  <2>1. review' = [review EXCEPT ![r].at = "embed"] /\ UNCHANGED <<submissionsRow, live>>
    BY <1>3 DEF TheSubmissions!Begin
  <2>2. /\ review' \in [Reviews -> ReviewCall] /\ review'[r].at = "embed"
        /\ \A q \in Reviews : review'[q].flow = review[q].flow
        /\ \A q \in Reviews \ {r} : review'[q] = review[q]
    BY <1>1, <2>1, ReviewMoves
  <2>3. MarketTypes' /\ CheckedIsNew' /\ SeenExists' /\ RemovedExists'
          /\ TheSubmissions!LiveIsApproved'
    BY <1>1, <1>2, <2>1, <2>2 DEF MarketInv, MarketTypes, CheckedIsNew, SeenExists, RemovedExists,
           TheSubmissions!LiveIsApproved
  <2>4. submissionsPast' = {} => submissionsPast = {} /\ \A q \in Reviews : ~ waits(q)
    BY <1>2, <1>3
  <2>5. EmbeddedIsOpen'
    BY <1>3, <2>1, <2>2, <2>4 DEF MarketInv, EmbeddedIsOpen
  <2>6. EmbeddedAlone'
    BY <2>2, <2>4 DEF MarketInv, EmbeddedAlone
  <2>7. EmbeddedExists'
    BY <1>3, <2>1, <2>2 DEF MarketInv, EmbeddedExists
  <2> QED
    BY <2>3, <2>5, <2>6, <2>7 DEF MarketInv
<1>4. CASE submissionsRow[e].is = "pending" /\ review[r].of \notin {"approve", "revoke"}
  <2> DEFINE new == [submissionsRow[e] EXCEPT !.is = "rejected"]
  <2>1. new \in SubmissionRow /\ new.is = "rejected"
    BY <1>1 DEF SubmissionRow, TheSubmissions!States, TheSubmissions!Verdicts
  <2>2. submissionsRow' = [submissionsRow EXCEPT ![e] = new]
          /\ review' = [review EXCEPT ![r].at = "over"] /\ live' = live
    BY <1>4 DEF TheSubmissions!Begin
  <2> HIDE DEF new
  <2>3. /\ submissionsRow' \in [Flows -> SubmissionRow] /\ submissionsRow'[e] = new
        /\ \A g \in Flows \ {e} : submissionsRow'[g] = submissionsRow[g]
    BY <1>1, <2>1, <2>2 DEF MarketTypes
  <2>4. submissionsPast' = {} => \A a \in live' : a.flow # e
    <3>1. submissionsPast' = {} => submissionsPast = {}
      BY <1>2
    <3> QED
      BY <3>1, <1>4, <2>2, LiveIsNamed
  <2>5. submissionsPast' = {} => submissionsRow' = submissionsRow
          \/ \A q \in Reviews \ {r} : review[q].at = "embed" => review[q].flow # e
    BY <1>2, <1>4
  <2>6. /\ submissionsRow'[e].is = "none" <=> submissionsRow[e].is = "none"
        /\ live' \subseteq live \cup {[flow |-> e, by |-> r]}
        /\ submissionsPast' = {} => \A a \in live' : a.flow = e
            => submissionsRow'[e] = [is |-> "approved", agent |-> a.by]
    BY <1>4, <2>1, <2>2, <2>3, <2>4
  <2>9. Ends(r, e)
    BY <1>1, <1>2, <2>2, <2>3, <2>5, <2>6 DEF Ends
  <2> QED
    BY <1>1, <2>9, EndKeepsMarket
<1>5. CASE submissionsRow[e].is = "approved" /\ review[r].of = "revoke"
  <2> DEFINE new == [submissionsRow[e] EXCEPT !.is = "revoked"]
             gone == [flow |-> e, by |-> submissionsRow[e].agent]
  <2>1. new \in SubmissionRow /\ new.is = "revoked"
    BY <1>1 DEF SubmissionRow, TheSubmissions!States, TheSubmissions!Verdicts
  <2>2. submissionsRow' = [submissionsRow EXCEPT ![e] = new]
          /\ review' = [review EXCEPT ![r].at = "over"] /\ live' = live \ {gone}
    BY <1>5 DEF TheSubmissions!Begin
  <2>3. submissionsPast = {} => \A a \in live : a.flow = e => a = gone
    BY LiveIsNamed
  <2> HIDE DEF new, gone
  <2>4. /\ submissionsRow' \in [Flows -> SubmissionRow] /\ submissionsRow'[e] = new
        /\ \A g \in Flows \ {e} : submissionsRow'[g] = submissionsRow[g]
    BY <1>1, <2>1, <2>2 DEF MarketTypes
  <2>5. submissionsPast' = {} => \A a \in live' : a.flow # e
    BY <1>2, <2>2, <2>3
  <2>6. submissionsPast' = {} => submissionsRow' = submissionsRow
          \/ \A q \in Reviews \ {r} : review[q].at = "embed" => review[q].flow # e
    BY <1>2, <1>5
  <2>7. /\ submissionsRow'[e].is = "none" <=> submissionsRow[e].is = "none"
        /\ live' \subseteq live \cup {[flow |-> e, by |-> r]}
        /\ submissionsPast' = {} => \A a \in live' : a.flow = e
            => submissionsRow'[e] = [is |-> "approved", agent |-> a.by]
    BY <1>5, <2>1, <2>2, <2>4, <2>5
  <2>9. Ends(r, e)
    BY <1>1, <1>2, <2>2, <2>4, <2>6, <2>7 DEF Ends
  <2> QED
    BY <1>1, <2>9, EndKeepsMarket
<1>6. CASE submissionsRow[e].is # (IF review[r].of = "revoke" THEN "approved" ELSE "pending")
  <2>1. review' = [review EXCEPT ![r].at = "over"]
          /\ UNCHANGED <<submissionsRow, live, submissionsPast>>
    BY <1>6 DEF TheSubmissions!Begin
  <2>2. submissionsPast' = {} => \A a \in live' : a.flow = e
          => submissionsRow'[e] = [is |-> "approved", agent |-> a.by]
    BY <2>1 DEF MarketInv, TheSubmissions!LiveIsApproved
  <2>9. Ends(r, e)
    BY <1>1, <2>1, <2>2 DEF Ends, MarketTypes
  <2> QED
    BY <1>1, <2>9, EndKeepsMarket
<1> QED
  BY <1>3, <1>4, <1>5, <1>6 DEF TheSubmissions!Begin

LEMMA ApproveKeepsMarket == ASSUME MarketInv, NEW r \in Reviews,
    TheSubmissions!approve_submission(r) PROVE MarketInv'
<1> DEFINE e == review[r].flow
           new == [is |-> "approved", agent |-> r]
           made == [flow |-> e, by |-> r]
<1>1. /\ MarketTypes /\ UNCHANGED <<publish, mine, resend, remove, submissionsPast>>
      /\ e \in Flows
      /\ review[r].at = "embed" /\ review' = [review EXCEPT ![r].at = "over"]
  BY DEF MarketInv, MarketTypes, TheSubmissions!approve_submission, TheSubmissions!builder
<1>2. /\ submissionsRow[e].is # "none"
      /\ submissionsPast = {} => submissionsRow[e].is \in {"pending", "deleted"}
      /\ submissionsPast = {} => \A q \in Reviews \ {r} : review[q].at = "embed"
          => review[q].flow # e
  BY <1>1 DEF MarketInv, MarketTypes, EmbeddedExists, EmbeddedIsOpen, EmbeddedAlone
<1>3. CASE submissionsRow' = [submissionsRow EXCEPT ![e] = new] /\ live' = live \cup {made}
        /\ submissionsRow[e].is # "deleted"
  <2>1. new \in SubmissionRow /\ new.is = "approved" /\ new = [is |-> "approved", agent |-> r]
        /\ made.flow = e /\ made.by = r
    BY DEF SubmissionRow, TheSubmissions!States, TheSubmissions!Verdicts
  <2>2. submissionsPast = {} => \A a \in live : a.flow # e
    BY <1>2, LiveIsNamed
  <2> HIDE DEF new
  <2>3. /\ submissionsRow' \in [Flows -> SubmissionRow] /\ submissionsRow'[e] = new
        /\ \A g \in Flows \ {e} : submissionsRow'[g] = submissionsRow[g]
    BY <1>1, <1>3, <2>1 DEF MarketTypes
  <2>4. submissionsPast' = {} => \A a \in live' : a.flow = e
          => submissionsRow'[e] = [is |-> "approved", agent |-> a.by]
    BY <1>1, <1>3, <2>1, <2>2, <2>3
  <2>5. submissionsRow'[e].is = "none" <=> submissionsRow[e].is = "none"
    BY <1>2, <2>1, <2>3
  <2>9. Ends(r, e)
    BY <1>1, <1>2, <1>3, <2>3, <2>4, <2>5 DEF Ends
  <2> QED
    BY <1>1, <2>9, EndKeepsMarket
<1>4. CASE UNCHANGED <<submissionsRow, live>>
  <2>1. submissionsPast' = {} => \A a \in live' : a.flow = e
          => submissionsRow'[e] = [is |-> "approved", agent |-> a.by]
    BY <1>1, <1>4 DEF MarketInv, TheSubmissions!LiveIsApproved
  <2>2. /\ submissionsRow' \in [Flows -> SubmissionRow]
        /\ \A g \in Flows \ {e} : submissionsRow'[g] = submissionsRow[g]
        /\ submissionsRow' = submissionsRow /\ live' \subseteq live \cup {[flow |-> e, by |-> r]}
        /\ submissionsPast \subseteq submissionsPast'
    BY <1>1, <1>4 DEF MarketTypes
  <2>9. Ends(r, e)
    BY <1>1, <2>1, <2>2 DEF Ends
  <2> QED
    BY <1>1, <2>9, EndKeepsMarket
<1> QED
  BY <1>3, <1>4 DEF TheSubmissions!approve_submission

LEMMA NextKeepsMarket == ASSUME MarketInv, [TheSubmissions!Next]_submissionsVars PROVE MarketInv'
<1>1. CASE TheSubmissions!ListTheirs
  BY <1>1, BuilderKeepsMarket DEF TheSubmissions!ListTheirs, TheSubmissions!builder, MarketInv,
         MarketTypes, CheckedIsNew, SeenExists, RemovedExists
<1>2. CASE UNCHANGED submissionsVars
  BY <1>2, BuilderKeepsMarket DEF submissionsVars, TheSubmissions!builder, MarketInv,
         MarketTypes, CheckedIsNew, SeenExists, RemovedExists
<1> QED
  BY <1>1, <1>2, PagesKeepMarket, RequestsKeepMarket, DecideKeepsMarket, BeginKeepsMarket,
         ApproveKeepsMarket DEF TheSubmissions!Next

(* An agent on the market is that of an approved submission, unless an     *)
(* approval and another verdict overlapped or what was approved has been   *)
(* deleted from a stale list (approve_submission, delete_submission).      *)
THEOREM MarketIsApproved == Spec => []LiveIsApproved
<1> DEFINE Inv == section = "submissions" => MarketInv
<1>1. Init => Inv
  <2>1. Init => (section = "submissions" => TheSubmissions!Init)
    BY DEF Init
  <2> QED
    BY <2>1, InitMarket
<1>2. Inv /\ [Next]_vars => Inv'
  <2>1. [Next]_vars => section' = section
    BY DEF Next, vars
  <2>2. [Next]_vars => (section = "submissions" => [TheSubmissions!Next]_submissionsVars)
    BY DEF Next, vars
  <2> QED
    BY <2>1, <2>2, NextKeepsMarket
<1>3. Inv => LiveIsApproved
  BY DEF LiveIsApproved, MarketInv
<1> HIDE DEF Inv
<1> QED
  BY <1>1, <1>2, <1>3, PTL DEF Spec

-----------------------------------------------------------------------------
(***************************************************************************)
(* For any organizations, people and clicks, an organization that exists   *)
(* keeps an owner, until two counts of its owners overlap.                 *)
(*                                                                         *)
(* What has been counted and is not yet written leaves another owner       *)
(* (AnotherOwns), and is alone in its organization (CountedAlone): nobody  *)
(* else takes that owner away before it is written.                        *)
(***************************************************************************)

\* Only what the argument needs of the types.
TeamTypes ==
    /\ selected \in Orgs \cup {NoName} /\ exists \subseteq Orgs
    /\ role \in [Orgs -> [TheTeam!People -> TheTeam!Roles]]
    /\ \A c \in teamCalls : c.org \in Orgs /\ c.kind \in TheTeam!Kinds
    /\ \A r \in removals : r.org \in Orgs /\ r.to \in TheTeam!Roles

CountedCalls == {c \in teamCalls : c.at = "counted"}
SharedBy(o, x) == \E k \in TheTeam!People : k # x /\ role[o][k] = "owner"

CountedAlone == ~ teamRaced =>
    /\ \A c, d \in CountedCalls : c.org = d.org => c = d
    /\ \A r, q \in removals : r.org = q.org => r = q
    /\ \A c \in CountedCalls, r \in removals : c.org # r.org

AnotherOwns == ~ teamRaced =>
    /\ \A c \in CountedCalls : SharedBy(c.org, c.arg)
    /\ \A r \in removals : SharedBy(r.org, r.person)

TeamInv == TeamTypes /\ CountedAlone /\ AnotherOwns /\ TheTeam!OwnerRemains

-----------------------------------------------------------------------------
LEMMA InitTeam == ASSUME TheTeam!TeamAssumption, TheTeam!Init PROVE TeamInv
<1> DEFINE own == [TheTeam!Nobody EXCEPT ![Me] = "owner"]
<1>1. Me \in TheTeam!People /\ own \in [TheTeam!People -> TheTeam!Roles]
        /\ TheTeam!Nobody \in [TheTeam!People -> TheTeam!Roles] /\ own[Me] = "owner"
  BY DEF TheTeam!People, TheTeam!Nobody, TheTeam!Roles
<1> HIDE DEF own
<1>2. role = [o \in Orgs |-> IF o = FirstOrg THEN own ELSE TheTeam!Nobody] /\ FirstOrg \in Orgs
      /\ exists = {FirstOrg} /\ teamCalls = {} /\ removals = {} /\ selected = NoName
  BY DEF TheTeam!TeamAssumption, TheTeam!Init, own
<1>3. TeamTypes
  BY <1>1, <1>2 DEF TeamTypes
<1>4. TheTeam!OwnerRemains
  BY <1>1, <1>2 DEF TheTeam!OwnerRemains, TheTeam!Owners
<1> QED
  BY <1>2, <1>3, <1>4 DEF TeamInv, CountedAlone, AnotherOwns, CountedCalls

(* A step that writes no role and counts no owner: what is counted then    *)
(* was counted before, whatever else its record says by now.               *)
LEMMA PageKeepsTeam ==
    ASSUME TeamInv, UNCHANGED <<TheTeam!db, removals, teamRaced>>,
           selected' \in Orgs \cup {NoName},
           \A c \in teamCalls' : c.org \in Orgs /\ c.kind \in TheTeam!Kinds,
           \A c \in CountedCalls' : \E d \in CountedCalls : c.org = d.org /\ c.arg = d.arg,
           \A c, d \in CountedCalls' : c.org = d.org => c = d \/ teamRaced
    PROVE  TeamInv'
<1>1. TeamTypes'
  BY DEF TeamInv, TeamTypes, TheTeam!db
<1>2. CountedAlone'
  BY DEF TeamInv, CountedAlone
<1>3. AnotherOwns'
  BY DEF TeamInv, AnotherOwns, SharedBy, TheTeam!db
<1>4. TheTeam!OwnerRemains'
  BY DEF TeamInv, TheTeam!OwnerRemains, TheTeam!Owners, TheTeam!db
<1> QED
  BY <1>1, <1>2, <1>3, <1>4 DEF TeamInv

(* Such a step whose calls were calls before, or are not counted.          *)
LEMMA AnswerKeepsTeam ==
    ASSUME TeamInv, UNCHANGED <<TheTeam!db, removals, teamRaced>>,
           selected' \in Orgs \cup {NoName},
           \A c \in teamCalls' \ teamCalls : c.at # "counted" /\ c.org \in Orgs
               /\ c.kind \in TheTeam!Kinds
    PROVE  TeamInv'
<1>1. CountedCalls' \subseteq CountedCalls
  BY DEF CountedCalls
<1> QED
  BY <1>1, PageKeepsTeam DEF TeamInv, TeamTypes, CountedAlone

(* A hook that is heard as one of another organization has the same call.  *)
LEMMA ReheardKeepTeam ==
    ASSUME TeamInv, UNCHANGED <<TheTeam!db, removals, teamRaced>>,
           selected' \in Orgs \cup {NoName},
           NEW o, NEW C \in SUBSET teamCalls, teamCalls' = {TheTeam!Rehear(o, c) : c \in C}
    PROVE  TeamInv'
<1>1. \A c \in teamCalls : LET d == TheTeam!Rehear(o, c)
                           IN d.org = c.org /\ d.arg = c.arg /\ d.kind = c.kind /\ d.at = c.at
  BY DEF TheTeam!Rehear
<1> QED
  BY <1>1, PageKeepsTeam DEF TeamInv, TeamTypes, CountedAlone, CountedCalls

LEMMA SendKeepsTeam ==
    ASSUME TeamInv, NEW k \in TheTeam!Kinds, NEW arg, selected \in Orgs, TheTeam!Send(k, arg)
    PROVE  TeamInv'
<1> DEFINE posted == [kind |-> k, org |-> selected, arg |-> arg, hears |-> selected,
                      current |-> TRUE, at |-> "sent"]
           old(c) == IF c.kind = k THEN [c EXCEPT !.current = FALSE] ELSE c
<1>1. posted.at = "sent" /\ posted.org = selected /\ posted.kind = k
  OBVIOUS
<1>2. \A c \in teamCalls : old(c).org = c.org /\ old(c).arg = c.arg /\ old(c).kind = c.kind
        /\ old(c).at = c.at
  OBVIOUS
<1>3. teamCalls' = {old(c) : c \in teamCalls} \cup {posted}
        /\ UNCHANGED <<selected, TheTeam!db, removals, teamRaced>>
  BY DEF TheTeam!Send, TheTeam!page
<1> HIDE DEF posted, old
<1>4. \A c \in CountedCalls' : \E d \in CountedCalls : c = old(d) /\ c.org = d.org
        /\ c.arg = d.arg
  BY <1>1, <1>2, <1>3 DEF CountedCalls
<1>5. \A c \in teamCalls' : c.org \in Orgs /\ c.kind \in TheTeam!Kinds
  BY <1>1, <1>2, <1>3 DEF TeamInv, TeamTypes
<1> QED
  BY <1>3, <1>4, <1>5, PageKeepsTeam DEF TeamInv, TeamTypes, CountedAlone

LEMMA PageActionsKeepTeam ==
    ASSUME TeamInv,
           \/ \E o \in Orgs \cup {NoName} : TheTeam!onSelect(o)
           \/ \E o \in Orgs : TheTeam!handleCreate(o)
           \/ TheTeam!handleInvite \/ TheTeam!handleCreateTeam \/ TheTeam!deleteTeam
           \/ \E m \in TheTeam!People : TheTeam!removeMember(m)
           \/ \E g \in teamGets : TheTeam!HearList(g)
    PROVE  TeamInv'
<1>0. selected \in Orgs \cup {NoName} /\ (selected # NoName => selected \in Orgs)
  BY DEF TeamInv, TeamTypes
<1>1. CASE \E o \in Orgs \cup {NoName} : TheTeam!onSelect(o)
  BY <1>1, ReheardKeepTeam DEF TheTeam!onSelect, TheTeam!Selected
<1>3. CASE \E o \in Orgs : TheTeam!handleCreate(o)
  BY <1>0, <1>3, AnswerKeepsTeam DEF TheTeam!handleCreate, TheTeam!page, TheTeam!Kinds
<1>4. CASE TheTeam!handleInvite
  BY <1>0, <1>4, SendKeepsTeam DEF TheTeam!handleInvite, TheTeam!Kinds
<1>5. CASE TheTeam!handleCreateTeam
  BY <1>0, <1>5, SendKeepsTeam DEF TheTeam!handleCreateTeam, TheTeam!Kinds
<1>6. CASE TheTeam!deleteTeam
  BY <1>0, <1>6, SendKeepsTeam DEF TheTeam!deleteTeam, TheTeam!Kinds
<1>7. CASE \E m \in TheTeam!People : TheTeam!removeMember(m)
  BY <1>0, <1>7, SendKeepsTeam DEF TheTeam!removeMember, TheTeam!Kinds
<1>8. CASE \E g \in teamGets : TheTeam!HearList(g)
  BY <1>0, <1>8, AnswerKeepsTeam DEF TheTeam!HearList, TheTeam!page
<1> QED
  BY <1>1, <1>3, <1>4, <1>5, <1>6, <1>7, <1>8

LEMMA AnswersKeepTeam ==
    ASSUME TeamInv, NEW c \in teamCalls,
           TheTeam!Refuse(c) \/ TheTeam!HearOrg(c) \/ TheTeam!Hear(c) \/ TheTeam!HearRefusal(c)
               \/ TheTeam!Lose(c)
    PROVE  TeamInv'
<1>0. selected \in Orgs \cup {NoName} /\ c.org \in Orgs /\ c.kind \in TheTeam!Kinds
  BY DEF TeamInv, TeamTypes
<1>1. CASE TheTeam!Refuse(c)
  <2> DEFINE over == [c EXCEPT !.at = "refused"]
  <2>1. over.at = "refused" /\ over.org = c.org /\ over.kind = c.kind
    OBVIOUS
  <2> QED
    BY <1>0, <1>1, <2>1, AnswerKeepsTeam DEF TheTeam!Refuse, TheTeam!To, TheTeam!page
<1>2. CASE TheTeam!HearOrg(c)
  BY <1>0, <1>2, ReheardKeepTeam DEF TheTeam!HearOrg
<1>3. CASE TheTeam!Hear(c)
  BY <1>0, <1>3, AnswerKeepsTeam DEF TheTeam!Hear
<1>4. CASE TheTeam!HearRefusal(c) \/ TheTeam!Lose(c)
  BY <1>0, <1>4, AnswerKeepsTeam DEF TheTeam!HearRefusal, TheTeam!Lose, TheTeam!page
<1> QED
  BY <1>1, <1>2, <1>3, <1>4

(* Who owns an organization goes on owning it, and what comes to exist has *)
(* an owner.                                                               *)
LEMMA MoreKeepTeam ==
    ASSUME TeamInv, UNCHANGED <<selected, removals, teamRaced>>,
           exists' \subseteq Orgs, role' \in [Orgs -> [TheTeam!People -> TheTeam!Roles]],
           \A o \in Orgs, m \in TheTeam!People : role[o][m] = "owner" => role'[o][m] = "owner",
           \A o \in exists' \ exists : \E m \in TheTeam!People : role'[o][m] = "owner",
           \A c \in teamCalls' \ teamCalls : c.at # "counted" /\ c.org \in Orgs
               /\ c.kind \in TheTeam!Kinds
    PROVE  TeamInv'
<1>1. CountedCalls' \subseteq CountedCalls /\ \A c \in CountedCalls : c.org \in Orgs
  BY DEF CountedCalls, TeamInv, TeamTypes
<1>2. TeamTypes'
  BY DEF TeamInv, TeamTypes
<1>3. CountedAlone'
  BY <1>1 DEF TeamInv, CountedAlone
<1>4. AnotherOwns'
  BY <1>1 DEF TeamInv, TeamTypes, AnotherOwns, SharedBy
<1>5. TheTeam!OwnerRemains'
  BY DEF TeamInv, TeamTypes, TheTeam!OwnerRemains, TheTeam!Owners
<1> QED
  BY <1>2, <1>3, <1>4, <1>5 DEF TeamInv

LEMMA HandleKeepsTeam == ASSUME TeamInv, NEW c \in teamCalls, TheTeam!Handle(c) PROVE TeamInv'
<1> DEFINE over == [c EXCEPT !.at = "done"]
<1>1. /\ TeamTypes /\ c.org \in Orgs /\ UNCHANGED <<selected, removals, teamRaced>>
      /\ Me \in TheTeam!People /\ role[c.org] \in [TheTeam!People -> TheTeam!Roles]
  BY DEF TeamInv, TeamTypes, TheTeam!Handle, TheTeam!page, TheTeam!People
<1>2. over.at = "done" /\ over.org = c.org /\ over.kind = c.kind
  OBVIOUS
<1>3. teamCalls' = (teamCalls \ {c}) \cup {over}
  BY DEF TheTeam!Handle, TheTeam!To
<1> HIDE DEF over
<1>4. \A d \in teamCalls' \ teamCalls : d.at # "counted" /\ d.org \in Orgs
        /\ d.kind \in TheTeam!Kinds
  BY <1>1, <1>2, <1>3 DEF TeamTypes
<1>5. CASE c.kind = "org"
  <2>1. exists' = exists \cup {c.org} /\ role' = [role EXCEPT ![c.org][Me] = "owner"]
    BY <1>5 DEF TheTeam!Handle
  <2> QED
    BY <1>1, <1>4, <2>1, MoreKeepTeam DEF TeamTypes, TheTeam!Roles
<1>6. CASE c.kind = "invite"
  <2>1. /\ exists' = exists /\ role[c.org][c.arg] = "none"
        /\ role' = [role EXCEPT ![c.org][c.arg] = "member"]
    BY <1>6 DEF TheTeam!Handle, TheTeam!Possible
  <2> QED
    BY <1>1, <1>4, <2>1, MoreKeepTeam DEF TeamTypes, TheTeam!Roles
<1>7. CASE c.kind \notin {"org", "invite"}
  <2>1. exists' = exists /\ role' = role
    BY <1>7 DEF TheTeam!Handle
  <2> QED
    BY <1>1, <1>4, <2>1, MoreKeepTeam DEF TeamTypes
<1> QED
  BY <1>5, <1>6, <1>7

LEMMA PromoteKeepsTeam == ASSUME TeamInv, NEW o \in Orgs, NEW m \in TheTeam!People,
    TheTeam!Promote(o, m) PROVE TeamInv'
<1>1. /\ role \in [Orgs -> [TheTeam!People -> TheTeam!Roles]] /\ exists \subseteq Orgs
      /\ role' = [role EXCEPT ![o][m] = "owner"]
      /\ UNCHANGED <<selected, exists, teamCalls, removals, teamRaced>>
  BY DEF TeamInv, TeamTypes, TheTeam!Promote, TheTeam!page
<1>2. role' \in [Orgs -> [TheTeam!People -> TheTeam!Roles]]
  BY <1>1 DEF TheTeam!Roles
<1> QED
  BY <1>1, <1>2, MoreKeepTeam

-----------------------------------------------------------------------------
(* The count: an owner that is not the last leaves another.                *)
LEMMA CountLeavesOwner ==
    ASSUME NEW o \in Orgs, NEW x \in TheTeam!People, role[o][x] = "owner",
           ~ TheTeam!IsLastOwner(o, x)
    PROVE  SharedBy(o, x)
<1> SUFFICES ASSUME ~ SharedBy(o, x)
             PROVE  FALSE
  OBVIOUS
<1>1. TheTeam!Owners(o) = {x}
  BY DEF SharedBy, TheTeam!Owners
<1>2. TheTeam!Cardinality({x}) = Cardinality({x})
  BY DEF TheTeam!Cardinality, Cardinality
<1>3. Cardinality({x}) = 1
  BY FS_Singleton
<1> QED
  BY <1>1, <1>2, <1>3 DEF TheTeam!IsLastOwner

LEMMA CountKeepsTeam == ASSUME TeamInv, NEW c \in teamCalls, TheTeam!remove_member(c)
    PROVE TeamInv'
<1> DEFINE counted == [c EXCEPT !.at = "counted"]
<1>1. /\ TeamTypes /\ c.org \in Orgs /\ UNCHANGED <<selected, TheTeam!db, removals>>
      /\ teamCalls' = (teamCalls \ {c}) \cup {counted}
      /\ teamRaced' = (teamRaced \/ TheTeam!Counted(c.org))
      /\ role[c.org][Me] = "owner" /\ role[c.org][c.arg] # "none"
      /\ ~ TheTeam!IsLastOwner(c.org, c.arg)
  BY DEF TeamInv, TeamTypes, TheTeam!remove_member, TheTeam!page, TheTeam!To,
         TheTeam!require_org_role, TheTeam!Possible
<1>2. counted.org = c.org /\ counted.arg = c.arg /\ counted.kind = c.kind
  OBVIOUS
<1> HIDE DEF counted
<1>3. TeamTypes'
  BY <1>1, <1>2 DEF TeamTypes, TheTeam!db
<1>4. CountedCalls' \subseteq CountedCalls \cup {counted}
  BY <1>1 DEF CountedCalls
<1>5. ~ teamRaced' => /\ ~ teamRaced
                      /\ \A d \in CountedCalls : d.org # c.org
                      /\ \A r \in removals : r.org # c.org
  BY <1>1 DEF TheTeam!Counted, CountedCalls
<1>6. CountedAlone'
  BY <1>1, <1>2, <1>4, <1>5 DEF TeamInv, CountedAlone
<1>7. SharedBy(c.org, c.arg)
  <2>1. CASE role[c.org][c.arg] = "owner" /\ c.arg \in TheTeam!People
    BY <1>1, <2>1, CountLeavesOwner
  <2>2. CASE ~ (role[c.org][c.arg] = "owner" /\ c.arg \in TheTeam!People)
    BY <1>1, <2>2 DEF SharedBy, TheTeam!People
  <2> QED
    BY <2>1, <2>2
<1>8. AnotherOwns'
  BY <1>1, <1>2, <1>4, <1>5, <1>7 DEF TeamInv, AnotherOwns, SharedBy, TheTeam!db
<1>9. TheTeam!OwnerRemains'
  BY <1>1, <1>5 DEF TeamInv, TheTeam!OwnerRemains, TheTeam!Owners, TheTeam!db
<1> QED
  BY <1>3, <1>6, <1>8, <1>9 DEF TeamInv

LEMMA DemoteKeepsTeam ==
    ASSUME TeamInv, NEW o \in Orgs, NEW m \in TheTeam!People, NEW to \in {"member", "none"},
           TheTeam!update_member_role(o, m, to)
    PROVE  TeamInv'
<1> DEFINE removal == [org |-> o, person |-> m, to |-> to]
<1>1. /\ UNCHANGED <<selected, TheTeam!db, teamCalls>> /\ removals' = removals \cup {removal}
      /\ teamRaced' = (teamRaced \/ TheTeam!Counted(o)) /\ SharedBy(o, m)
  BY CountLeavesOwner DEF TheTeam!update_member_role, TheTeam!page
<1>2. removal.org = o /\ removal.person = m /\ removal.to \in TheTeam!Roles
  BY DEF TheTeam!Roles
<1> HIDE DEF removal
<1>3. ~ teamRaced' => /\ ~ teamRaced
                      /\ \A d \in CountedCalls : d.org # o
                      /\ \A r \in removals : r.org # o
  BY <1>1 DEF TheTeam!Counted, CountedCalls
<1>4. TeamTypes'
  BY <1>1, <1>2 DEF TeamInv, TeamTypes, TheTeam!db
<1>5. CountedAlone'
  BY <1>1, <1>2, <1>3 DEF TeamInv, CountedAlone, CountedCalls
<1>6. AnotherOwns'
  BY <1>1, <1>2, <1>3 DEF TeamInv, AnotherOwns, CountedCalls, SharedBy, TheTeam!db
<1>7. TheTeam!OwnerRemains'
  BY <1>1, <1>3 DEF TeamInv, TheTeam!OwnerRemains, TheTeam!Owners, TheTeam!db
<1> QED
  BY <1>4, <1>5, <1>6, <1>7 DEF TeamInv

(* What was counted is written: the other owner is still there, and nobody *)
(* else in this organization has been counted.                             *)
LEMMA TakeKeepsTeam ==
    ASSUME TeamInv, NEW o \in Orgs, NEW x, NEW to \in TheTeam!Roles,
           role' = [role EXCEPT ![o][x] = to],
           UNCHANGED <<selected, exists, teamRaced>>, ~ teamRaced => SharedBy(o, x),
           removals' \subseteq removals,
           \A c \in teamCalls' \ teamCalls : c.at # "counted" /\ c.org \in Orgs
               /\ c.kind \in TheTeam!Kinds,
           ~ teamRaced => \A c \in CountedCalls' : c.org # o,
           ~ teamRaced => \A r \in removals' : r.org # o
    PROVE  TeamInv'
<1>1. CountedCalls' \subseteq CountedCalls /\ \A c \in CountedCalls : c.org \in Orgs
  BY DEF CountedCalls, TeamInv, TeamTypes
<1>2. role' \in [Orgs -> [TheTeam!People -> TheTeam!Roles]]
  BY DEF TeamInv, TeamTypes
<1>3. /\ \A q \in Orgs \ {o} : role'[q] = role[q]
      /\ \A k \in TheTeam!People \ {x} : role'[o][k] = role[o][k]
  BY DEF TeamInv, TeamTypes
<1>4. TeamTypes'
  BY <1>2 DEF TeamInv, TeamTypes
<1>5. CountedAlone'
  BY <1>1 DEF TeamInv, CountedAlone
<1>6. AnotherOwns'
  BY <1>1, <1>3 DEF TeamInv, TeamTypes, AnotherOwns, SharedBy
<1>7. TheTeam!OwnerRemains'
  BY <1>3 DEF TeamInv, TeamTypes, TheTeam!OwnerRemains, TheTeam!Owners, SharedBy
<1> QED
  BY <1>4, <1>5, <1>6, <1>7 DEF TeamInv

LEMMA RemoveKeepsTeam == ASSUME TeamInv, NEW c \in teamCalls, TheTeam!Remove(c) PROVE TeamInv'
<1> DEFINE over == [c EXCEPT !.at = "done"]
<1>1. /\ c \in CountedCalls /\ c.org \in Orgs /\ c.kind \in TheTeam!Kinds
      /\ role' = [role EXCEPT ![c.org][c.arg] = "none"]
      /\ teamCalls' = (teamCalls \ {c}) \cup {over}
      /\ UNCHANGED <<selected, exists, removals, teamRaced>>
  BY DEF TeamInv, TeamTypes, CountedCalls, TheTeam!Remove, TheTeam!To, TheTeam!page
<1>2. over.at = "done" /\ over.org = c.org /\ over.kind = c.kind
  OBVIOUS
<1> HIDE DEF over
<1>3. ~ teamRaced => /\ SharedBy(c.org, c.arg)
                     /\ \A d \in CountedCalls' : d.org # c.org
                     /\ \A r \in removals : r.org # c.org
  BY <1>1, <1>2 DEF TeamInv, CountedAlone, AnotherOwns, CountedCalls
<1>4. \A d \in teamCalls' \ teamCalls : d.at # "counted" /\ d.org \in Orgs
        /\ d.kind \in TheTeam!Kinds
  BY <1>1, <1>2
<1> QED
  BY <1>1, <1>3, <1>4, TakeKeepsTeam DEF TheTeam!Roles

LEMMA DemotedKeepsTeam == ASSUME TeamInv, NEW r \in removals, TheTeam!Take(r) PROVE TeamInv'
<1>1. /\ r.org \in Orgs /\ r.to \in TheTeam!Roles
      /\ role' = [role EXCEPT ![r.org][r.person] = r.to]
      /\ removals' = removals \ {r} /\ UNCHANGED <<selected, exists, teamCalls, teamRaced>>
  BY DEF TeamInv, TeamTypes, TheTeam!Take, TheTeam!page
<1>2. ~ teamRaced => /\ SharedBy(r.org, r.person)
                     /\ \A d \in CountedCalls' : d.org # r.org
                     /\ \A q \in removals' : q.org # r.org
  BY <1>1 DEF TeamInv, CountedAlone, AnotherOwns, CountedCalls
<1> QED
  BY <1>1, <1>2, TakeKeepsTeam

LEMMA NextKeepsTeam == ASSUME TeamInv, [TheTeam!Next]_teamVars PROVE TeamInv'
<1>1. CASE UNCHANGED teamVars
  BY <1>1, AnswerKeepsTeam DEF teamVars, TheTeam!page, TheTeam!db, TeamInv, TeamTypes
<1>2. CASE \/ \E e \in Members \cup {NoName} : TheTeam!Fill(e, teamName, teamDialog)
           \/ \E t \in BOOLEAN : TheTeam!Fill(email, t, teamDialog)
           \/ \E d \in {"closed", "blank", "named"} : TheTeam!Fill(email, teamName, d)
  BY <1>2, AnswerKeepsTeam DEF TheTeam!Fill, TeamInv, TeamTypes
<1> QED
  BY <1>1, <1>2, PageActionsKeepTeam, AnswersKeepTeam, HandleKeepsTeam, CountKeepsTeam,
         RemoveKeepsTeam, PromoteKeepsTeam, DemoteKeepsTeam, DemotedKeepsTeam DEF TheTeam!Next

(* An organization that exists has an owner, until two counts of its       *)
(* owners overlap (org_service.py, remove_member and update_member_role).  *)
THEOREM OwnersRemain == Spec => []OwnerRemains
<1> DEFINE Inv == section = "team" => TeamInv
<1>1. Init => Inv
  <2>1. Init => (section = "team" => TheTeam!Init)
    BY DEF Init
  <2> QED
    BY <2>1, TeamBounds, InitTeam
<1>2. Inv /\ [Next]_vars => Inv'
  <2>1. [Next]_vars => section' = section
    BY DEF Next, vars
  <2>2. [Next]_vars => (section = "team" => [TheTeam!Next]_teamVars)
    BY DEF Next, vars
  <2> QED
    BY <2>1, <2>2, NextKeepsTeam
<1>3. Inv => OwnerRemains
  BY DEF OwnerRemains, TeamInv
<1> HIDE DEF Inv
<1> QED
  BY <1>1, <1>2, <1>3, PTL DEF Spec

-----------------------------------------------------------------------------
(***************************************************************************)
(* For any agents, endpoints, detections and clicks, no two agents on the  *)
(* market have one endpoint, unless two were being added for it at once,   *)
(* an agent was marked unavailable or suspended, or settings were saved.   *)
(*                                                                         *)
(* The endpoint is looked for before the skills are embedded and the agent *)
(* is added after that, so that the invariant is about the agents being    *)
(* embedded too, and about there being none that the query does not see    *)
(* (EndpointsApart).                                                       *)
(* Settings change an agent that is on the market (SettingsAreOfListed),   *)
(* so that no deactivation brings one back.                                *)
(***************************************************************************)

RegistryEntry == [at : {"none", "embedding", "gone"} \cup TheAgentForms!OnMarket,
    endpoint : Endpoints \cup {NoName}, name : TheAgentForms!Names]
RegistryCreation == [at : {"none", "sent", "embedding", "answered"},
    entry : Registry \cup {NoName},
                     endpoint : Endpoints \cup {NoName}, name : TheAgentForms!Names, tries : Nat]

RegistryChange == [at : {"none", "sent", "done"}, kind : {"none", "save", "deactivate", "delete"},
                   endpoint : Endpoints \cup {NoName}, name : TheAgentForms!Names]

RegistryTypes ==
    /\ agent \in [Registry -> RegistryEntry] /\ formsCreate \in RegistryCreation
    /\ formsChange \in RegistryChange
    /\ formsForm \in [endpoint : Endpoints \cup {NoName}, name : TheAgentForms!Names,
        confirmed : BOOLEAN]
    /\ detected \in Endpoints \cup {NoName}
    /\ formsLook \in [Looks -> Endpoints \cup {NoName}]

CleanRegistry == formsPast \cap {"overlap", "down", "edited"} = {}

AtEndpoint == {"embedding", "active", "inactive"}

EndpointsApart == CleanRegistry =>
    /\ \A g, h \in Registry :
          agent[g].at \in AtEndpoint /\ agent[h].at \in AtEndpoint /\ agent[g].endpoint = agent[h].endpoint => g = h
    /\ \A g \in Registry : agent[g].at \notin {"unavailable", "suspended"}

SettingsAreOfListed ==
    /\ formsChange.at # "none" => formsView = "settings"
    /\ formsView = "settings" =>
           /\ formsCreate.at = "none" /\ formsCreate.entry = NoName /\ registered \in Registry
           /\ agent[registered].at \in TheAgentForms!OnMarket
               \/ (formsChange.at = "done" /\ formsChange.kind = "delete")

RegistryInv == RegistryTypes /\ EndpointsApart /\ SettingsAreOfListed

LEMMA ApartIsSingle == EndpointsApart => TheAgentForms!OneAgentPerEndpoint
  BY DEF EndpointsApart, CleanRegistry, AtEndpoint, TheAgentForms!OneAgentPerEndpoint, TheAgentForms!OnMarket,
         TheAgentForms!Listed

-----------------------------------------------------------------------------
LEMMA InitRegistry == ASSUME TheAgentForms!FormsAssumption, TheAgentForms!Init PROVE RegistryInv
<1>0. PICK e \in Endpoints, g \in Registry :
        /\ registered = IF formsView = "settings" THEN g ELSE NoName
        /\ \E v \in Endpoints \ {e}, h \in Registry \ {g} :
              agent = [x \in Registry |->
                          IF formsView # "settings" \/ x \notin {g, h} THEN TheAgentForms!NoEntry
                          ELSE IF x = g THEN [at |-> "active", endpoint |-> e, name |-> e]
                          ELSE [at |-> "active", endpoint |-> v, name |-> v]]
        /\ formsForm = [endpoint |-> IF formsView = "settings" THEN e ELSE NoName,
                        name |-> IF formsView = "settings" THEN e ELSE NoName,
                            confirmed |-> FALSE]
  BY DEF TheAgentForms!Init
<1>1. PICK v \in Endpoints \ {e}, h \in Registry \ {g} :
        agent = [x \in Registry |->
                    IF formsView # "settings" \/ x \notin {g, h} THEN TheAgentForms!NoEntry
                    ELSE IF x = g THEN [at |-> "active", endpoint |-> e, name |-> e]
                    ELSE [at |-> "active", endpoint |-> v, name |-> v]]
  BY <1>0
<1> DEFINE ofG == [at |-> "active", endpoint |-> e, name |-> e]
           ofH == [at |-> "active", endpoint |-> v, name |-> v]
<1>2. /\ ofG \in RegistryEntry /\ ofG.at = "active" /\ ofG.endpoint = e
      /\ ofH \in RegistryEntry /\ ofH.at = "active" /\ ofH.endpoint = v
      /\ TheAgentForms!NoEntry \in RegistryEntry /\ TheAgentForms!NoEntry.at = "none"
      /\ TheAgentForms!NoCreate \in RegistryCreation /\ TheAgentForms!NoCreate.at = "none"
      /\ TheAgentForms!NoCreate.entry = NoName
      /\ TheAgentForms!NoChange.at = "none" /\ TheAgentForms!NoChange \in RegistryChange
  BY DEF RegistryEntry, TheAgentForms!Names, TheAgentForms!OnMarket, TheAgentForms!Listed, TheAgentForms!NoEntry,
         TheAgentForms!NoCreate, TheAgentForms!NoChange, RegistryCreation, RegistryChange
<1>3. agent = [x \in Registry |-> IF formsView # "settings"
        \/ x \notin {g, h} THEN TheAgentForms!NoEntry
                                 ELSE IF x = g THEN ofG ELSE ofH]
  BY <1>1
<1>4. formsForm \in [endpoint : Endpoints \cup {NoName}, name : TheAgentForms!Names,
        confirmed : BOOLEAN]
  BY <1>0 DEF TheAgentForms!Names
<1> HIDE DEF ofG, ofH
<1>5. /\ formsCreate = TheAgentForms!NoCreate /\ formsChange = TheAgentForms!NoChange
      /\ detected = NoName
      /\ formsLook = [d \in Looks |-> NoName]
  BY DEF TheAgentForms!Init
<1>6. RegistryTypes
  BY <1>2, <1>3, <1>4, <1>5 DEF RegistryTypes
<1>7. EndpointsApart
  BY <1>1, <1>2, <1>3 DEF EndpointsApart, AtEndpoint
<1>8. SettingsAreOfListed
  BY <1>0, <1>2, <1>3, <1>5 DEF SettingsAreOfListed, TheAgentForms!OnMarket, TheAgentForms!Listed
<1> QED
  BY <1>6, <1>7, <1>8 DEF RegistryInv

(* The registry is as it was.                                              *)
LEMMA PageKeepsRegistry ==
    ASSUME RegistryInv, RegistryTypes', agent' = agent, formsPast \subseteq formsPast',
           formsView' = formsView \/ formsView' # "settings", formsView' # "settings"
               => formsChange'.at = "none",
           formsView' = "settings" => /\ formsCreate' = formsCreate /\ registered' = registered
                                      /\ agent[registered].at \in TheAgentForms!OnMarket
                                          \/ (formsChange'.at = "done"
                                              /\ formsChange'.kind = "delete")
    PROVE  RegistryInv'
<1>1. CleanRegistry' => CleanRegistry
  BY DEF CleanRegistry
<1>2. EndpointsApart'
  BY <1>1 DEF RegistryInv, EndpointsApart
<1>3. SettingsAreOfListed'
  BY DEF RegistryInv, SettingsAreOfListed
<1> QED
  BY <1>2, <1>3 DEF RegistryInv

LEMMA FormsKeepRegistry ==
    ASSUME TheAgentForms!FormsAssumption, RegistryInv,
           \/ \E e \in Endpoints : TheAgentForms!TypeEndpoint(e)
           \/ TheAgentForms!TypeName \/ TheAgentForms!Back \/ TheAgentForms!handleSignIn
           \/ TheAgentForms!Confirm \/ TheAgentForms!Leave
           \/ \E i \in 1 .. 3 : TheAgentForms!GoTo(i, i + 1) \/ TheAgentForms!GoTo(i + 1, i)
           \/ \E d \in Looks : TheAgentForms!handleDetect(d) \/ TheAgentForms!handleRedetect(d)
               \/ TheAgentForms!HearDetect(d)
    PROVE  RegistryInv'
<1>0. RegistryTypes /\ SettingsAreOfListed
  BY DEF RegistryInv
<1>1. CASE \E e \in Endpoints : TheAgentForms!TypeEndpoint(e)
  <2>1. PICK e \in Endpoints : TheAgentForms!TypeEndpoint(e)
    BY <1>1
  <2>2. RegistryTypes'
    BY <1>0, <2>1 DEF TheAgentForms!TypeEndpoint, RegistryTypes
  <2> QED
    BY <1>0, <2>1, <2>2, PageKeepsRegistry DEF TheAgentForms!TypeEndpoint, SettingsAreOfListed
<1>2. CASE TheAgentForms!TypeName
  <2>1. RegistryTypes'
    BY <1>0, <1>2 DEF TheAgentForms!TypeName, RegistryTypes, TheAgentForms!Names
  <2> QED
    BY <1>0, <1>2, <2>1, PageKeepsRegistry DEF TheAgentForms!TypeName, SettingsAreOfListed
<1>3. CASE TheAgentForms!Back
  <2>1. RegistryTypes'
    BY <1>0, <1>3 DEF TheAgentForms!Back, RegistryTypes
  <2> QED
    BY <1>0, <1>3, <2>1, PageKeepsRegistry DEF TheAgentForms!Back, SettingsAreOfListed
<1>4. CASE TheAgentForms!handleSignIn
  <2>1. RegistryTypes'
    BY <1>0, <1>4 DEF TheAgentForms!handleSignIn, RegistryTypes
  <2> QED
    BY <1>0, <1>4, <2>1, PageKeepsRegistry DEF TheAgentForms!handleSignIn, SettingsAreOfListed
<1>5. CASE TheAgentForms!Confirm
  <2>1. RegistryTypes'
    BY <1>0, <1>5 DEF TheAgentForms!Confirm, RegistryTypes
  <2> QED
    BY <1>0, <1>5, <2>1, PageKeepsRegistry DEF TheAgentForms!Confirm, SettingsAreOfListed
<1>6. CASE TheAgentForms!Leave
  <2>1. RegistryTypes' /\ formsView # "settings" /\ formsView' = "left"
    BY <1>0, <1>6 DEF TheAgentForms!Leave, RegistryTypes
  <2> QED
    BY <1>0, <1>6, <2>1, PageKeepsRegistry DEF TheAgentForms!Leave, SettingsAreOfListed
<1>7. CASE \E i \in 1 .. 3 : TheAgentForms!GoTo(i, i + 1) \/ TheAgentForms!GoTo(i + 1, i)
  <2>1. PICK i, j \in 1 .. 4 : TheAgentForms!GoTo(i, j)
    BY <1>7
  <2>2. RegistryTypes'
    BY <1>0, <2>1 DEF TheAgentForms!GoTo, RegistryTypes
  <2> QED
    BY <1>0, <2>1, <2>2, PageKeepsRegistry DEF TheAgentForms!GoTo, SettingsAreOfListed
<1>8. CASE \E d \in Looks : TheAgentForms!handleDetect(d) \/ TheAgentForms!handleRedetect(d)
  <2>1. PICK d \in Looks : TheAgentForms!handleDetect(d) \/ TheAgentForms!handleRedetect(d)
    BY <1>8
  <2>2. UNCHANGED <<TheAgentForms!page, formsCreate, formsChange, agent, formsPast>>
          /\ formsLook' = [formsLook EXCEPT ![d] = formsForm.endpoint]
    BY <2>1 DEF TheAgentForms!handleDetect, TheAgentForms!handleRedetect
  <2>3. RegistryTypes'
    BY <1>0, <2>2 DEF TheAgentForms!page, RegistryTypes
  <2> QED
    BY <1>0, <2>2, <2>3, PageKeepsRegistry DEF TheAgentForms!page, SettingsAreOfListed
<1>9. CASE \E d \in Looks : TheAgentForms!HearDetect(d)
  <2>1. PICK d \in Looks : TheAgentForms!HearDetect(d)
    BY <1>9
  <2>2. /\ formsLook[d] \in Endpoints
        /\ formsLook' = [formsLook EXCEPT ![d] = NoName]
        /\ formsForm' \in {formsForm, [formsForm EXCEPT !.name = formsLook[d]]}
        /\ detected' \in {detected, formsLook[d]}
        /\ formsPast \subseteq formsPast'
        /\ UNCHANGED <<formsView, registered, formsCreate, formsChange, agent>>
    BY <1>0, <2>1 DEF TheAgentForms!HearDetect, RegistryTypes
  <2>3. RegistryTypes'
    BY <1>0, <2>2 DEF RegistryTypes, TheAgentForms!Names
  <2> QED
    BY <1>0, <2>2, <2>3, PageKeepsRegistry DEF SettingsAreOfListed
<1> QED
  BY <1>1, <1>2, <1>3, <1>4, <1>5, <1>6, <1>7, <1>8, <1>9

-----------------------------------------------------------------------------
(* Registration                                                            *)

LEMMA RegisterKeepsRegistry ==
    ASSUME TheAgentForms!FormsAssumption, RegistryInv, TheAgentForms!handleRegister
           \/ TheAgentForms!LoseAnswer \/ TheAgentForms!HearRegister
    PROVE  RegistryInv'
<1>0. RegistryTypes /\ SettingsAreOfListed /\ formsCreate \in RegistryCreation
  BY DEF RegistryInv, RegistryTypes
<1>1. CASE TheAgentForms!handleRegister
  <2>1. /\ formsCreate' \in RegistryCreation /\ formsCreate.at = "none" /\ formsView # "settings"
        /\ UNCHANGED <<TheAgentForms!page, formsLook, formsChange, agent, formsPast>>
    <3> DEFINE e == IF formsView = "flow" THEN detected ELSE formsForm.endpoint
               new == [TheAgentForms!NoCreate EXCEPT !.at = "sent", !.name = formsForm.name,
                   !.endpoint = e]
    <3>1. e \in Endpoints \cup {NoName} /\ formsForm.name \in TheAgentForms!Names
      BY <1>0 DEF RegistryTypes
    <3> HIDE DEF e
    <3>2. new \in RegistryCreation
      BY <3>1 DEF TheAgentForms!NoCreate, RegistryCreation
    <3> QED
      BY <1>1, <3>2 DEF TheAgentForms!handleRegister, TheAgentForms!Registering, e
  <2>2. RegistryTypes'
    BY <1>0, <2>1 DEF TheAgentForms!page, RegistryTypes
  <2> QED
    BY <1>0, <2>1, <2>2, PageKeepsRegistry DEF TheAgentForms!page, SettingsAreOfListed
<1>2. CASE TheAgentForms!LoseAnswer
  <2>1. /\ formsCreate' \in RegistryCreation /\ formsCreate.at # "none"
        /\ UNCHANGED <<TheAgentForms!page, formsLook, formsChange, agent, formsPast>>
    <3> DEFINE anew == [formsCreate EXCEPT !.at = "sent", !.entry = NoName, !.tries = @ + 1]
               over == [formsCreate EXCEPT !.at = "answered", !.entry = NoName]
    <3>1. anew \in RegistryCreation /\ over \in RegistryCreation
      <4>1. \A r \in RegistryCreation, n \in Nat :
              [r EXCEPT !.at = "sent", !.entry = NoName, !.tries = n] \in RegistryCreation
        BY DEF RegistryCreation
      <4>2. \A r \in RegistryCreation : [r EXCEPT !.at = "answered",
              !.entry = NoName] \in RegistryCreation
        BY DEF RegistryCreation
      <4>3. formsCreate.tries + 1 \in Nat
        BY <1>0 DEF RegistryCreation
      <4> QED
        BY <1>0, <4>1, <4>2, <4>3
    <3>2. formsCreate' \in {anew, over}
      BY <1>2 DEF TheAgentForms!LoseAnswer
    <3> QED
      BY <1>2, <3>1, <3>2 DEF TheAgentForms!LoseAnswer
  <2>2. RegistryTypes'
    BY <1>0, <2>1 DEF TheAgentForms!page, RegistryTypes
  <2> QED
    BY <1>0, <2>1, <2>2, PageKeepsRegistry DEF TheAgentForms!page, SettingsAreOfListed
<1>3. CASE TheAgentForms!HearRegister
  <2>1. /\ formsCreate' = TheAgentForms!NoCreate /\ TheAgentForms!NoCreate \in RegistryCreation
        /\ formsCreate.at = "answered" /\ formsView # "settings"
        /\ UNCHANGED <<formsView, formsForm, detected, formsLook, formsChange, agent, formsPast>>
    BY <1>0, <1>3 DEF TheAgentForms!HearRegister, SettingsAreOfListed, TheAgentForms!NoCreate,
           RegistryCreation, TheAgentForms!Names
  <2>2. RegistryTypes'
    BY <1>0, <2>1 DEF RegistryTypes
  <2> QED
    BY <1>0, <2>1, <2>2, PageKeepsRegistry DEF SettingsAreOfListed
<1> QED
  BY <1>1, <1>2, <1>3

(* An agent that is added has an endpoint nobody else claims, or the past  *)
(* tells of the overlap.                                                   *)
LEMMA AddKeepsRegistry ==
    ASSUME RegistryInv, NEW g \in Registry, NEW e \in Endpoints \cup {NoName}, NEW n \in TheAgentForms!Names,
           agent[g].at = "none", ~ TheAgentForms!Taken(e), TheAgentForms!Add(g, e, n),
           formsCreate' \in RegistryCreation, formsView = "settings" => formsCreate' = formsCreate,
           UNCHANGED <<TheAgentForms!page, formsLook, formsChange>>
    PROVE  RegistryInv'
<1> DEFINE made == [at |-> "embedding", endpoint |-> e, name |-> n]
<1>1. /\ RegistryTypes /\ SettingsAreOfListed
      /\ UNCHANGED <<formsView, registered, formsForm, detected, formsLook, formsChange>>
  BY DEF RegistryInv, TheAgentForms!page
<1>2. made \in RegistryEntry /\ made.at = "embedding" /\ made.endpoint = e
  BY DEF RegistryEntry
<1>3. /\ agent' = [agent EXCEPT ![g] = made] /\ formsPast \subseteq formsPast'
      /\ "overlap" \in formsPast' \/ \A x \in Registry : agent[x].at = "embedding" => agent[x].endpoint # e
  BY DEF TheAgentForms!Add
<1> HIDE DEF made
<1>4. /\ RegistryTypes' /\ agent'[g] = made /\ \A x \in Registry \ {g} : agent'[x] = agent[x]
  BY <1>1, <1>2, <1>3 DEF RegistryTypes
<1>5. SettingsAreOfListed'
  <2>1. "none" \notin TheAgentForms!OnMarket
    BY DEF TheAgentForms!OnMarket, TheAgentForms!Listed
  <2> QED
    BY <1>1, <1>4, <2>1 DEF SettingsAreOfListed
<1>6. EndpointsApart'
  <2> SUFFICES ASSUME CleanRegistry' PROVE EndpointsApart'
    BY DEF EndpointsApart
  <2>1. CleanRegistry /\ "overlap" \notin formsPast'
    BY <1>3 DEF CleanRegistry
  <2>2. \A x \in Registry : agent[x].at \in AtEndpoint => agent[x].endpoint # e
    BY <1>3, <2>1 DEF AtEndpoint, TheAgentForms!Taken, TheAgentForms!Listed
  <2> QED
    BY <1>2, <1>4, <2>1, <2>2 DEF RegistryInv, EndpointsApart
<1> QED
  BY <1>4, <1>5, <1>6 DEF RegistryInv

(* The look for the endpoint: of the page's registration, and of another's. *)
LEMMA LookedUpKeepsRegistry ==
    ASSUME RegistryInv, NEW g \in Registry, TheAgentForms!register_agent(g)
    PROVE  RegistryInv'
<1> DEFINE waits == [formsCreate EXCEPT !.at = "embedding", !.entry = g]
           refused == [formsCreate EXCEPT !.at = "answered"]
<1>1. /\ RegistryTypes /\ SettingsAreOfListed /\ formsCreate.at = "sent" /\ agent[g].at = "none"
      /\ formsCreate \in RegistryCreation
      /\ UNCHANGED <<TheAgentForms!page, formsLook, formsChange>>
  BY DEF RegistryInv, RegistryTypes, TheAgentForms!register_agent, TheAgentForms!Unused
<1>2. waits \in RegistryCreation /\ refused \in RegistryCreation
  BY <1>1 DEF RegistryCreation
<1>3. \/ formsCreate' = refused /\ UNCHANGED <<agent, formsPast>>
      \/ /\ formsCreate' = waits /\ ~ TheAgentForms!Taken(formsCreate.endpoint)
         /\ TheAgentForms!Add(g, formsCreate.endpoint, formsCreate.name)
  BY DEF TheAgentForms!register_agent
<1>4. formsView # "settings" /\ UNCHANGED <<formsView, registered, formsForm, detected>>
  BY <1>1 DEF SettingsAreOfListed, TheAgentForms!page
<1> HIDE DEF waits, refused
<1>5. CASE formsCreate' = refused /\ UNCHANGED <<agent, formsPast>>
  <2>1. RegistryTypes'
    BY <1>1, <1>2, <1>4, <1>5 DEF RegistryTypes
  <2> QED
    BY <1>1, <1>4, <1>5, <2>1, PageKeepsRegistry DEF SettingsAreOfListed
<1>6. CASE /\ formsCreate' = waits /\ ~ TheAgentForms!Taken(formsCreate.endpoint)
           /\ TheAgentForms!Add(g, formsCreate.endpoint, formsCreate.name)
  <2>1. formsCreate.endpoint \in Endpoints \cup {NoName} /\ formsCreate.name \in TheAgentForms!Names
    BY <1>1 DEF RegistryCreation
  <2> QED
    BY <1>1, <1>2, <1>4, <1>6, <2>1, AddKeepsRegistry
<1> QED
  BY <1>3, <1>5, <1>6

LEMMA BesideKeepsRegistry ==
    ASSUME RegistryInv, NEW g \in Registry, NEW e \in Endpoints, TheAgentForms!RegisterBeside(g, e)
    PROVE  RegistryInv'
<1>1. /\ agent[g].at = "none" /\ ~ TheAgentForms!Taken(e) /\ TheAgentForms!Add(g, e, e)
      /\ UNCHANGED <<TheAgentForms!page, formsLook, formsChange, formsCreate>>
  BY DEF TheAgentForms!RegisterBeside, TheAgentForms!Unused
<1>2. formsCreate \in RegistryCreation /\ e \in Endpoints \cup {NoName} /\ e \in TheAgentForms!Names
  BY DEF RegistryInv, RegistryTypes, TheAgentForms!Names
<1> QED
  BY <1>1, <1>2, AddKeepsRegistry

(* The agent is added: it had claimed its endpoint before.                 *)
LEMMA AddedKeepsRegistry ==
    ASSUME TheAgentForms!FormsAssumption, RegistryInv, NEW g \in Registry,
           TheAgentForms!Embedded(g)
    PROVE  RegistryInv'
<1> DEFINE added == [agent[g] EXCEPT !.at = "active"]
           over == [formsCreate EXCEPT !.at = "answered"]
<1>1. /\ RegistryTypes /\ SettingsAreOfListed /\ agent[g].at = "embedding"
      /\ agent[g] \in RegistryEntry /\ formsCreate \in RegistryCreation
      /\ agent' = [agent EXCEPT ![g] = added] /\ formsCreate' \in {formsCreate, over}
      /\ UNCHANGED <<TheAgentForms!page, formsLook, formsChange, formsPast>>
  BY DEF RegistryInv, RegistryTypes, TheAgentForms!Embedded
<1>2. /\ added \in RegistryEntry /\ added.at = "active" /\ added.endpoint = agent[g].endpoint
      /\ over \in RegistryCreation
      /\ formsCreate.at = "none" => over = formsCreate \/ over.at = "answered"
  BY <1>1 DEF RegistryEntry, RegistryCreation, TheAgentForms!OnMarket, TheAgentForms!Listed
<1>3. formsCreate.entry # g => formsCreate' = formsCreate
  BY DEF TheAgentForms!Embedded
<1>4. UNCHANGED <<formsView, registered, formsForm, detected>>
  BY <1>1 DEF TheAgentForms!page
<1> HIDE DEF added, over
<1>5. /\ RegistryTypes' /\ agent'[g] = added
      /\ \A x \in Registry \ {g} : agent'[x] = agent[x]
  BY <1>1, <1>2, <1>4 DEF RegistryTypes
<1>6. "embedding" \in AtEndpoint /\ "active" \in TheAgentForms!OnMarket
  BY DEF TheAgentForms!OnMarket, TheAgentForms!Listed, AtEndpoint
<1>7. EndpointsApart'
  BY <1>1, <1>2, <1>5, <1>6 DEF RegistryInv, EndpointsApart, CleanRegistry
<1>9. SettingsAreOfListed'
  <2>1. formsView = "settings" => formsCreate' = formsCreate
    BY <1>1, <1>3 DEF SettingsAreOfListed, TheAgentForms!FormsAssumption
  <2> QED
    BY <1>1, <1>2, <1>4, <1>5, <1>6, <2>1 DEF SettingsAreOfListed
<1> QED
  BY <1>5, <1>7, <1>9 DEF RegistryInv

-----------------------------------------------------------------------------
(* The monitor and the administrator                                       *)

LEMMA MonitorKeepsRegistry ==
    ASSUME RegistryInv, NEW g \in Registry,
           TheAgentForms!Probe(g) \/ TheAgentForms!MarkUnavailable(g) \/ TheAgentForms!Recover(g)
    PROVE  RegistryInv'
<1>1. CASE TheAgentForms!Probe(g)
  <2>1. UNCHANGED <<TheAgentForms!page, formsLook, formsCreate, formsChange, agent, formsPast>>
    BY <1>1 DEF TheAgentForms!Probe
  <2>2. RegistryTypes'
    BY <2>1 DEF RegistryInv, RegistryTypes, TheAgentForms!page
  <2> QED
    BY <2>1, <2>2, PageKeepsRegistry DEF RegistryInv, SettingsAreOfListed, TheAgentForms!page
<1>2. CASE TheAgentForms!MarkUnavailable(g) \/ TheAgentForms!Recover(g)
  <2>1. PICK to \in {"active", "unavailable"} :
          agent' = [agent EXCEPT ![g].at = IF agent[g].at = "gone" THEN agent[g].at ELSE to]
    BY <1>2 DEF TheAgentForms!MarkUnavailable, TheAgentForms!Recover, TheAgentForms!Mark
  <2>2. /\ "down" \in formsPast'
        /\ UNCHANGED <<formsView, registered, formsForm, detected, formsLook, formsCreate, formsChange>>
    BY <1>2 DEF TheAgentForms!MarkUnavailable, TheAgentForms!Recover, TheAgentForms!Mark, TheAgentForms!page
  <2> DEFINE marked == [agent[g] EXCEPT !.at = IF agent[g].at = "gone" THEN agent[g].at ELSE to]
  <2>3. agent[g] \in RegistryEntry /\ agent \in [Registry -> RegistryEntry]
    BY DEF RegistryInv, RegistryTypes
  <2>4. marked \in RegistryEntry /\ (marked.at = agent[g].at \/ marked.at \in TheAgentForms!OnMarket)
    BY <2>3 DEF RegistryEntry, TheAgentForms!OnMarket, TheAgentForms!Listed
  <2>5. agent' = [agent EXCEPT ![g] = marked]
    BY <2>1
  <2> HIDE DEF marked
  <2>6. agent' \in [Registry -> RegistryEntry] /\ agent'[g] = marked /\ \A x \in Registry \ {g} : agent'[x] = agent[x]
    BY <2>3, <2>4, <2>5
  <2>7. RegistryTypes'
    BY <2>2, <2>6 DEF RegistryInv, RegistryTypes
  <2>8. SettingsAreOfListed'
    BY <2>2, <2>4, <2>6 DEF RegistryInv, SettingsAreOfListed
  <2>9. EndpointsApart'
    BY <2>2 DEF EndpointsApart, CleanRegistry
  <2> QED
    BY <2>7, <2>8, <2>9 DEF RegistryInv
<1> QED
  BY <1>1, <1>2

(* A status that the query sees takes an endpoint from no agent.           *)
LEMMA OverrideKeepsRegistry ==
    ASSUME RegistryInv, NEW g \in Registry, NEW to \in {"active", "suspended"},
           TheAgentForms!update_agent_status(g, to)
    PROVE  RegistryInv'
<1> DEFINE set == [agent[g] EXCEPT !.at = to]
<1>1. /\ agent[g] \in RegistryEntry /\ agent \in [Registry -> RegistryEntry]
      /\ agent[g].at \in TheAgentForms!OnMarket /\ agent' = [agent EXCEPT ![g] = set]
      /\ UNCHANGED <<formsView, registered, formsForm, detected, formsLook, formsCreate, formsChange>>
  BY DEF RegistryInv, RegistryTypes, TheAgentForms!update_agent_status, TheAgentForms!page
<1>2. /\ set \in RegistryEntry /\ set.at = to /\ set.endpoint = agent[g].endpoint
      /\ to \in TheAgentForms!OnMarket
  BY <1>1 DEF RegistryEntry, TheAgentForms!OnMarket, TheAgentForms!Listed
<1> HIDE DEF set
<1>3. agent' \in [Registry -> RegistryEntry] /\ agent'[g] = set /\ \A x \in Registry \ {g} : agent'[x] = agent[x]
  BY <1>1, <1>2
<1>4. RegistryTypes'
  BY <1>1, <1>3 DEF RegistryInv, RegistryTypes
<1>5. SettingsAreOfListed'
  BY <1>1, <1>2, <1>3 DEF RegistryInv, SettingsAreOfListed
<1>6. CleanRegistry' => CleanRegistry /\ to \in TheAgentForms!Listed
  BY DEF TheAgentForms!update_agent_status, CleanRegistry
<1>7. CleanRegistry => agent[g].at \in AtEndpoint
  BY <1>1 DEF RegistryInv, EndpointsApart, AtEndpoint, TheAgentForms!OnMarket, TheAgentForms!Listed
<1>8. EndpointsApart'
  BY <1>2, <1>3, <1>6, <1>7 DEF RegistryInv, EndpointsApart, AtEndpoint, TheAgentForms!Listed
<1> QED
  BY <1>4, <1>5, <1>8 DEF RegistryInv

-----------------------------------------------------------------------------
(* Settings                                                                *)

LEMMA AskKeepsRegistry ==
    ASSUME RegistryInv, TheAgentForms!handleSave \/ TheAgentForms!handleDeactivate
           \/ TheAgentForms!handleDelete \/ TheAgentForms!LoseChange \/ TheAgentForms!HearChange
    PROVE  RegistryInv'
<1>1. /\ RegistryTypes /\ SettingsAreOfListed
      /\ UNCHANGED <<formsForm, detected, registered, formsLook, formsCreate, agent, formsPast>>
      /\ formsChange.at = "none" \/ (formsChange' = TheAgentForms!NoChange
          /\ TheAgentForms!NoChange.at = "none")
  BY DEF RegistryInv, TheAgentForms!handleSave, TheAgentForms!handleDeactivate,
         TheAgentForms!handleDelete, TheAgentForms!Ask, TheAgentForms!LoseChange,
         TheAgentForms!HearChange, TheAgentForms!page, TheAgentForms!NoChange
<1>2. formsView' = formsView \/ (formsView' = "left" /\ formsChange' = TheAgentForms!NoChange)
  BY DEF TheAgentForms!handleSave, TheAgentForms!handleDeactivate, TheAgentForms!handleDelete,
         TheAgentForms!Ask, TheAgentForms!LoseChange, TheAgentForms!HearChange, TheAgentForms!page
<1>3. formsView = "settings"
        /\ (formsView' = "settings" => agent[registered].at \in TheAgentForms!OnMarket)
  BY <1>1 DEF SettingsAreOfListed, TheAgentForms!handleSave, TheAgentForms!handleDeactivate,
         TheAgentForms!handleDelete, TheAgentForms!Ask, TheAgentForms!LoseChange,
         TheAgentForms!HearChange
<1>5. formsChange' \in RegistryChange
  <2>1. TheAgentForms!NoChange \in RegistryChange
    BY DEF TheAgentForms!NoChange, RegistryChange, TheAgentForms!Names
  <2>2. \A k \in {"save", "deactivate", "delete"} :
          [at |-> "sent", kind |-> k, endpoint |-> formsForm.endpoint,
              name |-> formsForm.name] \in RegistryChange
    BY <1>1 DEF RegistryTypes, RegistryChange
  <2> QED
    BY <2>1, <2>2 DEF TheAgentForms!handleSave, TheAgentForms!handleDeactivate,
           TheAgentForms!handleDelete, TheAgentForms!Ask, TheAgentForms!LoseChange,
           TheAgentForms!HearChange
<1>4. RegistryTypes'
  BY <1>1, <1>5 DEF RegistryTypes
<1> QED
  BY <1>1, <1>2, <1>3, <1>4, PageKeepsRegistry DEF TheAgentForms!NoChange

(* A change is of an agent that is listed: a save is none the invariant    *)
(* speaks of, and the others leave each endpoint to whom it was.           *)
LEMMA ChangeKeepsRegistry == ASSUME TheAgentForms!FormsAssumption, RegistryInv,
    TheAgentForms!ServeChange PROVE RegistryInv'
<1> DEFINE g == registered
           done == [formsChange EXCEPT !.at = "done"]
           kept == [agent EXCEPT ![g].endpoint = formsChange.endpoint,
               ![g].name = formsChange.name]
           set(at) == [agent[g] EXCEPT !.at = at]
<1>1. /\ RegistryTypes /\ SettingsAreOfListed /\ formsView = "settings" /\ formsChange.at = "sent"
      /\ g \in Registry /\ agent[g] \in RegistryEntry /\ agent[g].at \in TheAgentForms!OnMarket
      /\ formsChange \in RegistryChange
      /\ formsCreate.at = "none" /\ formsCreate.entry = NoName
      /\ UNCHANGED <<TheAgentForms!page, formsLook, formsCreate>> /\ formsChange' = done
  BY DEF RegistryInv, RegistryTypes, SettingsAreOfListed, TheAgentForms!ServeChange
<1>2. done \in RegistryChange /\ done.at = "done" /\ done.kind = formsChange.kind
  BY <1>1 DEF RegistryChange
<1>3. CleanRegistry' => formsPast = formsPast' \/ CleanRegistry
  BY DEF CleanRegistry, TheAgentForms!ServeChange
<1>4. CleanRegistry => agent[g].at \in AtEndpoint
  BY <1>1 DEF RegistryInv, EndpointsApart, AtEndpoint, TheAgentForms!OnMarket, TheAgentForms!Listed
<1>5. CASE formsChange.kind = "save"
  <2>1. agent' = kept /\ ~ CleanRegistry'
    BY <1>5 DEF TheAgentForms!ServeChange, CleanRegistry
  <2>2. kept \in [Registry -> RegistryEntry] /\ kept[g].at = agent[g].at
    <3> DEFINE once == [agent EXCEPT ![g].endpoint = formsChange.endpoint]
    <3>1. /\ \A r \in RegistryEntry, e \in Endpoints \cup {NoName} :
                LET d == [r EXCEPT !.endpoint = e] IN d \in RegistryEntry /\ d.at = r.at
          /\ \A r \in RegistryEntry, n \in TheAgentForms!Names :
                LET d == [r EXCEPT !.name = n] IN d \in RegistryEntry /\ d.at = r.at
      BY DEF RegistryEntry
    <3>2. formsChange.endpoint \in Endpoints \cup {NoName}
            /\ formsChange.name \in TheAgentForms!Names
      BY <1>1 DEF RegistryChange
    <3>3. once \in [Registry -> RegistryEntry] /\ once[g].at = agent[g].at
      BY <1>1, <3>1, <3>2 DEF RegistryTypes
    <3>4. kept = [once EXCEPT ![g].name = formsChange.name]
      OBVIOUS
    <3> HIDE DEF once, kept
    <3> QED
      BY <1>1, <3>1, <3>2, <3>3, <3>4
  <2>3. RegistryTypes'
    BY <1>1, <1>2, <2>1, <2>2 DEF TheAgentForms!page, RegistryTypes
  <2>4. SettingsAreOfListed'
    BY <1>1, <2>1, <2>2 DEF TheAgentForms!page, SettingsAreOfListed
  <2> QED
    BY <2>1, <2>3, <2>4 DEF RegistryInv, EndpointsApart
<1>6. ASSUME NEW at \in {"inactive", "gone"}, agent' = [agent EXCEPT ![g] = set(at)],
             at = "gone" => formsChange.kind = "delete", formsPast' = formsPast
      PROVE  RegistryInv'
  <2>1. set(at) \in RegistryEntry /\ set(at).at = at /\ set(at).endpoint = agent[g].endpoint
    BY <1>1 DEF RegistryEntry, TheAgentForms!OnMarket, TheAgentForms!Listed
  <2> HIDE DEF set
  <2>2. /\ agent' \in [Registry -> RegistryEntry] /\ agent'[g] = set(at)
        /\ \A x \in Registry \ {g} : agent'[x] = agent[x]
    BY <1>1, <1>6, <2>1 DEF RegistryTypes
  <2>3. RegistryTypes'
    BY <1>1, <1>2, <2>2 DEF TheAgentForms!page, RegistryTypes
  <2>4. SettingsAreOfListed'
    BY <1>1, <1>2, <1>6, <2>1, <2>2 DEF TheAgentForms!page, SettingsAreOfListed,
           TheAgentForms!OnMarket, TheAgentForms!Listed
  <2>5. EndpointsApart'
    BY <1>4, <1>6, <2>1, <2>2 DEF RegistryInv, EndpointsApart, CleanRegistry, AtEndpoint
  <2> QED
    BY <2>3, <2>4, <2>5 DEF RegistryInv
<1>7. CASE formsChange.kind = "deactivate"
  BY <1>6, <1>7 DEF TheAgentForms!ServeChange
<1>8. CASE formsChange.kind = "delete"
  BY <1>6, <1>8 DEF TheAgentForms!ServeChange
<1> QED
  BY <1>5, <1>7, <1>8 DEF TheAgentForms!ServeChange

LEMMA NextKeepsRegistry == ASSUME TheAgentForms!FormsAssumption,
    RegistryInv, [TheAgentForms!Next]_formsVars PROVE RegistryInv'
<1>1. CASE UNCHANGED formsVars
  <2>1. RegistryTypes'
    BY <1>1 DEF formsVars, TheAgentForms!page, RegistryInv, RegistryTypes
  <2> QED
    BY <1>1, <2>1, PageKeepsRegistry DEF formsVars, TheAgentForms!page, RegistryInv,
           SettingsAreOfListed
<1> QED
  BY <1>1, FormsKeepRegistry, RegisterKeepsRegistry, LookedUpKeepsRegistry, BesideKeepsRegistry, AddedKeepsRegistry,
         MonitorKeepsRegistry, OverrideKeepsRegistry, AskKeepsRegistry, ChangeKeepsRegistry DEF TheAgentForms!Next

(* No two agents on the market have one endpoint, unless two were being    *)
(* added for it at once, an agent was marked unavailable or suspended, or  *)
(* settings were saved (register_agent).                                   *)
THEOREM EndpointsAreSingle == Spec => []OneAgentPerEndpoint
<1> DEFINE Inv == section = "forms" => RegistryInv
<1>1. Init => Inv
  <2>1. Init => (section = "forms" => TheAgentForms!Init)
    BY DEF Init
  <2> QED
    BY <2>1, AgentFormsBounds, InitRegistry
<1>2. Inv /\ [Next]_vars => Inv'
  <2>1. [Next]_vars => section' = section
    BY DEF Next, vars
  <2>2. [Next]_vars => (section = "forms" => [TheAgentForms!Next]_formsVars)
    BY DEF Next, vars
  <2> QED
    BY <2>1, <2>2, AgentFormsBounds, NextKeepsRegistry
<1>3. Inv => OneAgentPerEndpoint
  BY ApartIsSingle DEF OneAgentPerEndpoint, RegistryInv
<1> HIDE DEF Inv
<1> QED
  BY <1>1, <1>2, <1>3, PTL DEF Spec

-----------------------------------------------------------------------------
(***************************************************************************)
(* For any voters and any number of calls, lost answers and repeated       *)
(* votes, the upvotes of a community agent are the sum of its votes, until *)
(* two votes overlap.                                                      *)
(*                                                                         *)
(* Between the reading and the writing of a vote the number it will write  *)
(* must still be the right one (LoadedIsRight), which holds because no     *)
(* other vote has been read (LoadedAlone).                                 *)
(***************************************************************************)
VoteCall == [at : TheCommunity!Steps, value : {-1, 0, 1}, count : Int, tries : Int]

VoteTypes == /\ vote \in [TheCommunity!Voters -> VoteCall]
             /\ votes \in [TheCommunity!Voters -> {-1, 0, 1}] /\ upvotes \in Int

SumIsRight == ~ communityRaced => upvotes = SumFunctionOnSet(votes, TheCommunity!Voters)

LoadedIsRight ==
    ~ communityRaced => \A v \in TheCommunity!Voters :
        vote[v].at = "loaded" => vote[v].count = upvotes + vote[v].value - votes[v]

LoadedAlone ==
    ~ communityRaced => \A v, w \in TheCommunity!Voters :
        vote[v].at = "loaded" /\ vote[w].at = "loaded" => v = w

VotesInv == VoteTypes /\ SumIsRight /\ LoadedIsRight /\ LoadedAlone

LEMMA VotersAreFinite == IsFiniteSet(TheCommunity!Voters)
<1>1. IsFiniteSet(OtherVoters)
  BY CommunityBounds DEF TheCommunity!CommunityAssumption, TheCommunity!IsFiniteSet, IsFiniteSet
<1> QED
  BY <1>1, FS_AddElement DEF TheCommunity!Voters

\* The page's sum is the sum.
LEMMA SumOfVotes ==
    TheCommunity!SumFunctionOnSet(votes, TheCommunity!Voters)
        = SumFunctionOnSet(votes, TheCommunity!Voters)
  BY DEF TheCommunity!SumFunctionOnSet, TheCommunity!FoldFunctionOnSet,
         TheCommunity!MapThenFoldSet, SumFunctionOnSet, FoldFunctionOnSet, MapThenFoldSet

LEMMA InitVotes == TheCommunity!Init => VotesInv
<1> SUFFICES ASSUME TheCommunity!Init PROVE VotesInv
  OBVIOUS
<1>1. VoteTypes /\ (\A v \in TheCommunity!Voters : votes[v] = 0 /\ vote[v].at = "none") /\ upvotes = 0
  BY DEF TheCommunity!Init, VoteTypes, VoteCall, TheCommunity!NoVote, TheCommunity!Steps
<1>2. SumFunctionOnSet(votes, TheCommunity!Voters) = 0
  BY <1>1, VotersAreFinite, SumOfZeros
<1> QED
  BY <1>1, <1>2 DEF VotesInv, SumIsRight, LoadedIsRight, LoadedAlone

\* A step that reads and writes no vote.
LEMMA CallKeepsVotes ==
    ASSUME VotesInv, UNCHANGED <<votes, upvotes, communityRaced>>,
           vote' \in [TheCommunity!Voters -> VoteCall],
           \A v \in TheCommunity!Voters : vote'[v].at = "loaded" => vote'[v] = vote[v]
    PROVE  VotesInv'
  BY DEF VotesInv, VoteTypes, SumIsRight, LoadedIsRight, LoadedAlone

LEMMA AskKeepsVotes ==
    ASSUME VotesInv, NEW v \in TheCommunity!Voters, NEW value \in {-1, 1},
           TheCommunity!Asked(v, value), UNCHANGED <<votes, upvotes, communityRaced>>
    PROVE  VotesInv'
<1> DEFINE wanted == [at |-> "sent", value |-> value, count |-> 0, tries |-> 1]
<1>1. wanted \in VoteCall /\ wanted.at = "sent"
  BY DEF VoteCall, TheCommunity!Steps
<1>2. vote' = [vote EXCEPT ![v] = wanted]
  BY DEF TheCommunity!Asked
<1> HIDE DEF wanted
<1> QED
  BY <1>1, <1>2, CallKeepsVotes DEF VotesInv, VoteTypes

LEMMA LoseKeepsVotes ==
    ASSUME VotesInv, NEW v \in TheCommunity!Voters, TheCommunity!LoseVote(v)
    PROVE  VotesInv'
<1> DEFINE next == IF vote[v].tries < MaxTries THEN "sent" ELSE "failed"
           tries == IF vote[v].tries < MaxTries THEN vote[v].tries + 1 ELSE vote[v].tries
           lost == [vote[v] EXCEPT !.at = next, !.tries = tries]
<1>1. vote[v] \in VoteCall /\ MaxTries \in Int
  BY CommunityBounds DEF VotesInv, VoteTypes, TheCommunity!CommunityAssumption
<1>2. next \in {"sent", "failed"} /\ tries \in Int
  BY <1>1 DEF VoteCall
<1>3. vote' = [vote EXCEPT ![v] = lost]
  BY <1>1 DEF TheCommunity!LoseVote, VotesInv, VoteTypes
<1> HIDE DEF next, tries
<1>4. lost \in VoteCall /\ lost.at # "loaded"
  BY <1>1, <1>2 DEF VoteCall, TheCommunity!Steps
<1> HIDE DEF lost
<1>5. UNCHANGED <<votes, upvotes, communityRaced>>
  BY DEF TheCommunity!LoseVote
<1> QED
  BY <1>3, <1>4, <1>5, CallKeepsVotes DEF VotesInv, VoteTypes

LEMMA LoadKeepsVotes ==
    ASSUME VotesInv, NEW v \in TheCommunity!Voters, TheCommunity!LoadVote(v)
    PROVE  VotesInv'
<1> DEFINE read == [vote[v] EXCEPT !.at = "loaded", !.count = upvotes + vote[v].value - votes[v]]
<1>1. vote[v] \in VoteCall /\ upvotes + vote[v].value - votes[v] \in Int
  BY DEF VotesInv, VoteTypes, VoteCall
<1>2. vote' = [vote EXCEPT ![v] = read]
  BY <1>1 DEF TheCommunity!LoadVote, TheCommunity!Counted, VotesInv, VoteTypes
<1>3. /\ read \in VoteCall /\ read.at = "loaded" /\ read.value = vote[v].value
      /\ read.count = upvotes + read.value - votes[v]
  BY <1>1 DEF VoteCall, TheCommunity!Steps
<1> HIDE DEF read
<1>4. /\ UNCHANGED <<votes, upvotes>>
      /\ ~ communityRaced' => /\ ~ communityRaced
                              /\ \A w \in TheCommunity!Voters : vote[w].at # "loaded"
  BY DEF TheCommunity!LoadVote
<1>5. VoteTypes' /\ SumIsRight'
  BY <1>2, <1>3, <1>4 DEF VotesInv, VoteTypes, SumIsRight
<1>6. \A w \in TheCommunity!Voters : vote'[w] = IF w = v THEN read ELSE vote[w]
  BY <1>2 DEF VotesInv, VoteTypes
<1>7. LoadedIsRight'
  BY <1>3, <1>4, <1>6 DEF LoadedIsRight
<1>8. LoadedAlone'
  BY <1>4, <1>6 DEF LoadedAlone
<1> QED
  BY <1>5, <1>7, <1>8 DEF VotesInv

LEMMA VoteChangesSum ==
    ASSUME NEW new, NEW v \in TheCommunity!Voters,
           \A w \in TheCommunity!Voters : votes[w] \in Int, new[v] \in Int,
           \A w \in TheCommunity!Voters : w # v => new[w] = votes[w]
    PROVE  SumFunctionOnSet(new, TheCommunity!Voters)
             = SumFunctionOnSet(votes, TheCommunity!Voters) - votes[v] + new[v]
<1> DEFINE V == TheCommunity!Voters
<1>1. IsFiniteSet(V) /\ v \in V /\ (\A w \in V : votes[w] \in Int)
      /\ (\A w \in V : w # v => new[w] = votes[w])
  BY VotersAreFinite
<1> HIDE DEF V
<1>2. SumFunctionOnSet(new, V) = SumFunctionOnSet(votes, V) - votes[v] + new[v]
  BY <1>1, SumChange
<1> QED
  BY <1>2 DEF V

LEMMA StoreKeepsVotes ==
    ASSUME VotesInv, NEW v \in TheCommunity!Voters, TheCommunity!StoreVote(v)
    PROVE  VotesInv'
<1> DEFINE over == [vote[v] EXCEPT !.at = "done"]
<1>1. /\ vote[v] \in VoteCall /\ vote[v].at = "loaded"
      /\ votes' = [votes EXCEPT ![v] = vote[v].value] /\ upvotes' = vote[v].count
      /\ vote' = [vote EXCEPT ![v] = over] /\ UNCHANGED communityRaced
  BY DEF TheCommunity!StoreVote, VotesInv, VoteTypes
<1>2. over \in VoteCall /\ over.at = "done"
  BY <1>1 DEF VoteCall, TheCommunity!Steps
<1> HIDE DEF over
<1>3. /\ votes \in [TheCommunity!Voters -> {-1, 0, 1}] /\ vote[v].value \in {-1, 0, 1}
      /\ \A w \in TheCommunity!Voters : votes[w] \in Int
      /\ votes'[v] = vote[v].value /\ votes'[v] \in Int
  BY <1>1 DEF VotesInv, VoteTypes, VoteCall
<1>4. VoteTypes'
  BY <1>1, <1>2, <1>3 DEF VotesInv, VoteTypes, VoteCall
<1>5. SumFunctionOnSet(votes', TheCommunity!Voters)
        = SumFunctionOnSet(votes, TheCommunity!Voters) - votes[v] + votes'[v]
  <2>1. /\ \A w \in TheCommunity!Voters : votes[w] \in Int
        /\ votes'[v] \in Int
        /\ \A w \in TheCommunity!Voters : w # v => votes'[w] = votes[w]
    BY <1>1, <1>3
  <2> QED
    BY ONLY <2>1, VoteChangesSum, v \in TheCommunity!Voters
<1>6. SumFunctionOnSet(votes, TheCommunity!Voters) \in Int
  BY ONLY <1>3, VotersAreFinite, SumWithout
<1>7. SumIsRight'
  BY <1>1, <1>3, <1>5, <1>6 DEF VotesInv, VoteTypes, SumIsRight, LoadedIsRight
<1>8. ~ communityRaced' => \A w \in TheCommunity!Voters : vote'[w].at # "loaded"
  BY <1>1, <1>2 DEF VotesInv, VoteTypes, LoadedAlone
<1> QED
  BY <1>4, <1>7, <1>8 DEF VotesInv, LoadedIsRight, LoadedAlone

LEMMA NextKeepsVotes == ASSUME VotesInv, [TheCommunity!Next]_communityVars PROVE VotesInv'
<1>1. CASE \/ TheCommunity!TypeMessage \/ TheCommunity!VoteAsGuest \/ TheCommunity!handleTry
           \/ TheCommunity!TrialFails \/ TheCommunity!HearAgent
           \/ (\E r \in Results : TheCommunity!HearTrial(r)) \/ UNCHANGED communityVars
  <2>1. UNCHANGED <<vote, votes, upvotes, communityRaced>>
    BY <1>1 DEF TheCommunity!TypeMessage, TheCommunity!VoteAsGuest, TheCommunity!handleTry,
           TheCommunity!TrialFails, TheCommunity!HearAgent, TheCommunity!HearTrial, communityVars
  <2> QED
    BY <2>1, CallKeepsVotes DEF VotesInv, VoteTypes
<1>2. CASE TheCommunity!HearVote
  <2>1. TheCommunity!NoVote \in VoteCall /\ TheCommunity!NoVote.at = "none"
    BY DEF TheCommunity!NoVote, VoteCall, TheCommunity!Steps
  <2> QED
    BY <1>2, <2>1, CallKeepsVotes DEF TheCommunity!HearVote, VotesInv, VoteTypes
<1>3. CASE \E value \in {-1, 1} : \/ TheCommunity!handleVote(value)
                                  \/ \E v \in OtherVoters : TheCommunity!Cast(v, value)
  <2>1. PICK value \in {-1, 1}, v \in TheCommunity!Voters :
            TheCommunity!Asked(v, value) /\ UNCHANGED <<votes, upvotes, communityRaced>>
    BY <1>3 DEF TheCommunity!handleVote, TheCommunity!Cast, TheCommunity!Voters
  <2> QED
    BY <2>1, AskKeepsVotes
<1>4. CASE \E v \in TheCommunity!Voters : \/ TheCommunity!LoadVote(v)
                                          \/ TheCommunity!StoreVote(v)
                                          \/ TheCommunity!LoseVote(v)
  BY <1>4, LoadKeepsVotes, StoreKeepsVotes, LoseKeepsVotes
<1> QED
  BY <1>1, <1>2, <1>3, <1>4 DEF TheCommunity!Next

(* The upvotes an agent is ranked by are the sum of its votes, for votes   *)
(* changed, sent twice and sent again after a lost answer alike, until two *)
(* overlap (vote of custom_agent_service.py).                              *)
THEOREM UpvotesAreSummed == Spec => []UpvotesAreVotes
<1> DEFINE Inv == section = "community" => VotesInv
<1>1. Init => Inv
  <2>1. Init => (section = "community" => TheCommunity!Init)
    BY DEF Init
  <2> QED
    BY <2>1, InitVotes
<1>2. Inv /\ [Next]_vars => Inv'
  <2>1. [Next]_vars => section' = section
    BY DEF Next, vars
  <2>2. [Next]_vars => (section = "community" => [TheCommunity!Next]_communityVars)
    BY DEF Next, vars
  <2> QED
    BY <2>1, <2>2, NextKeepsVotes
<1>3. Inv => UpvotesAreVotes
  BY SumOfVotes DEF UpvotesAreVotes, VotesInv, SumIsRight, TheCommunity!UpvotesAreVotes
<1> HIDE DEF Inv
<1> QED
  BY <1>1, <1>2, <1>3, PTL DEF Spec

-----------------------------------------------------------------------------
(***************************************************************************)
(* For any amounts, clicks and faults, no more is paid out than was        *)
(* earned, as long as no request is repeated and no page is left with one  *)
(* under way.                                                              *)
(*                                                                         *)
(* A transfer may have been made for a request that is checked, completed, *)
(* failed or lost: it claims its amount.  What is claimed must have been   *)
(* earned (ClaimedWasEarned), and is checked alone, for the one request in *)
(* flight is the one the page awaits (OneInFlight).                        *)
(***************************************************************************)
Claiming == ThePayouts!Recorded \cup {"checked", "lost"}

PayoutRow == [at : {"none", "sent", "refused"} \cup Claiming, amount : Nat]

AmountsOf(rows) == [r \in Requests |-> rows[r].amount]
ClaimsOf(rows) == {r \in Requests : rows[r].at \in Claiming}
ClaimedBy(rows) == SumFunctionOnSet(AmountsOf(rows), ClaimsOf(rows))

PayoutTypes == /\ payoutsRequest \in [Requests -> PayoutRow]
               /\ amount \in Nat /\ payoutsShown.withdrawable \in Nat

TransfersAreClaimed == sent \subseteq {r \in Requests : payoutsRequest[r].at \in {"completed", "lost"}}

OneInFlight ==
    ~ again => \A r \in Requests :
        payoutsRequest[r].at \in {"sent", "checked", "lost"} => awaited.request = {r}

ClaimedWasEarned == ~ again => ClaimedBy(payoutsRequest) <= Cleared

PayoutInv == PayoutTypes /\ TransfersAreClaimed /\ OneInFlight /\ ClaimedWasEarned

\* The service's sum is the sum.
LEMMA TotalIsSum ==
    ASSUME NEW R PROVE ThePayouts!Total(R) = SumFunctionOnSet(AmountsOf(payoutsRequest), R)
  BY DEF ThePayouts!Total, ThePayouts!SumFunctionOnSet, ThePayouts!FoldFunctionOnSet, AmountsOf,
         ThePayouts!MapThenFoldSet, SumFunctionOnSet, FoldFunctionOnSet, MapThenFoldSet

LEMMA ClaimedIsNat ==
    ASSUME IsFiniteSet(Requests), NEW rows \in [Requests -> PayoutRow]
    PROVE  /\ IsFiniteSet(ClaimsOf(rows))
           /\ \A r \in Requests : AmountsOf(rows)[r] = rows[r].amount /\ rows[r].amount \in Nat
           /\ \A r \in ClaimsOf(rows) : AmountsOf(rows)[r] \in Nat
           /\ ClaimedBy(rows) \in Nat
<1>1. IsFiniteSet(ClaimsOf(rows)) /\ ClaimsOf(rows) \subseteq Requests
  BY FS_Subset DEF ClaimsOf
<1>2. \A r \in Requests : AmountsOf(rows)[r] = rows[r].amount /\ rows[r].amount \in Nat
  BY DEF AmountsOf, PayoutRow
<1>3. \A r \in ClaimsOf(rows) : AmountsOf(rows)[r] \in Nat
  BY <1>1, <1>2
<1>4. ClaimedBy(rows) \in Nat
  BY <1>1, <1>3, SumOfNats DEF ClaimedBy
<1> QED
  BY <1>1, <1>2, <1>3, <1>4

\* Less is claimed by a part of the claims.
LEMMA FewerClaims ==
    ASSUME IsFiniteSet(Requests), NEW old \in [Requests -> PayoutRow],
           NEW new \in [Requests -> PayoutRow], ClaimsOf(new) \subseteq ClaimsOf(old),
           \A r \in ClaimsOf(new) : new[r].amount = old[r].amount
    PROVE  ClaimedBy(new) <= ClaimedBy(old)
<1> DEFINE f1 == AmountsOf(old)
           f2 == AmountsOf(new)
           A == ClaimsOf(new)
           B == ClaimsOf(old)
<1>1. /\ IsFiniteSet(A) /\ IsFiniteSet(B) /\ A \in SUBSET B
      /\ \A r \in B : f1[r] \in Nat
  BY ClaimedIsNat
<1>2. \A r \in A : f1[r] \in Int /\ f2[r] = f1[r]
  BY <1>1, ClaimedIsNat DEF ClaimsOf
<1> HIDE DEF f1, f2, A, B
<1>3. SumFunctionOnSet(f2, A) = SumFunctionOnSet(f1, A)
  BY ONLY <1>1, <1>2, SumSame
<1>4. SumFunctionOnSet(f1, A) <= SumFunctionOnSet(f1, B)
  BY ONLY <1>1, SumOfSubset
<1> QED
  BY <1>3, <1>4 DEF f1, f2, A, B, ClaimedBy

\* One more request claims its amount.
LEMMA OneMoreClaim ==
    ASSUME IsFiniteSet(Requests), NEW old \in [Requests -> PayoutRow],
           NEW new \in [Requests -> PayoutRow], NEW q \in Requests, q \notin ClaimsOf(old),
           ClaimsOf(new) = ClaimsOf(old) \cup {q},
           \A r \in Requests : new[r].amount = old[r].amount
    PROVE  ClaimedBy(new) = ClaimedBy(old) + old[q].amount
<1> DEFINE f1 == AmountsOf(old)
           B == ClaimsOf(old)
<1>1. AmountsOf(new) = f1 /\ f1[q] = old[q].amount
  BY DEF AmountsOf
<1>2. IsFiniteSet(B) /\ q \notin B /\ (\A r \in B \cup {q} : f1[r] \in Int)
  BY ClaimedIsNat DEF ClaimsOf
<1> HIDE DEF f1, B
<1>3. SumFunctionOnSet(f1, B \cup {q}) = SumFunctionOnSet(f1, B) + f1[q]
  BY ONLY <1>2, SumWith
<1> QED
  BY <1>1, <1>3 DEF f1, B, ClaimedBy

\* What may be withdrawn is what was earned and is not recorded as paid out.
LEMMA WithdrawableType ==
    ASSUME IsFiniteSet(Requests), PayoutInv
    PROVE  /\ ThePayouts!get_withdrawable_balance \in Nat
           /\ ClaimsOf(payoutsRequest) = ThePayouts!PaidOut =>
                ThePayouts!get_withdrawable_balance =
                  IF ClaimedBy(payoutsRequest) >= Cleared THEN 0
                  ELSE Cleared - ClaimedBy(payoutsRequest)
<1> DEFINE total == ThePayouts!Total(ThePayouts!PaidOut)
<1>1. Cleared \in Nat
  BY PayoutsBounds DEF ThePayouts!PayoutsAssumption
<1>2. total = SumFunctionOnSet(AmountsOf(payoutsRequest), ThePayouts!PaidOut)
  BY TotalIsSum
<1>3. /\ ThePayouts!PaidOut \subseteq Requests /\ IsFiniteSet(ThePayouts!PaidOut)
      /\ \A r \in ThePayouts!PaidOut : AmountsOf(payoutsRequest)[r] \in Nat
  BY FS_Subset, ClaimedIsNat DEF ThePayouts!PaidOut, PayoutInv, PayoutTypes
<1>4. total \in Nat
  BY <1>2, <1>3, SumOfNats
<1>5. ThePayouts!get_withdrawable_balance = IF total >= Cleared THEN 0 ELSE Cleared - total
  BY DEF ThePayouts!get_withdrawable_balance
<1> HIDE DEF total
<1> QED
  BY <1>1, <1>2, <1>4, <1>5 DEF ClaimedBy

LEMMA InitPayout == ASSUME IsFiniteSet(Requests), ThePayouts!Init PROVE PayoutInv
<1>1. /\ PayoutTypes /\ sent = {} /\ \A r \in Requests : payoutsRequest[r].at = "none"
  BY DEF ThePayouts!Init, PayoutTypes, PayoutRow, ThePayouts!NoRequest
<1>2. ClaimsOf(payoutsRequest) = {}
  BY <1>1 DEF ClaimsOf, Claiming, ThePayouts!Recorded
<1>3. ClaimedBy(payoutsRequest) = 0 /\ Cleared \in Nat
  BY <1>2, SumOfNone, PayoutsBounds DEF ClaimedBy, ThePayouts!PayoutsAssumption
<1> QED
  BY <1>1, <1>3 DEF PayoutInv, TransfersAreClaimed, OneInFlight, ClaimedWasEarned

\* A step that leaves the requests and what the page awaits alone.
LEMMA PageKeepsPayout ==
    ASSUME PayoutInv, UNCHANGED <<payoutsRequest, sent, again, awaited>>,
           amount' \in Nat, payoutsShown'.withdrawable \in Nat
    PROVE  PayoutInv'
  BY DEF PayoutInv, PayoutTypes, TransfersAreClaimed, OneInFlight, ClaimedWasEarned

LEMMA PageActionsKeepPayout ==
    ASSUME IsFiniteSet(Requests), PayoutInv,
           \/ ThePayouts!Reserve \/ ThePayouts!Verify \/ ThePayouts!Refetch
           \/ ThePayouts!handleConnect \/ ThePayouts!create_connect_account
           \/ ThePayouts!OpenWithdraw \/ ThePayouts!Cancel
           \/ (\E n \in ThePayouts!Amounts \ {0} : ThePayouts!TypeAmount(n)) \/ UNCHANGED payoutsVars
    PROVE  PayoutInv'
<1>1. UNCHANGED <<payoutsRequest, sent, again, awaited>>
  BY DEF ThePayouts!Reserve, ThePayouts!Verify, ThePayouts!Refetch, ThePayouts!handleConnect,
         ThePayouts!create_connect_account, ThePayouts!OpenWithdraw, ThePayouts!Cancel,
         ThePayouts!TypeAmount, payoutsVars, ThePayouts!page, ThePayouts!service
<1>2. amount' \in Nat
  BY PayoutsBounds DEF ThePayouts!Reserve, ThePayouts!Verify, ThePayouts!Refetch,
         ThePayouts!handleConnect, ThePayouts!create_connect_account, ThePayouts!OpenWithdraw,
         ThePayouts!Cancel, ThePayouts!TypeAmount, payoutsVars, ThePayouts!page,
         ThePayouts!Amounts, PayoutInv, PayoutTypes
<1>3. payoutsShown' = payoutsShown
          \/ payoutsShown'.withdrawable = ThePayouts!get_withdrawable_balance
  BY DEF ThePayouts!Reserve, ThePayouts!Verify, ThePayouts!Refetch, ThePayouts!handleConnect,
         ThePayouts!create_connect_account, ThePayouts!OpenWithdraw, ThePayouts!Cancel,
         ThePayouts!TypeAmount, payoutsVars, ThePayouts!page
<1>4. payoutsShown'.withdrawable \in Nat
  BY <1>3, WithdrawableType DEF PayoutInv, PayoutTypes
<1> QED
  BY <1>1, <1>2, <1>4, PageKeepsPayout

\* Leaving with a request under way, and asking again, give up the promise.
LEMMA AgainKeepsPayout ==
    ASSUME IsFiniteSet(Requests), PayoutInv,
           ThePayouts!Return \/ \E r, q \in Requests : ThePayouts!LosePayout(r, q)
    PROVE  PayoutInv'
<1>1. CASE ThePayouts!Return
  <2>1. /\ UNCHANGED <<payoutsRequest, sent>> /\ amount' = 0 /\ payoutsShown'.withdrawable = 0
        /\ awaited' = ThePayouts!NoWithdrawal
        /\ again' = (again \/ awaited # ThePayouts!NoWithdrawal)
    BY <1>1 DEF ThePayouts!Return
  <2>2. ~ again' => ~ again /\ UNCHANGED awaited
    BY <2>1
  <2> QED
    BY <2>1, <2>2
    DEF PayoutInv, PayoutTypes, TransfersAreClaimed, OneInFlight, ClaimedWasEarned
<1>2. CASE \E r, q \in Requests : ThePayouts!LosePayout(r, q)
  <2>1. PICK r \in Requests, q \in Requests : ThePayouts!LosePayout(r, q)
    BY <1>2
  <2> DEFINE repeated == [at |-> "sent", amount |-> payoutsRequest[r].amount]
  <2>2. repeated \in PayoutRow
    BY DEF PayoutInv, PayoutTypes, PayoutRow
  <2>3. /\ again' = TRUE /\ UNCHANGED <<sent, amount, payoutsShown>> /\ payoutsRequest[q].at = "none"
        /\ \/ payoutsRequest' = [payoutsRequest EXCEPT ![q] = repeated]
           \/ UNCHANGED payoutsRequest
    BY <2>1 DEF ThePayouts!LosePayout
  <2> HIDE DEF repeated
  <2>4. PayoutTypes' /\ TransfersAreClaimed'
    BY <2>2, <2>3 DEF PayoutInv, PayoutTypes, TransfersAreClaimed
  <2> QED
    BY <2>3, <2>4 DEF PayoutInv, OneInFlight, ClaimedWasEarned
<1> QED
  BY <1>1, <1>2

LEMMA WithdrawKeepsPayout ==
    ASSUME IsFiniteSet(Requests), PayoutInv, NEW r \in Requests, ThePayouts!handleWithdraw(r)
    PROVE  PayoutInv'
<1> DEFINE wanted == [at |-> "sent", amount |-> amount]
<1>1. /\ UNCHANGED <<sent, again, amount, payoutsShown>> /\ payoutsRequest[r].at = "none"
      /\ payoutsRequest' = [payoutsRequest EXCEPT ![r] = wanted]
      /\ awaited.request = {} /\ awaited'.request = {r}
  BY DEF ThePayouts!handleWithdraw, ThePayouts!NoWithdrawal
<1>2. wanted \in PayoutRow /\ wanted.at = "sent"
  BY DEF PayoutInv, PayoutTypes, PayoutRow
<1> HIDE DEF wanted
<1>3. /\ payoutsRequest' \in [Requests -> PayoutRow] /\ payoutsRequest'[r] = wanted
      /\ \A q \in Requests \ {r} : payoutsRequest'[q] = payoutsRequest[q]
  BY <1>1, <1>2 DEF PayoutInv, PayoutTypes
<1>4. PayoutTypes'
  BY <1>1, <1>3 DEF PayoutInv, PayoutTypes
<1>5. TransfersAreClaimed' /\ OneInFlight'
  BY <1>1, <1>3 DEF PayoutInv, TransfersAreClaimed, OneInFlight
<1>6. ClaimsOf(payoutsRequest') = ClaimsOf(payoutsRequest) /\ r \notin ClaimsOf(payoutsRequest)
  BY <1>1, <1>2, <1>3 DEF ClaimsOf, Claiming, ThePayouts!Recorded
<1>7. /\ payoutsRequest \in [Requests -> PayoutRow]
      /\ \A q \in ClaimsOf(payoutsRequest') : payoutsRequest'[q].amount = payoutsRequest[q].amount
  BY <1>3, <1>6 DEF PayoutInv, PayoutTypes, ClaimsOf
<1>8. ClaimedBy(payoutsRequest') <= ClaimedBy(payoutsRequest)
  BY <1>3, <1>6, <1>7, FewerClaims
<1>9. ClaimedBy(payoutsRequest') \in Nat /\ ClaimedBy(payoutsRequest) \in Nat /\ Cleared \in Nat
  BY <1>3, <1>7, ClaimedIsNat, PayoutsBounds DEF ThePayouts!PayoutsAssumption
<1>10. ClaimedWasEarned'
  BY <1>1, <1>8, <1>9 DEF PayoutInv, ClaimedWasEarned
<1> QED
  BY <1>4, <1>5, <1>10 DEF PayoutInv

LEMMA HearKeepsPayout ==
    ASSUME PayoutInv, NEW r \in Requests, ThePayouts!HearPayout(r)
    PROVE  PayoutInv'
<1>1. /\ UNCHANGED <<payoutsRequest, sent, again, payoutsShown>> /\ r \in awaited.request
      /\ payoutsRequest[r].at \in {"completed", "failed", "refused"}
      /\ amount' = 0 \/ amount' = amount
  BY DEF ThePayouts!HearPayout, ThePayouts!Recorded, ThePayouts!service
<1>2. ~ again => \A q \in Requests : payoutsRequest[q].at \notin {"sent", "checked", "lost"}
  <2> SUFFICES ASSUME ~ again, NEW q \in Requests,
                      payoutsRequest[q].at \in {"sent", "checked", "lost"}
               PROVE  FALSE
    OBVIOUS
  <2>1. awaited.request = {q}
    BY DEF PayoutInv, OneInFlight
  <2> QED
    BY <1>1, <2>1
<1> QED
  BY <1>1, <1>2 DEF PayoutInv, PayoutTypes, TransfersAreClaimed, OneInFlight, ClaimedWasEarned

\* A request goes on to another state, claims no more than before, and is sent to Stripe
\* only if it is claimed for good.
LEMMA RequestKeepsPayout ==
    ASSUME IsFiniteSet(Requests), PayoutInv, NEW r \in Requests, NEW st,
           payoutsRequest' = [payoutsRequest EXCEPT ![r].at = st],
           st \in {"refused"} \cup Claiming, payoutsRequest[r].at \in {"sent", "checked"},
           UNCHANGED <<again, awaited, amount, payoutsShown>>,
           sent' \subseteq sent \cup {r}, r \in sent' => st \in {"completed", "lost"},
           ~ again => ClaimedBy(payoutsRequest') <= Cleared
    PROVE  PayoutInv'
<1> DEFINE new == [payoutsRequest[r] EXCEPT !.at = st]
<1>1. new \in PayoutRow /\ new.at = st
  BY DEF PayoutInv, PayoutTypes, PayoutRow
<1>2. payoutsRequest' = [payoutsRequest EXCEPT ![r] = new]
  BY DEF PayoutInv, PayoutTypes
<1> HIDE DEF new
<1>3. /\ payoutsRequest' \in [Requests -> PayoutRow] /\ payoutsRequest'[r].at = st
      /\ \A q \in Requests \ {r} : payoutsRequest'[q] = payoutsRequest[q]
  BY <1>1, <1>2 DEF PayoutInv, PayoutTypes
<1>4. PayoutTypes' /\ TransfersAreClaimed'
  BY <1>3 DEF PayoutInv, PayoutTypes, TransfersAreClaimed
<1>5. OneInFlight'
  BY <1>3 DEF PayoutInv, OneInFlight
<1> QED
  BY <1>4, <1>5 DEF PayoutInv, ClaimedWasEarned

\* What such a step does to the rows.
LEMMA RequestRows ==
    ASSUME PayoutInv, NEW r \in Requests, NEW st, st \in {"refused"} \cup Claiming,
           payoutsRequest' = [payoutsRequest EXCEPT ![r].at = st]
    PROVE  /\ payoutsRequest \in [Requests -> PayoutRow]
           /\ payoutsRequest' \in [Requests -> PayoutRow]
           /\ payoutsRequest'[r].at = st
           /\ \A q \in Requests \ {r} : payoutsRequest'[q].at = payoutsRequest[q].at
           /\ \A q \in Requests : payoutsRequest'[q].amount = payoutsRequest[q].amount
<1> DEFINE new == [payoutsRequest[r] EXCEPT !.at = st]
<1>1. new \in PayoutRow /\ new.at = st /\ new.amount = payoutsRequest[r].amount
  BY DEF PayoutInv, PayoutTypes, PayoutRow
<1>2. payoutsRequest' = [payoutsRequest EXCEPT ![r] = new]
  BY DEF PayoutInv, PayoutTypes
<1> HIDE DEF new
<1> QED
  BY <1>1, <1>2 DEF PayoutInv, PayoutTypes

LEMMA CheckKeepsPayout ==
    ASSUME IsFiniteSet(Requests), PayoutInv, NEW r \in Requests, ThePayouts!Check(r)
    PROVE  PayoutInv'
<1> DEFINE st == ThePayouts!Verdict(r)
           asks == payoutsRequest[r].amount
<1>1. /\ payoutsRequest[r].at = "sent" /\ payoutsRequest' = [payoutsRequest EXCEPT ![r].at = st]
      /\ UNCHANGED <<again, awaited, amount, payoutsShown, sent>>
  BY DEF ThePayouts!Check, ThePayouts!page
<1>2. /\ st = "refused" \/ st = "checked"
      /\ st = "checked" => ~ (asks < Minimum) /\ ~ (asks > ThePayouts!get_withdrawable_balance)
  BY DEF ThePayouts!Verdict
<1>3. /\ Cleared \in Nat /\ Minimum \in Nat /\ Minimum > 0
  BY PayoutsBounds DEF ThePayouts!PayoutsAssumption
<1> HIDE DEF st
<1>4. st \in {"refused"} \cup Claiming
  BY <1>2 DEF Claiming
<1>5. /\ payoutsRequest \in [Requests -> PayoutRow]
      /\ payoutsRequest' \in [Requests -> PayoutRow]
      /\ payoutsRequest'[r].at = st
      /\ \A q \in Requests \ {r} : payoutsRequest'[q].at = payoutsRequest[q].at
      /\ \A q \in Requests : payoutsRequest'[q].amount = payoutsRequest[q].amount
  BY <1>1, <1>4, RequestRows
<1>6. r \notin ClaimsOf(payoutsRequest) /\ asks \in Nat /\ ClaimedBy(payoutsRequest) \in Nat
      /\ ClaimedBy(payoutsRequest') \in Nat
  BY <1>1, <1>5, ClaimedIsNat DEF ClaimsOf, Claiming, ThePayouts!Recorded
<1>7. ASSUME ~ again PROVE ClaimedBy(payoutsRequest') <= Cleared
  <2>1. ClaimedBy(payoutsRequest) <= Cleared
    BY <1>7 DEF PayoutInv, ClaimedWasEarned
  <2>2. CASE st = "refused"
    <3>1. ClaimsOf(payoutsRequest') \subseteq ClaimsOf(payoutsRequest)
      BY <1>5, <2>2 DEF ClaimsOf, Claiming, ThePayouts!Recorded
    <3>2. \A q \in ClaimsOf(payoutsRequest') :
              payoutsRequest'[q].amount = payoutsRequest[q].amount
      BY <1>5 DEF ClaimsOf
    <3>3. ClaimedBy(payoutsRequest') <= ClaimedBy(payoutsRequest)
      BY <1>5, <3>1, <3>2, FewerClaims
    <3> QED
      BY <1>3, <1>6, <2>1, <3>3
  <2>3. CASE st = "checked"
    <3>1. \A q \in Requests : payoutsRequest[q].at \notin {"checked", "lost"}
      <4> SUFFICES ASSUME NEW q \in Requests, payoutsRequest[q].at \in {"checked", "lost"}
                   PROVE  FALSE
        OBVIOUS
      <4>1. awaited.request = {q} /\ awaited.request = {r}
        BY <1>1, <1>7 DEF PayoutInv, OneInFlight
      <4> QED
        BY <1>1, <4>1
    <3>2. ClaimsOf(payoutsRequest) = ThePayouts!PaidOut
      BY <3>1 DEF ClaimsOf, Claiming, ThePayouts!PaidOut
    <3>3. ClaimsOf(payoutsRequest') = ClaimsOf(payoutsRequest) \cup {r}
      BY <1>5, <2>3 DEF ClaimsOf, Claiming
    <3>4. ClaimedBy(payoutsRequest') = ClaimedBy(payoutsRequest) + asks
      BY <1>5, <1>6, <3>3, OneMoreClaim
    <3>5. ThePayouts!get_withdrawable_balance =
              IF ClaimedBy(payoutsRequest) >= Cleared THEN 0
              ELSE Cleared - ClaimedBy(payoutsRequest)
      BY <3>2, WithdrawableType
    <3> QED
      BY <1>2, <1>3, <1>6, <2>1, <2>3, <3>4, <3>5
  <2> QED
    BY <1>2, <2>2, <2>3
<1>8. r \notin sent
  BY <1>1 DEF PayoutInv, TransfersAreClaimed
<1> QED
  BY <1>1, <1>4, <1>7, <1>8, RequestKeepsPayout

LEMMA PayKeepsPayout ==
    ASSUME IsFiniteSet(Requests), PayoutInv, NEW r \in Requests,
           ThePayouts!request_payout(r) \/ ThePayouts!Crash(r)
    PROVE  PayoutInv'
<1>1. PICK st \in {"refused", "completed", "failed", "lost"} :
          /\ payoutsRequest' = [payoutsRequest EXCEPT ![r].at = st]
          /\ sent' = sent \/ (sent' = sent \cup {r} /\ st \in {"completed", "lost"})
  BY DEF ThePayouts!request_payout, ThePayouts!Crash
<1>2. payoutsRequest[r].at = "checked" /\ UNCHANGED <<again, awaited, amount, payoutsShown>>
  BY DEF ThePayouts!request_payout, ThePayouts!Crash, ThePayouts!page
<1>3. st \in {"refused"} \cup Claiming /\ r \notin sent
  BY <1>1, <1>2 DEF Claiming, ThePayouts!Recorded, PayoutInv, TransfersAreClaimed
<1>4. /\ payoutsRequest \in [Requests -> PayoutRow]
      /\ payoutsRequest' \in [Requests -> PayoutRow]
      /\ payoutsRequest'[r].at = st
      /\ \A q \in Requests \ {r} : payoutsRequest'[q].at = payoutsRequest[q].at
      /\ \A q \in Requests : payoutsRequest'[q].amount = payoutsRequest[q].amount
  BY <1>1, <1>3, RequestRows
<1>5. ClaimsOf(payoutsRequest') \subseteq ClaimsOf(payoutsRequest)
  BY <1>2, <1>4 DEF ClaimsOf, Claiming
<1>6. \A q \in ClaimsOf(payoutsRequest') : payoutsRequest'[q].amount = payoutsRequest[q].amount
  BY <1>4 DEF ClaimsOf
<1>7. ClaimedBy(payoutsRequest') <= ClaimedBy(payoutsRequest)
  BY <1>4, <1>5, <1>6, FewerClaims
<1>8. ClaimedBy(payoutsRequest') \in Nat /\ ClaimedBy(payoutsRequest) \in Nat /\ Cleared \in Nat
  BY <1>4, ClaimedIsNat, PayoutsBounds DEF ThePayouts!PayoutsAssumption
<1>9. ~ again => ClaimedBy(payoutsRequest') <= Cleared
  BY <1>7, <1>8 DEF PayoutInv, ClaimedWasEarned
<1> QED
  BY <1>1, <1>2, <1>3, <1>9, RequestKeepsPayout

LEMMA NextKeepsPayout ==
    ASSUME IsFiniteSet(Requests), PayoutInv, [ThePayouts!Next]_payoutsVars PROVE PayoutInv'
  BY PageActionsKeepPayout, AgainKeepsPayout, WithdrawKeepsPayout, HearKeepsPayout,
     CheckKeepsPayout, PayKeepsPayout DEF ThePayouts!Next

(* No more is paid out than was earned, although the page confirms against *)
(* an old balance, the service checks without the lock, and it may die     *)
(* between a transfer and its record, until a request is repeated or its   *)
(* page left (request_payout of payout_service.py, handleWithdraw).        *)
THEOREM PaidOutWasEarned == ASSUME IsFiniteSet(Requests) PROVE Spec => []PaidWasEarned
<1> DEFINE Inv == section = "payouts" => PayoutInv
<1>1. Init => Inv
  <2>1. Init => (section = "payouts" => ThePayouts!Init)
    BY DEF Init
  <2> QED
    BY <2>1, InitPayout
<1>2. Inv /\ [Next]_vars => Inv'
  <2>1. [Next]_vars => section' = section
    BY DEF Next, vars
  <2>2. [Next]_vars => (section = "payouts" => [ThePayouts!Next]_payoutsVars)
    BY DEF Next, vars
  <2> QED
    BY <2>1, <2>2, NextKeepsPayout
<1>3. Inv => PaidWasEarned
  <2> SUFFICES ASSUME PayoutInv, ~ again PROVE ThePayouts!Total(sent) <= Cleared
    BY DEF PaidWasEarned, ThePayouts!PaidWasEarned
  <2> DEFINE f1 == AmountsOf(payoutsRequest)
             B == ClaimsOf(payoutsRequest)
  <2>1. /\ IsFiniteSet(B) /\ (\A r \in B : f1[r] \in Nat) /\ ClaimedBy(payoutsRequest) \in Nat
    BY ClaimedIsNat DEF PayoutInv, PayoutTypes
  <2>2. sent \in SUBSET B /\ IsFiniteSet(sent) /\ Cleared \in Nat
    BY <2>1, FS_Subset, PayoutsBounds
    DEF PayoutInv, TransfersAreClaimed, ClaimsOf, Claiming, ThePayouts!Recorded,
        ThePayouts!PayoutsAssumption
  <2>3. ThePayouts!Total(sent) = SumFunctionOnSet(f1, sent)
    BY TotalIsSum
  <2>4. ClaimedBy(payoutsRequest) = SumFunctionOnSet(f1, B)
    BY DEF ClaimedBy
  <2>5. ClaimedBy(payoutsRequest) <= Cleared
    BY DEF PayoutInv, ClaimedWasEarned
  <2> HIDE DEF f1, B
  <2>6. SumFunctionOnSet(f1, sent) <= SumFunctionOnSet(f1, B)
    BY ONLY <2>1, <2>2, SumOfSubset
  <2>7. SumFunctionOnSet(f1, sent) \in Nat
    BY <2>1, <2>2, SumOfNats
  <2> QED
    BY <2>1, <2>2, <2>3, <2>4, <2>5, <2>6, <2>7
<1> HIDE DEF Inv
<1> QED
  BY <1>1, <1>2, <1>3, PTL DEF Spec

-----------------------------------------------------------------------------
(***************************************************************************)
(* For any accounts, any number of threads and any number of moves, faults *)
(* and reloads, what the token and the screen say of the user is one       *)
(* account whenever no async function of the page is in progress.          *)
(*                                                                         *)
(* The property speaks of a page at rest; the invariant has to say what    *)
(* each function may be holding while the others run: which of them may be *)
(* in progress together (FibersFit), for whom each one is (FirebaseFits,   *)
(* LocalFits), and what a logout has already taken from the others         *)
(* (LogoutFits).                                                           *)
(***************************************************************************)


Persons == Accounts \cup {NoName}
Fiber == [kind : TheSession!Kinds, at : TheSession!Points, user : Persons, old : BOOLEAN,
          tries : 0 .. TheSession!MaxRetries, again : BOOLEAN, sends : Nat]
Awaiting == {"token", "session"}
WayInOrOut == {"login", "logout", "delete"}

\* The attempts a thread has left: the 401 starts them over, once.
Allowed(r) == r.tries + (IF r.again THEN TheSession!MaxRetries + 1 ELSE 0)
SendsFit(r) ==
    /\ r.at = "sent" => r.sends <= Allowed(r) + 1
    /\ r.at = "backoff" => r.sends <= Allowed(r)
    /\ r.at \in Awaiting => r.tries = 0 /\ r.sends <= Allowed(r)
    /\ r.at \notin Awaiting \cup {"sent", "backoff"} => r.tries = 0 /\ ~ r.again /\ r.sends = 0

\* What a thread of each kind may wait for; a site without Firebase asks for no tokens.
KindFits(r) ==
    /\ r.kind = "none" <=> r.at = "none"
    /\ r.at = "password" => r.kind = "login" /\ ~ site.firebase
    /\ r.at \in {"signout", "unsession"} => r.kind \in {"logout", "delete"}
    /\ r.kind = "call" /\ r.at \in Awaiting => r.again
    /\ r.kind = "interval" => r.at \in Awaiting
    /\ ~ site.firebase => r.at \notin Awaiting /\ ~ r.again

SessionRest ==
    /\ site \in [firebase : BOOLEAN, same : BOOLEAN]
    /\ firebase \in Persons /\ session \in Persons
    /\ token \in [user : Persons, old : BOOLEAN] /\ pass \in BOOLEAN
    /\ sessionShown \in [user : Persons, loading : BOOLEAN]
    /\ sessionPage \in TheSession!Pages /\ leaving \in TheSession!Pages \cup {"no"}
    /\ sessionPast \in [overlap : BOOLEAN, stuck : BOOLEAN, out : BOOLEAN, cut : BOOLEAN]
    /\ sessionFaults \in 0 .. MaxFaults /\ moves \in 0 .. MaxMoves
    /\ ~ site.firebase => firebase = NoName /\ session = NoName

\* The buttons wait for the sign-in, the logout or the deletion that is under way.
FibersFit ==
    /\ thread \in [Threads -> Fiber]
    /\ \A t \in Threads : SendsFit(thread[t]) /\ KindFits(thread[t])
    /\ \A t, x \in Threads : thread[t].kind \in WayInOrOut /\ thread[x].kind \in WayInOrOut => t = x

\* A logout: Firebase knows nobody before the end, and no token is fetched any more
\* unless one was being fetched when it began.
NoneAwaits == \A t \in Threads : thread[t].at \notin Awaiting
LogoutFits ==
    /\ \A t \in Threads : thread[t].at = "unsession" => firebase = NoName /\ (sessionPast.cut \/ NoneAwaits)
    /\ sessionPast.out =>
        /\ firebase = NoName
        /\ \A t \in Threads : thread[t].kind \notin WayInOrOut
        /\ sessionPast.cut \/ (session = NoName /\ NoneAwaits)
        /\ leaving = "no" \/ ~ site.firebase => token.user = NoName /\ ~ pass
        /\ leaving = "no" => /\ sessionShown.user = NoName
                             /\ NoneAwaits
                             /\ \A t \in Threads : thread[t].kind \in {"none", "call"}

SigningIn(r) == r.kind \in {"profile", "login"}

\* With Firebase: threads hold its user, and what is of another user is about to be
\* replaced by the listener it called.
Staying == leaving = "no" /\ \A t \in Threads : thread[t].at # "unsession"
FirebaseFits ==
    site.firebase /\ ~ sessionPast.overlap /\ ~ sessionPast.stuck /\ Staying =>
        /\ \A t \in Threads : thread[t].at \in Awaiting => firebase # NoName /\ thread[t].user = firebase
        /\ \A t \in Threads : SigningIn(thread[t]) => firebase # NoName
        /\ \A t \in Threads : SigningIn(thread[t]) /\ thread[t].at \in {"sent", "backoff"} =>
               token.user = firebase /\ (thread[t].at = "sent" => thread[t].user = firebase)
        /\ token.user \in {NoName, firebase} \/
               \E t \in Threads : thread[t].kind = "profile" /\ thread[t].at \in Awaiting
        /\ sessionShown.user \in {NoName, firebase} \/ \E t \in Threads : thread[t].kind = "profile"

\* With local accounts: a sign-in has no company but calls, and shows the token's user.
LocalFits ==
    ~ site.firebase /\ ~ sessionPast.overlap =>
        /\ \A t, x \in Threads : thread[t].kind = "login" /\ x # t => thread[x].kind \in {"none", "call"}
        /\ \A t \in Threads : SigningIn(thread[t]) /\ thread[t].at = "sent" =>
               thread[t].user \in {token.user, NoName} \/ token.user = NoName
        /\ \/ sessionShown.user \in {token.user, NoName} \/ token.user = NoName
           \/ \E t \in Threads : thread[t].kind = "login" /\ thread[t].at \in {"sent", "backoff"}

SessionInv == SessionRest /\ FibersFit /\ LogoutFits /\ FirebaseFits /\ LocalFits

LEMMA NewFiber ==
    \A k \in TheSession!Kinds, a \in TheSession!Points, u \in Persons :
           /\ TheSession!New(k, a, u) \in Fiber /\ TheSession!New(k, a, u).kind = k
           /\ TheSession!New(k, a, u).at = a /\ TheSession!New(k, a, u).user = u
           /\ TheSession!New(k, a, u).tries = 0 /\ TheSession!New(k, a, u).again = FALSE
           /\ TheSession!New(k, a, u).sends = 0
<1> TAKE k \in TheSession!Kinds, a \in TheSession!Points, u \in Persons
<1>1. TheSession!New(k, a, u) = [kind |-> k, at |-> a, user |-> u, old |-> FALSE,
                                 tries |-> 0, again |-> FALSE, sends |-> 0]
  <2>1. TheSession!Idle = [kind |-> "none", at |-> "none", user |-> NoName, old |-> FALSE,
                           tries |-> 0, again |-> FALSE, sends |-> 0]
    BY DEF TheSession!Idle
  <2>2. TheSession!New(k, a, u) = [TheSession!Idle EXCEPT !.kind = k, !.at = a, !.user = u]
    BY DEF TheSession!New
  <2> QED
    BY ONLY <2>1, <2>2
<1>2. 0 \in 0 .. TheSession!MaxRetries
  BY DEF TheSession!MaxRetries
<1> QED
  BY <1>1, <1>2 DEF Fiber

LEMMA IdleFiber ==
    /\ TheSession!Idle \in Fiber /\ TheSession!Idle.kind = "none" /\ TheSession!Idle.at = "none"
    /\ SendsFit(TheSession!Idle) /\ KindFits(TheSession!Idle) /\ ~ SigningIn(TheSession!Idle)
  BY DEF TheSession!Idle, Fiber, Persons, TheSession!MaxRetries, TheSession!Kinds,
         TheSession!Points, SendsFit, KindFits, Awaiting, SigningIn

LEMMA SentFiber ==
    ASSUME SessionRest, NEW r \in Fiber, NEW tk \in [user : Persons, old : BOOLEAN]
    PROVE  /\ TheSession!Sent(r, tk) \in Fiber /\ TheSession!Sent(r, tk).kind = r.kind
           /\ TheSession!Sent(r, tk).at = "sent" /\ TheSession!Sent(r, tk).tries = r.tries
           /\ TheSession!Sent(r, tk).again = r.again /\ TheSession!Sent(r, tk).sends = r.sends + 1
           /\ TheSession!Sent(r, tk).user = IF tk.user # NoName THEN tk.user
                                            ELSE IF site.same THEN session ELSE NoName
<1> DEFINE u == IF tk.user # NoName THEN tk.user ELSE IF site.same THEN session ELSE NoName
           o == tk.user # NoName /\ tk.old
<1>1. u \in Persons /\ o \in BOOLEAN
  BY DEF SessionRest, Persons
<1>2. TheSession!Sent(r, tk) = [kind |-> r.kind, at |-> "sent", user |-> u, old |-> o,
                                tries |-> r.tries, again |-> r.again, sends |-> r.sends + 1]
  <2>1. r = [kind |-> r.kind, at |-> r.at, user |-> r.user, old |-> r.old,
             tries |-> r.tries, again |-> r.again, sends |-> r.sends]
    BY DEF Fiber
  <2>2. TheSession!Sent(r, tk) = [r EXCEPT !.at = "sent", !.sends = r.sends + 1, !.user = u, !.old = o]
    BY <2>1 DEF TheSession!Sent
  <2> HIDE DEF u, o
  <2> QED
    BY <2>1, <2>2
<1> HIDE DEF u, o
<1>3. "sent" \in TheSession!Points /\ r.sends + 1 \in Nat
  BY DEF TheSession!Points, Fiber
<1>4. TheSession!Sent(r, tk) \in Fiber
  BY <1>1, <1>2, <1>3 DEF Fiber
<1> QED
  BY <1>2, <1>4 DEF u

\* One thread goes on.
LEMMA FiberGoes ==
    ASSUME FibersFit, NEW t \in Threads, NEW r \in Fiber, TheSession!SetThread(t, r), UNCHANGED site,
           SendsFit(r), KindFits(r),
           \/ r.kind \notin WayInOrOut \/ thread[t].kind \in WayInOrOut
           \/ \A x \in Threads : thread[x].kind \notin WayInOrOut
    PROVE  /\ FibersFit' /\ thread'[t] = r /\ thread[t] \in Fiber
           /\ \A x \in Threads \ {t} : thread'[x] = thread[x]
<1>1. /\ thread' \in [Threads -> Fiber] /\ thread'[t] = r /\ thread[t] \in Fiber
      /\ \A x \in Threads \ {t} : thread'[x] = thread[x]
  BY DEF FibersFit, TheSession!SetThread
<1>2. \A x \in Threads : SendsFit(thread'[x]) /\ KindFits(thread'[x])
  BY <1>1 DEF FibersFit
<1>3. \A x \in Threads : KindFits(thread[x])' <=> KindFits(thread'[x])
  BY DEF KindFits
<1>4. \A x \in Threads : SendsFit(thread[x])' <=> SendsFit(thread'[x])
  BY DEF SendsFit, Allowed
<1> QED
  BY <1>1, <1>2, <1>3, <1>4 DEF FibersFit

LEMMA SentAnew ==
    ASSUME SessionRest, NEW k \in TheSession!Kinds
    PROVE  LET r == TheSession!Sent(TheSession!New(k, "sent", NoName), token)
           IN  /\ r \in Fiber /\ r.kind = k /\ r.at = "sent" /\ r.tries = 0 /\ r.again = FALSE
               /\ r.sends = 1
               /\ r.user = IF token.user # NoName THEN token.user
                           ELSE IF site.same THEN session ELSE NoName
<1> DEFINE new == TheSession!New(k, "sent", NoName)
<1>1. /\ new \in Fiber /\ new.kind = k /\ new.tries = 0 /\ new.again = FALSE /\ new.sends = 0
  <2>1. "sent" \in TheSession!Points /\ NoName \in Persons
    BY DEF TheSession!Points, Persons
  <2> QED
    BY <2>1, NewFiber
<1>2. token \in [user : Persons, old : BOOLEAN]
  BY DEF SessionRest
<1> HIDE DEF new
<1>3. /\ TheSession!Sent(new, token) \in Fiber /\ TheSession!Sent(new, token).kind = new.kind
      /\ TheSession!Sent(new, token).at = "sent" /\ TheSession!Sent(new, token).tries = new.tries
      /\ TheSession!Sent(new, token).again = new.again
      /\ TheSession!Sent(new, token).sends = new.sends + 1
      /\ TheSession!Sent(new, token).user = IF token.user # NoName THEN token.user
                                            ELSE IF site.same THEN session ELSE NoName
  BY <1>1, <1>2, SentFiber
<1> QED
  BY <1>1, <1>3 DEF new

\* A page calls the API.
LEMMA CallKeepsSession ==
    ASSUME SessionInv, NEW t \in Threads, TheSession!Call(t)
    PROVE  SessionInv'
<1> DEFINE r == TheSession!Sent(TheSession!New("call", "sent", NoName), token)
<1>1. /\ thread[t].at = "none" /\ TheSession!SetThread(t, r)
      /\ UNCHANGED <<site, firebase, token, pass, session, sessionShown, sessionPage, leaving,
                     sessionPast, sessionFaults, moves>>
  BY DEF TheSession!Call, TheSession!Busy
<1>2. r \in Fiber /\ r.kind = "call" /\ r.at = "sent" /\ r.tries = 0 /\ r.again = FALSE /\ r.sends = 1
  <2>1. "call" \in TheSession!Kinds
    BY DEF TheSession!Kinds
  <2> QED
    BY <2>1, SentAnew DEF SessionInv
<1> HIDE DEF r
<1>3. SendsFit(r) /\ KindFits(r) /\ r.kind \notin WayInOrOut /\ ~ SigningIn(r) /\ r.at \notin Awaiting
  BY <1>2 DEF SendsFit, KindFits, Awaiting, Allowed, WayInOrOut, SigningIn
<1>4. /\ FibersFit' /\ thread'[t] = r /\ thread[t] \in Fiber
      /\ \A x \in Threads \ {t} : thread'[x] = thread[x]
  BY <1>1, <1>2, <1>3, FiberGoes DEF SessionInv
<1>5. thread[t].kind = "none" /\ thread[t].at \notin Awaiting /\ ~ SigningIn(thread[t])
  BY <1>1 DEF SessionInv, FibersFit, KindFits, Awaiting, SigningIn
<1>6. SessionRest'
  BY <1>1 DEF SessionInv, SessionRest
<1>7. LogoutFits'
  BY <1>1, <1>2, <1>3, <1>4 DEF SessionInv, LogoutFits, NoneAwaits
<1>8. FirebaseFits'
  BY <1>1, <1>2, <1>3, <1>4, <1>5 DEF SessionInv, FirebaseFits, Staying
<1>9. LocalFits'
  BY <1>1, <1>2, <1>3, <1>4, <1>5 DEF SessionInv, LocalFits
<1> QED
  BY <1>4, <1>6, <1>7, <1>8, <1>9 DEF SessionInv

\* A logout and a deletion begin where no sign-in and no other of them is under way.
LEMMA LeaveKeepsSession ==
    ASSUME SessionInv, NEW t \in Threads, TheSession!Logout(t) \/ TheSession!DeleteAccount(t)
    PROVE  SessionInv'
<1>1. PICK r \in Fiber :
        /\ TheSession!SetThread(t, r) /\ r.kind \in {"logout", "delete"}
        /\ \/ r.kind = "logout" /\ r.at = "signout" /\ r.sends = 0
           \/ r.kind = "delete" /\ r.at = "sent" /\ r.sends = 1
        /\ r.tries = 0 /\ r.again = FALSE
  <2>1. "delete" \in TheSession!Kinds /\ "logout" \in TheSession!Kinds
        /\ "signout" \in TheSession!Points /\ NoName \in Persons
    BY DEF TheSession!Kinds, TheSession!Points, Persons
  <2>2. CASE TheSession!Logout(t)
    BY <2>1, <2>2, NewFiber DEF TheSession!Logout
  <2>3. CASE TheSession!DeleteAccount(t)
    BY <2>1, <2>3, SentAnew DEF TheSession!DeleteAccount, SessionInv
  <2> QED
    BY <2>2, <2>3
<1>2. /\ thread[t].at = "none" /\ sessionShown.user # NoName /\ leaving = "no"
      /\ \A x \in Threads : thread[x].kind \notin WayInOrOut
      /\ moves < MaxMoves /\ moves' = moves + 1
      /\ UNCHANGED <<site, firebase, token, pass, session, sessionShown, sessionPage, leaving,
                     sessionPast, sessionFaults>>
  BY DEF TheSession!Logout, TheSession!DeleteAccount, TheSession!Busy, TheSession!Move, WayInOrOut
<1>3. SendsFit(r) /\ KindFits(r) /\ ~ SigningIn(r) /\ r.at \notin Awaiting /\ r.at # "unsession"
  BY <1>1 DEF SendsFit, KindFits, Awaiting, Allowed, SigningIn
<1>4. /\ FibersFit' /\ thread'[t] = r /\ thread[t] \in Fiber
      /\ \A x \in Threads \ {t} : thread'[x] = thread[x]
  BY <1>1, <1>2, <1>3, FiberGoes DEF SessionInv
<1>5. thread[t].kind = "none" /\ thread[t].at \notin Awaiting /\ ~ SigningIn(thread[t])
  BY <1>2 DEF SessionInv, FibersFit, KindFits, Awaiting, SigningIn
<1>6. SessionRest'
  BY <1>2, SessionBounds DEF SessionInv, SessionRest, TheSession!SessionAssumption
<1>7. ~ sessionPast.out
  BY <1>2 DEF SessionInv, LogoutFits
<1>8. LogoutFits'
  BY <1>2, <1>3, <1>4, <1>7 DEF SessionInv, LogoutFits, NoneAwaits
<1>9. FirebaseFits'
  BY <1>1, <1>2, <1>3, <1>4, <1>5 DEF SessionInv, FirebaseFits, Staying
<1>10. LocalFits'
  BY <1>1, <1>2, <1>3, <1>4, <1>5 DEF SessionInv, LocalFits, WayInOrOut
<1> QED
  BY <1>4, <1>6, <1>8, <1>9, <1>10 DEF SessionInv

\* An answer: the profile is shown, or the deleted account is logged out.
LEMMA AnsweredKeepsSession ==
    ASSUME SessionInv, NEW t \in Threads, TheSession!Answered(t)
    PROVE  SessionInv'
<1>1. /\ thread[t].at = "sent" /\ thread[t].user # NoName /\ thread[t] \in Fiber
      /\ UNCHANGED <<site, firebase, token, pass, session, sessionPast, sessionFaults, moves>>
      /\ sessionPage' \in {sessionPage, "dashboard"}
  BY DEF TheSession!Answered, SessionInv, FibersFit
<1>2. IF SigningIn(thread[t]) THEN sessionShown' = [user |-> thread[t].user, loading |-> FALSE]
      ELSE UNCHANGED sessionShown
  BY DEF TheSession!Answered, TheSession!Show, SigningIn
<1>3. PICK r \in Fiber :
        /\ TheSession!SetThread(t, r) /\ SendsFit(r) /\ KindFits(r) /\ r.at \in {"none", "signout"}
        /\ IF thread[t].kind = "delete" THEN r.kind = "delete" /\ leaving' = "public"
           ELSE r.kind = "none" /\ UNCHANGED leaving
  <2>1. CASE thread[t].kind = "delete"
    <3>1. "delete" \in TheSession!Kinds /\ "signout" \in TheSession!Points /\ NoName \in Persons
      BY DEF TheSession!Kinds, TheSession!Points, Persons
    <3> DEFINE r == TheSession!New("delete", "signout", NoName)
    <3>2. /\ r \in Fiber /\ r.kind = "delete" /\ r.at = "signout" /\ r.sends = 0 /\ r.tries = 0
          /\ r.again = FALSE
      BY <3>1, NewFiber
    <3>3. TheSession!SetThread(t, r) /\ leaving' = "public"
      BY <2>1 DEF TheSession!Answered
    <3> HIDE DEF r
    <3>4. SendsFit(r) /\ KindFits(r)
      BY <3>2 DEF SendsFit, KindFits, Awaiting
    <3> QED
      BY <2>1, <3>2, <3>3, <3>4
  <2>2. CASE thread[t].kind # "delete"
    BY <2>2, IdleFiber DEF TheSession!Answered
  <2> QED
    BY <2>1, <2>2
<1>4. /\ FibersFit' /\ thread'[t] = r
      /\ \A x \in Threads \ {t} : thread'[x] = thread[x]
  <2>1. \/ r.kind \notin WayInOrOut \/ thread[t].kind \in WayInOrOut
    BY <1>3 DEF WayInOrOut
  <2> QED
    BY <1>1, <1>3, <2>1, FiberGoes DEF SessionInv
<1>5. ~ SigningIn(r) /\ r.at \notin Awaiting /\ thread[t].at \notin Awaiting
  BY <1>1, <1>3 DEF SigningIn, Awaiting
<1>6. SessionRest'
  <2>1. sessionShown' \in [user : Persons, loading : BOOLEAN]
    <3>1. thread[t].user \in Persons
      BY <1>1 DEF Fiber
    <3>2. CASE SigningIn(thread[t])
      <4>1. sessionShown' = [user |-> thread[t].user, loading |-> FALSE]
        BY <1>2, <3>2, Zenon
      <4> QED
        BY <3>1, <4>1
    <3>3. CASE ~ SigningIn(thread[t])
      BY <1>2, <3>3 DEF SessionInv, SessionRest
    <3> QED
      BY <3>2, <3>3
  <2>2. sessionPage' \in TheSession!Pages /\ leaving' \in TheSession!Pages \cup {"no"}
    BY <1>1, <1>3 DEF SessionInv, SessionRest, TheSession!Pages
  <2> QED
    BY <1>1, <2>1, <2>2 DEF SessionInv, SessionRest
<1>7. LogoutFits'
  BY <1>1, <1>2, <1>3, <1>4, <1>5 DEF SessionInv, LogoutFits, NoneAwaits, SigningIn, WayInOrOut
<1>8. FirebaseFits'
  BY <1>1, <1>2, <1>3, <1>4, <1>5 DEF SessionInv, FirebaseFits, Staying, SigningIn
<1>9. LocalFits'
  BY <1>1, <1>2, <1>3, <1>4, <1>5 DEF SessionInv, LocalFits, SigningIn
<1> QED
  BY <1>4, <1>6, <1>7, <1>8, <1>9 DEF SessionInv

\* A request is sent again with the token there is then.
LEMMA RetryKeepsSession ==
    ASSUME SessionInv, NEW t \in Threads, TheSession!Retry(t)
    PROVE  SessionInv'
<1> DEFINE r == TheSession!Sent(thread[t], token)
<1>1. /\ thread[t].at = "backoff" /\ TheSession!SetThread(t, r) /\ thread[t] \in Fiber
      /\ UNCHANGED <<site, firebase, token, pass, session, sessionShown, sessionPage, leaving,
                     sessionPast, sessionFaults, moves>>
  BY DEF TheSession!Retry, SessionInv, FibersFit
<1>2. /\ r \in Fiber /\ r.kind = thread[t].kind /\ r.at = "sent" /\ r.tries = thread[t].tries
      /\ r.again = thread[t].again /\ r.sends = thread[t].sends + 1
      /\ r.user = IF token.user # NoName THEN token.user ELSE IF site.same THEN session ELSE NoName
  <2>1. token \in [user : Persons, old : BOOLEAN]
    BY DEF SessionInv, SessionRest
  <2> QED
    BY <1>1, <2>1, SentFiber DEF SessionInv
<1> HIDE DEF r
<1>3. SendsFit(thread[t]) /\ KindFits(thread[t])
  BY DEF SessionInv, FibersFit
<1>4. SendsFit(r) /\ KindFits(r)
  BY <1>1, <1>2, <1>3 DEF SendsFit, KindFits, Awaiting, Allowed, Fiber, TheSession!MaxRetries
<1>5. /\ FibersFit' /\ thread'[t] = r
      /\ \A x \in Threads \ {t} : thread'[x] = thread[x]
  BY <1>1, <1>2, <1>4, FiberGoes DEF SessionInv
<1>6. SessionRest'
  BY <1>1 DEF SessionInv, SessionRest
<1>7. LogoutFits'
  BY <1>1, <1>2, <1>5 DEF SessionInv, LogoutFits, NoneAwaits, Awaiting
<1>8. FirebaseFits'
  BY <1>1, <1>2, <1>5 DEF SessionInv, FirebaseFits, Staying, SigningIn, Awaiting
<1>9. LocalFits'
  BY <1>1, <1>2, <1>5 DEF SessionInv, LocalFits, SigningIn, SessionRest
<1> QED
  BY <1>5, <1>6, <1>7, <1>8, <1>9 DEF SessionInv

\* A thread that ends in failure; who it was signing in is not shown.
LEMMA FailedThread ==
    ASSUME SessionInv, NEW t \in Threads, TheSession!Failed(t), UNCHANGED site
    PROVE  /\ FibersFit' /\ thread'[t] = TheSession!Idle
           /\ thread[t] \in Fiber /\ \A x \in Threads \ {t} : thread'[x] = thread[x]
           /\ IF SigningIn(thread[t]) THEN sessionShown' = [user |-> NoName, loading |-> FALSE]
              ELSE UNCHANGED sessionShown
           /\ sessionShown' \in [user : Persons, loading : BOOLEAN]
<1>1. /\ TheSession!SetThread(t, TheSession!Idle)
      /\ IF SigningIn(thread[t]) THEN sessionShown' = [user |-> NoName, loading |-> FALSE]
         ELSE UNCHANGED sessionShown
  BY DEF TheSession!Failed, TheSession!Show, SigningIn
<1>2. TheSession!Idle.kind \notin WayInOrOut
  BY IdleFiber DEF WayInOrOut
<1>3. /\ FibersFit' /\ thread'[t] = TheSession!Idle /\ thread[t] \in Fiber
      /\ \A x \in Threads \ {t} : thread'[x] = thread[x]
  BY <1>1, <1>2, IdleFiber, FiberGoes DEF SessionInv
<1>4. sessionShown' \in [user : Persons, loading : BOOLEAN]
  <2>1. CASE SigningIn(thread[t])
    <3>1. NoName \in Persons
      BY DEF Persons
    <3>2. sessionShown' = [user |-> NoName, loading |-> FALSE]
      BY <1>1, <2>1, Zenon
    <3> QED
      BY <3>1, <3>2
  <2>2. CASE ~ SigningIn(thread[t])
    BY <1>1, <2>2 DEF SessionInv, SessionRest
  <2> QED
    BY <2>1, <2>2
<1> QED
  BY <1>1, <1>3, <1>4

\* A thread that was at its request has failed, and nothing else happens but faults.
LEMMA FailedKeepsSession ==
    ASSUME SessionInv, NEW t \in Threads, TheSession!Failed(t), thread[t].at = "sent",
           UNCHANGED <<site, firebase, token, pass, session, sessionPage, leaving, sessionPast, moves>>,
           sessionFaults' \in 0 .. MaxFaults
    PROVE  SessionInv'
<1>1. /\ FibersFit' /\ thread'[t] = TheSession!Idle
      /\ thread[t] \in Fiber /\ \A x \in Threads \ {t} : thread'[x] = thread[x]
      /\ IF SigningIn(thread[t]) THEN sessionShown' = [user |-> NoName, loading |-> FALSE]
         ELSE UNCHANGED sessionShown
      /\ sessionShown' \in [user : Persons, loading : BOOLEAN]
  BY FailedThread
<1>2. /\ thread'[t].kind = "none" /\ thread'[t].at = "none" /\ ~ SigningIn(thread'[t])
      /\ thread[t].at \notin Awaiting /\ thread'[t].at \notin Awaiting
  BY <1>1, IdleFiber DEF Awaiting
<1>3. SessionRest'
  BY <1>1 DEF SessionInv, SessionRest
<1>4. LogoutFits'
  BY <1>1, <1>2 DEF SessionInv, LogoutFits, NoneAwaits, WayInOrOut
<1>5. FirebaseFits'
  BY <1>1, <1>2 DEF SessionInv, FirebaseFits, Staying, SigningIn
<1>6. LocalFits'
  BY <1>1, <1>2 DEF SessionInv, LocalFits, SigningIn
<1> QED
  BY <1>1, <1>3, <1>4, <1>5, <1>6 DEF SessionInv

LEMMA LostKeepsSession ==
    ASSUME SessionInv, NEW t \in Threads, TheSession!Lost(t)
    PROVE  SessionInv'
<1>1. /\ thread[t].at = "sent" /\ thread[t] \in Fiber /\ sessionFaults' \in 0 .. MaxFaults
      /\ UNCHANGED <<site, firebase, token, pass, session, sessionPage, leaving, sessionPast, moves>>
  BY SessionBounds DEF TheSession!Lost, TheSession!Fault, TheSession!SessionAssumption, SessionInv,
        SessionRest, FibersFit
<1>2. CASE ~ (thread[t].tries < TheSession!MaxRetries)
  BY <1>1, <1>2, FailedKeepsSession DEF TheSession!Lost
<1>3. CASE thread[t].tries < TheSession!MaxRetries
  <2> DEFINE n == thread[t].tries + 1
             r == [thread[t] EXCEPT !.at = "backoff", !.tries = n]
  <2>1. TheSession!SetThread(t, r) /\ UNCHANGED sessionShown
    BY <1>3 DEF TheSession!Lost
  <2>2. n \in 0 .. TheSession!MaxRetries /\ "backoff" \in TheSession!Points
    BY <1>1, <1>3 DEF Fiber, TheSession!MaxRetries, TheSession!Points
  <2> HIDE DEF n
  <2>3. /\ r \in Fiber /\ r.kind = thread[t].kind /\ r.at = "backoff" /\ r.tries = n
        /\ r.again = thread[t].again /\ r.sends = thread[t].sends /\ r.user = thread[t].user
    BY <1>1, <2>2 DEF Fiber
  <2> HIDE DEF r
  <2>4. SendsFit(r) /\ KindFits(r)
    <3>1. SendsFit(thread[t]) /\ KindFits(thread[t])
      BY DEF SessionInv, FibersFit
    <3> QED
      BY <1>1, <2>3, <3>1 DEF SendsFit, KindFits, Awaiting, Allowed, Fiber, TheSession!MaxRetries, n
  <2>5. /\ FibersFit' /\ thread'[t] = r
        /\ \A x \in Threads \ {t} : thread'[x] = thread[x]
    BY <1>1, <2>1, <2>3, <2>4, FiberGoes DEF SessionInv
  <2>6. SessionRest'
    BY <1>1, <2>1 DEF SessionInv, SessionRest
  <2>7. LogoutFits'
    BY <1>1, <2>1, <2>3, <2>5 DEF SessionInv, LogoutFits, NoneAwaits, Awaiting
  <2>8. FirebaseFits'
    BY <1>1, <2>1, <2>3, <2>5 DEF SessionInv, FirebaseFits, Staying, SigningIn, Awaiting
  <2>9. LocalFits'
    BY <1>1, <2>1, <2>3, <2>5 DEF SessionInv, LocalFits, SigningIn
  <2> QED
    BY <2>5, <2>6, <2>7, <2>8, <2>9 DEF SessionInv
<1> QED
  BY <1>2, <1>3

\* A 401: failed again, given up because Firebase knows nobody, or refreshed.
LEMMA UnauthorizedKeepsSession ==
    ASSUME SessionInv, NEW t \in Threads, TheSession!Unauthorized(t)
    PROVE  SessionInv'
<1>1. /\ thread[t].at = "sent" /\ thread[t] \in Fiber
      /\ UNCHANGED <<site, firebase, session, sessionPage, sessionPast, sessionFaults, moves>>
  BY DEF TheSession!Unauthorized, SessionInv, FibersFit
<1>2. CASE thread[t].again /\ TheSession!Failed(t) /\ UNCHANGED <<token, pass, leaving>>
  BY <1>1, <1>2, FailedKeepsSession DEF SessionInv, SessionRest
<1>3. CASE firebase = NoName /\ TheSession!GiveUp(t)
  <2>1. /\ token' = [user |-> NoName, old |-> FALSE] /\ pass' = FALSE /\ TheSession!Failed(t)
        /\ leaving' \in {leaving, "login"} /\ (leaving # "no" => leaving' # "no")
    BY <1>3 DEF TheSession!GiveUp, TheSession!Clear, TheSession!NoToken
  <2>2. /\ FibersFit' /\ thread'[t] = TheSession!Idle
        /\ thread[t] \in Fiber /\ \A x \in Threads \ {t} : thread'[x] = thread[x]
        /\ IF SigningIn(thread[t]) THEN sessionShown' = [user |-> NoName, loading |-> FALSE]
           ELSE UNCHANGED sessionShown
        /\ sessionShown' \in [user : Persons, loading : BOOLEAN]
    BY <1>1, <2>1, FailedThread
  <2>3. /\ thread'[t].kind = "none" /\ thread'[t].at = "none" /\ ~ SigningIn(thread'[t])
        /\ thread[t].at \notin Awaiting /\ thread'[t].at \notin Awaiting
    BY <1>1, <2>2, IdleFiber DEF Awaiting
  <2>4. SessionRest'
    BY <1>1, <2>1, <2>2 DEF SessionInv, SessionRest, Persons, TheSession!Pages
  <2>5. LogoutFits'
    BY <1>1, <2>1, <2>2, <2>3 DEF SessionInv, LogoutFits, NoneAwaits, WayInOrOut
  <2>6. FirebaseFits'
    BY <1>1, <1>3, <2>1, <2>2, <2>3 DEF SessionInv, FirebaseFits, Staying, SigningIn
  <2>7. LocalFits'
    BY <1>1, <2>1, <2>2, <2>3 DEF SessionInv, LocalFits, SigningIn
  <2> QED
    BY <2>2, <2>4, <2>5, <2>6, <2>7 DEF SessionInv
<1>4. CASE /\ ~ thread[t].again /\ firebase # NoName
           /\ TheSession!SetThread(t, [thread[t] EXCEPT !.at = "token", !.user = firebase,
                                                        !.again = TRUE, !.tries = 0])
           /\ UNCHANGED <<token, pass, sessionShown, leaving>>
  <2> DEFINE r == [thread[t] EXCEPT !.at = "token", !.user = firebase, !.again = TRUE, !.tries = 0]
  <2>1. TheSession!SetThread(t, r)
    BY <1>4
  <2>2. 0 \in 0 .. TheSession!MaxRetries /\ "token" \in TheSession!Points /\ firebase \in Persons
    BY DEF TheSession!MaxRetries, TheSession!Points, SessionInv, SessionRest
  <2>3. /\ r \in Fiber /\ r.kind = thread[t].kind /\ r.at = "token" /\ r.tries = 0
        /\ r.again = TRUE /\ r.sends = thread[t].sends /\ r.user = firebase
    BY <1>1, <2>2 DEF Fiber
  <2> HIDE DEF r
  <2>4. SendsFit(r) /\ KindFits(r)
    <3>1. SendsFit(thread[t]) /\ KindFits(thread[t])
      BY DEF SessionInv, FibersFit
    <3>2. site.firebase
      BY <1>4 DEF SessionInv, SessionRest
    <3> QED
      BY <1>1, <1>4, <2>3, <3>1, <3>2
      DEF SendsFit, KindFits, Awaiting, Allowed, Fiber, TheSession!MaxRetries
  <2>5. /\ FibersFit' /\ thread'[t] = r
        /\ \A x \in Threads \ {t} : thread'[x] = thread[x]
    BY <1>1, <2>1, <2>3, <2>4, FiberGoes DEF SessionInv
  <2>6. SessionRest'
    BY <1>1, <1>4 DEF SessionInv, SessionRest
  <2>7. LogoutFits'
    BY <1>1, <1>4, <2>3, <2>5 DEF SessionInv, LogoutFits
  <2>8. FirebaseFits'
    BY <1>1, <1>4, <2>3, <2>5 DEF SessionInv, FirebaseFits, Staying, SigningIn, Awaiting
  <2>9. LocalFits'
    BY <1>1, <1>4 DEF SessionInv, SessionRest, LocalFits
  <2> QED
    BY <2>5, <2>6, <2>7, <2>8, <2>9 DEF SessionInv
<1> QED
  BY <1>1, <1>2, <1>3, <1>4 DEF TheSession!Unauthorized

\* A thread of Firebase's user asks for a token: the interval's, or the one that has got it.
LEMMA TokenKeepsSession ==
    ASSUME SessionInv, NEW t \in Threads, TheSession!Interval(t) \/ TheSession!GotToken(t)
    PROVE  SessionInv'
<1>0. UNCHANGED <<site, firebase, token, pass, session, sessionShown, sessionPage, leaving,
                  sessionPast, sessionFaults, moves>>
  BY DEF TheSession!Interval, TheSession!GotToken
<1>1. CASE TheSession!Interval(t)
  <2> DEFINE r == TheSession!New("interval", "token", firebase)
  <2>1. thread[t].at = "none" /\ TheSession!SetThread(t, r) /\ site.firebase /\ firebase # NoName
    BY <1>1 DEF TheSession!Interval, TheSession!Busy
  <2>2. "interval" \in TheSession!Kinds /\ "token" \in TheSession!Points /\ firebase \in Persons
    BY DEF TheSession!Kinds, TheSession!Points, SessionInv, SessionRest
  <2>3. /\ r \in Fiber /\ r.kind = "interval" /\ r.at = "token" /\ r.tries = 0 /\ r.again = FALSE
        /\ r.sends = 0 /\ r.user = firebase
    BY <2>2, NewFiber
  <2> HIDE DEF r
  <2>4. SendsFit(r) /\ KindFits(r) /\ ~ SigningIn(r) /\ r.kind \notin WayInOrOut
    BY <2>1, <2>3 DEF SendsFit, KindFits, Awaiting, Allowed, SigningIn, WayInOrOut
  <2>5. /\ FibersFit' /\ thread'[t] = r
        /\ \A x \in Threads \ {t} : thread'[x] = thread[x]
    BY <1>0, <2>1, <2>3, <2>4, FiberGoes DEF SessionInv
  <2>6. SessionRest'
    BY <1>0 DEF SessionInv, SessionRest
  <2>7. thread[t].kind = "none"
    BY <2>1 DEF SessionInv, FibersFit, KindFits
  <2>8. LogoutFits'
    BY <1>0, <2>1, <2>3, <2>5 DEF SessionInv, LogoutFits
  <2>9. FirebaseFits'
    BY <1>0, <2>1, <2>3, <2>4, <2>5, <2>7 DEF SessionInv, FirebaseFits, Staying, SigningIn, Awaiting
  <2>10. LocalFits'
    BY <1>0, <2>1 DEF SessionInv, LocalFits
  <2> QED
    BY <2>5, <2>6, <2>8, <2>9, <2>10 DEF SessionInv
<1>2. CASE TheSession!GotToken(t)
  <2> DEFINE r == [thread[t] EXCEPT !.at = "session"]
  <2>1. thread[t].at = "token" /\ TheSession!SetThread(t, r) /\ thread[t] \in Fiber
    BY <1>2 DEF TheSession!GotToken, SessionInv, FibersFit
  <2>2. /\ r \in Fiber /\ r.kind = thread[t].kind /\ r.at = "session" /\ r.tries = thread[t].tries
        /\ r.again = thread[t].again /\ r.sends = thread[t].sends /\ r.user = thread[t].user
    BY <2>1 DEF Fiber, TheSession!Points
  <2> HIDE DEF r
  <2>3. SendsFit(r) /\ KindFits(r)
    <3>1. SendsFit(thread[t]) /\ KindFits(thread[t])
      BY DEF SessionInv, FibersFit
    <3> QED
      BY <2>1, <2>2, <3>1 DEF SendsFit, KindFits, Awaiting, Allowed
  <2>4. /\ FibersFit' /\ thread'[t] = r
        /\ \A x \in Threads \ {t} : thread'[x] = thread[x]
    BY <1>0, <2>1, <2>2, <2>3, FiberGoes DEF SessionInv
  <2>5. SessionRest'
    BY <1>0 DEF SessionInv, SessionRest
  <2>6. LogoutFits'
    BY <1>0, <2>1, <2>2, <2>4 DEF SessionInv, LogoutFits, NoneAwaits, Awaiting
  <2>7. FirebaseFits'
    BY <1>0, <2>1, <2>2, <2>4 DEF SessionInv, FirebaseFits, Staying, SigningIn, Awaiting
  <2>8. LocalFits'
    BY <1>0, <2>1, <2>2, <2>4 DEF SessionInv, LocalFits, SigningIn
  <2> QED
    BY <2>4, <2>5, <2>6, <2>7, <2>8 DEF SessionInv
<1> QED
  BY <1>1, <1>2

\* No token: a refresh gives the session up, what else asked for one ends.
LEMMA NoTokenKeepsSession ==
    ASSUME SessionInv, NEW t \in Threads, TheSession!NoTokenGot(t)
    PROVE  SessionInv'
<1>1. /\ thread[t].at = "token" /\ thread[t] \in Fiber /\ sessionFaults' \in 0 .. MaxFaults
      /\ UNCHANGED <<site, firebase, session, sessionPage, moves>>
  BY SessionBounds DEF TheSession!NoTokenGot, TheSession!Fault, TheSession!SessionAssumption,
        SessionInv, SessionRest, FibersFit
<1>2. site.firebase
  BY <1>1 DEF SessionInv, FibersFit, KindFits, Awaiting
<1>3. CASE thread[t].again
  <2>1. /\ token' = [user |-> NoName, old |-> FALSE] /\ pass' = FALSE /\ TheSession!Failed(t)
        /\ leaving' \in {leaving, "login"} /\ (leaving # "no" => leaving' # "no")
    BY <1>3 DEF TheSession!NoTokenGot, TheSession!GiveUp, TheSession!Clear, TheSession!NoToken
  <2>2. sessionPast' = [sessionPast EXCEPT !.overlap = @ \/ \E x \in Threads : SigningIn(thread[x])]
    BY <1>3 DEF TheSession!NoTokenGot, SigningIn
  <2>3. /\ sessionPast' \in [overlap : BOOLEAN, stuck : BOOLEAN, out : BOOLEAN, cut : BOOLEAN]
        /\ sessionPast'.out = sessionPast.out /\ sessionPast'.cut = sessionPast.cut
        /\ sessionPast'.stuck = sessionPast.stuck
        /\ ~ sessionPast'.overlap => /\ ~ sessionPast.overlap
                                     /\ \A x \in Threads : ~ SigningIn(thread[x])
    BY <2>2 DEF SessionInv, SessionRest
  <2>4. /\ FibersFit' /\ thread'[t] = TheSession!Idle
        /\ \A x \in Threads \ {t} : thread'[x] = thread[x]
        /\ IF SigningIn(thread[t]) THEN sessionShown' = [user |-> NoName, loading |-> FALSE]
           ELSE UNCHANGED sessionShown
        /\ sessionShown' \in [user : Persons, loading : BOOLEAN]
    BY <1>1, <2>1, FailedThread
  <2>5. /\ thread'[t].kind = "none" /\ thread'[t].at = "none" /\ ~ SigningIn(thread'[t])
        /\ thread'[t].at \notin Awaiting
    BY <2>4, IdleFiber DEF Awaiting
  <2>6. SessionRest'
    BY <1>1, <2>1, <2>3, <2>4 DEF SessionInv, SessionRest, Persons, TheSession!Pages
  <2>7. LogoutFits'
    BY <1>1, <2>1, <2>3, <2>4, <2>5 DEF SessionInv, LogoutFits, NoneAwaits, WayInOrOut
  <2>8. FirebaseFits'
    BY <1>1, <2>1, <2>3, <2>4, <2>5 DEF SessionInv, FirebaseFits, Staying, SigningIn
  <2>9. LocalFits'
    BY <1>1, <1>2 DEF LocalFits
  <2> QED
    BY <2>4, <2>6, <2>7, <2>8, <2>9 DEF SessionInv
<1>4. CASE ~ thread[t].again
  <2>1. /\ TheSession!SetThread(t, TheSession!Idle) /\ UNCHANGED <<token, pass, sessionShown, leaving>>
        /\ sessionPast' = [sessionPast EXCEPT !.stuck = @ \/ thread[t].kind = "profile"]
    BY <1>4 DEF TheSession!NoTokenGot
  <2>2. /\ sessionPast' \in [overlap : BOOLEAN, stuck : BOOLEAN, out : BOOLEAN, cut : BOOLEAN]
        /\ sessionPast'.out = sessionPast.out /\ sessionPast'.cut = sessionPast.cut
        /\ sessionPast'.overlap = sessionPast.overlap
        /\ ~ sessionPast'.stuck => ~ sessionPast.stuck /\ thread[t].kind # "profile"
    BY <2>1 DEF SessionInv, SessionRest
  <2>3. TheSession!Idle.kind \notin WayInOrOut
    BY IdleFiber DEF WayInOrOut
  <2>4. /\ FibersFit' /\ thread'[t] = TheSession!Idle
        /\ \A x \in Threads \ {t} : thread'[x] = thread[x]
    BY <1>1, <2>1, <2>3, IdleFiber, FiberGoes DEF SessionInv
  <2>5. /\ thread'[t].kind = "none" /\ thread'[t].at = "none" /\ ~ SigningIn(thread'[t])
        /\ thread'[t].at \notin Awaiting
    BY <2>4, IdleFiber DEF Awaiting
  <2>6. SessionRest'
    BY <1>1, <2>1, <2>2 DEF SessionInv, SessionRest
  <2>7. LogoutFits'
    BY <1>1, <2>1, <2>2, <2>4, <2>5 DEF SessionInv, LogoutFits, NoneAwaits, WayInOrOut
  <2>8. FirebaseFits'
    BY <1>1, <2>1, <2>2, <2>4, <2>5 DEF SessionInv, FirebaseFits, Staying, SigningIn
  <2>9. LocalFits'
    BY <1>1, <1>2 DEF LocalFits
  <2> QED
    BY <2>4, <2>6, <2>7, <2>8, <2>9 DEF SessionInv
<1> QED
  BY <1>3, <1>4

\* The token is stored; a sign-in asks for the profile with it, a refresh sends again.
LEMMA GotSessionKeepsSession ==
    ASSUME SessionInv, NEW t \in Threads, TheSession!GotSession(t)
    PROVE  SessionInv'
<1> DEFINE new == [user |-> thread[t].user, old |-> FALSE]
           r == IF thread[t].kind = "interval" THEN TheSession!Idle
                ELSE TheSession!Sent(thread[t], new)
<1>1. /\ thread[t].at = "session" /\ thread[t] \in Fiber
      /\ session' \in {session, thread[t].user} /\ token' = new /\ pass' = TRUE
      /\ TheSession!SetThread(t, r)
      /\ UNCHANGED <<site, firebase, sessionShown, sessionPage, leaving, sessionPast, sessionFaults,
                     moves>>
  BY DEF TheSession!GotSession, TheSession!Store, SessionInv, FibersFit
<1>2. SendsFit(thread[t]) /\ KindFits(thread[t])
  BY DEF SessionInv, FibersFit
<1>3. site.firebase /\ thread[t].at \in Awaiting
  BY <1>1, <1>2 DEF KindFits, Awaiting
<1>4. new \in [user : Persons, old : BOOLEAN] /\ new.user = thread[t].user
  BY <1>1 DEF Fiber
<1>5. /\ r \in Fiber /\ SendsFit(r) /\ KindFits(r)
      /\ IF thread[t].kind = "interval" THEN r.kind = "none" /\ r.at = "none"
         ELSE /\ r.kind = thread[t].kind /\ r.at = "sent"
              /\ thread[t].user # NoName => r.user = thread[t].user
  <2>1. CASE thread[t].kind = "interval"
    BY <2>1, IdleFiber
  <2>2. CASE thread[t].kind # "interval"
    <3> HIDE DEF new
    <3>1. r = TheSession!Sent(thread[t], new)
      BY <2>2
    <3> HIDE DEF r
    <3>2. /\ r \in Fiber /\ r.kind = thread[t].kind /\ r.at = "sent" /\ r.tries = thread[t].tries
          /\ r.again = thread[t].again /\ r.sends = thread[t].sends + 1
          /\ r.user = IF new.user # NoName THEN new.user ELSE IF site.same THEN session ELSE NoName
      BY <1>1, <1>4, <3>1, SentFiber DEF SessionInv
    <3>3. SendsFit(r)
      <4>1. Allowed(r) = Allowed(thread[t]) /\ thread[t].sends \in Nat /\ Allowed(thread[t]) \in Nat
        BY <1>1, <3>2 DEF Allowed, Fiber, TheSession!MaxRetries
      <4>2. thread[t].sends <= Allowed(thread[t])
        BY <1>2, <1>3 DEF SendsFit
      <4> QED
        BY <3>2, <4>1, <4>2 DEF SendsFit, Awaiting
    <3>4. KindFits(r)
      BY <1>1, <1>2, <1>3, <2>2, <3>2 DEF KindFits, Awaiting
    <3> QED
      BY <1>4, <2>2, <3>2, <3>3, <3>4
  <2> QED
    BY <2>1, <2>2
<1> HIDE DEF r
<1>6. r.kind \in WayInOrOut => thread[t].kind \in WayInOrOut
  BY <1>5 DEF WayInOrOut
<1>7. /\ FibersFit' /\ thread'[t] = r
      /\ \A x \in Threads \ {t} : thread'[x] = thread[x]
  BY <1>1, <1>5, <1>6, FiberGoes DEF SessionInv
<1>8. token'.user = thread[t].user
  BY <1>1, <1>4
<1>9. SessionRest'
  <2>1. thread[t].user \in Persons /\ token' \in [user : Persons, old : BOOLEAN]
    BY <1>1, <1>4 DEF Fiber
  <2> HIDE DEF new
  <2> QED
    BY <1>1, <1>3, <2>1 DEF SessionInv, SessionRest
<1> HIDE DEF new
<1>10. LogoutFits'
  BY <1>1, <1>3, <1>5, <1>7, <1>8 DEF SessionInv, LogoutFits, NoneAwaits, WayInOrOut, Awaiting
<1>11. FirebaseFits'
  BY <1>1, <1>3, <1>5, <1>7, <1>8 DEF SessionInv, FirebaseFits, Staying, SigningIn, Awaiting
<1>12. LocalFits'
  BY <1>1, <1>3 DEF LocalFits
<1> QED
  BY <1>7, <1>9, <1>10, <1>11, <1>12 DEF SessionInv

\* A sign-in: whoever is busy then, but a call's first attempts, overlaps with it.
LEMMA SignInKeepsSession ==
    ASSUME SessionInv, NEW t \in Threads, NEW u \in Accounts, TheSession!SignIn(t, u)
    PROVE  SessionInv'
<1>1. /\ leaving = "no" /\ thread[t].at = "none" /\ u \in Persons /\ u # NoName
      /\ \A x \in Threads : thread[x].kind \notin WayInOrOut
      /\ moves < MaxMoves /\ moves' = moves + 1
      /\ UNCHANGED <<site, token, pass, session, sessionShown, sessionPage, leaving, sessionFaults>>
  BY SessionBounds DEF TheSession!SignIn, TheSession!Busy, TheSession!Move, WayInOrOut, Persons,
        TheSession!SessionAssumption
<1>2. /\ sessionPast' \in [overlap : BOOLEAN, stuck : BOOLEAN, out : BOOLEAN, cut : BOOLEAN]
      /\ sessionPast'.out = FALSE /\ sessionPast'.cut = sessionPast.cut
      /\ sessionPast'.stuck = sessionPast.stuck
      /\ ~ sessionPast'.overlap =>
            /\ ~ sessionPast.overlap
            /\ \A x \in Threads : thread[x].at # "none" => thread[x].kind = "call" /\ ~ thread[x].again
  BY DEF TheSession!SignIn, TheSession!Busy, SessionInv, SessionRest
<1>3. thread[t].kind = "none" /\ thread[t].at \notin Awaiting
  BY <1>1 DEF SessionInv, FibersFit, KindFits, Awaiting
<1>4. ASSUME NEW x \in Threads, ~ sessionPast'.overlap
      PROVE  thread[x].kind \in {"none", "call"} /\ thread[x].at \notin Awaiting
  BY <1>2, <1>4 DEF SessionInv, FibersFit, KindFits, Awaiting
<1>5. LogoutFits' <=> \A x \in Threads : thread'[x].at = "unsession" =>
                          firebase' = NoName /\ (sessionPast'.cut \/ NoneAwaits')
  BY <1>2 DEF LogoutFits
<1>6. \A x \in Threads : thread[x].at # "unsession"
  BY <1>1 DEF SessionInv, FibersFit, KindFits, WayInOrOut
<1>7. CASE site.firebase /\ firebase' = u
  <2> DEFINE r == TheSession!New("login", "token", u)
             q == TheSession!New("profile", "token", u)
  <2>1. /\ r \in Fiber /\ r.kind = "login" /\ r.at = "token" /\ r.tries = 0 /\ r.again = FALSE
        /\ r.sends = 0 /\ r.user = u
        /\ q \in Fiber /\ q.kind = "profile" /\ q.at = "token" /\ q.tries = 0 /\ q.again = FALSE
        /\ q.sends = 0 /\ q.user = u
    <3>1. "login" \in TheSession!Kinds /\ "profile" \in TheSession!Kinds /\ "token" \in TheSession!Points
      BY DEF TheSession!Kinds, TheSession!Points
    <3> QED
      BY <1>1, <3>1, NewFiber
  <2>2. \/ u = firebase /\ TheSession!SetThread(t, r)
        \/ u # firebase /\ \E x \in Threads \ {t} :
              thread[x].at = "none" /\ thread' = [thread EXCEPT ![t] = r, ![x] = q]
    BY <1>7, SessionBounds DEF TheSession!SignIn, TheSession!Busy, SessionInv, SessionRest
  <2> HIDE DEF r, q
  <2>3. SendsFit(r) /\ KindFits(r) /\ SendsFit(q) /\ KindFits(q)
    BY <1>7, <2>1 DEF SendsFit, KindFits, Awaiting, Allowed, TheSession!MaxRetries
  <2>4. SessionRest'
    BY <1>1, <1>2, <1>7, SessionBounds DEF SessionInv, SessionRest, TheSession!SessionAssumption
  <2>5. LocalFits'
    BY <1>1, <1>7 DEF LocalFits
  <2>6. CASE u = firebase /\ TheSession!SetThread(t, r)
    <3>1. /\ FibersFit' /\ thread'[t] = r
          /\ \A x \in Threads \ {t} : thread'[x] = thread[x]
      BY <1>1, <2>1, <2>3, <2>6, FiberGoes DEF SessionInv
    <3>2. LogoutFits'
      BY <1>5, <1>6, <2>1, <3>1
    <3>3. FirebaseFits'
      BY <1>1, <1>2, <1>3, <1>6, <1>7, <2>1, <2>6, <3>1
      DEF SessionInv, FirebaseFits, Staying, SigningIn, Awaiting
    <3> QED
      BY <2>4, <2>5, <3>1, <3>2, <3>3 DEF SessionInv
  <2>7. ASSUME NEW x \in Threads \ {t}, u # firebase, thread[x].at = "none",
               thread' = [thread EXCEPT ![t] = r, ![x] = q]
        PROVE  SessionInv'
    <3>1. /\ thread' \in [Threads -> Fiber] /\ thread'[t] = r /\ thread'[x] = q
          /\ \A y \in Threads \ {t, x} : thread'[y] = thread[y]
      BY <2>1, <2>7 DEF SessionInv, FibersFit
    <3>2. \A y \in Threads : SendsFit(thread'[y]) /\ KindFits(thread'[y])
      BY <2>3, <3>1 DEF SessionInv, FibersFit
    <3>3. \A y \in Threads : SendsFit(thread[y])' /\ KindFits(thread[y])'
      BY <1>1, <3>2 DEF SendsFit, KindFits, Allowed
    <3>4. \A y \in Threads \ {t} : thread'[y].kind \notin WayInOrOut
      BY <1>1, <2>1, <3>1 DEF WayInOrOut
    <3>5. FibersFit'
      BY <3>1, <3>3, <3>4 DEF FibersFit
    <3>6. LogoutFits'
      BY <1>5, <1>6, <2>1, <3>1
    <3>7. FirebaseFits'
      <4> SUFFICES ASSUME ~ sessionPast'.overlap
                   PROVE  FirebaseFits'
        BY DEF FirebaseFits
      <4>1. /\ \A y \in Threads \ {t, x} : ~ SigningIn(thread'[y]) /\ thread'[y].at \notin Awaiting
            /\ thread'[t].at \in Awaiting /\ thread'[x].at \in Awaiting
            /\ thread'[t].user = firebase' /\ thread'[x].user = firebase' /\ firebase' # NoName
        BY <1>1, <1>4, <1>7, <2>1, <3>1 DEF SigningIn, Awaiting
      <4>2. thread'[x].kind = "profile" /\ thread'[t].at = "token" /\ thread'[x].at = "token"
        BY <2>1, <3>1
      <4> QED
        BY <4>1, <4>2 DEF FirebaseFits, SigningIn
    <3> QED
      BY <2>4, <2>5, <3>5, <3>6, <3>7 DEF SessionInv
  <2> QED
    BY <2>2, <2>6, <2>7
<1>8. CASE ~ site.firebase /\ TheSession!SetThread(t, TheSession!New("login", "password", u))
           /\ UNCHANGED firebase
  <2> DEFINE r == TheSession!New("login", "password", u)
  <2>1. /\ r \in Fiber /\ r.kind = "login" /\ r.at = "password" /\ r.tries = 0 /\ r.again = FALSE
        /\ r.sends = 0
    <3>1. "login" \in TheSession!Kinds /\ "password" \in TheSession!Points
      BY DEF TheSession!Kinds, TheSession!Points
    <3> QED
      BY <1>1, <3>1, NewFiber
  <2>2. TheSession!SetThread(t, r)
    BY <1>8
  <2> HIDE DEF r
  <2>3. SendsFit(r) /\ KindFits(r)
    BY <1>8, <2>1 DEF SendsFit, KindFits, Awaiting, Allowed, TheSession!MaxRetries
  <2>4. /\ FibersFit' /\ thread'[t] = r
        /\ \A x \in Threads \ {t} : thread'[x] = thread[x]
    BY <1>1, <2>1, <2>2, <2>3, FiberGoes DEF SessionInv
  <2>5. SessionRest'
    BY <1>1, <1>2, <1>8, SessionBounds DEF SessionInv, SessionRest, TheSession!SessionAssumption
  <2>6. LogoutFits'
    BY <1>5, <1>6, <2>1, <2>4
  <2>7. FirebaseFits'
    BY <1>1, <1>8 DEF FirebaseFits
  <2>8. LocalFits'
    BY <1>1, <1>2, <1>3, <1>4, <1>8, <2>1, <2>4 DEF SessionInv, LocalFits, SigningIn, WayInOrOut
  <2> QED
    BY <2>4, <2>5, <2>6, <2>7, <2>8 DEF SessionInv
<1> QED
  BY <1>7, <1>8 DEF TheSession!SignIn

\* The password of a local account, right or wrong.
LEMMA PasswordKeepsSession ==
    ASSUME SessionInv, NEW t \in Threads, TheSession!Password(t)
    PROVE  SessionInv'
<1>1. /\ thread[t].at = "password" /\ thread[t] \in Fiber /\ thread[t].kind = "login"
      /\ SendsFit(thread[t]) /\ KindFits(thread[t]) /\ ~ site.firebase /\ session = NoName
      /\ UNCHANGED <<site, firebase, session, sessionShown, sessionPage, sessionPast, sessionFaults,
                     moves>>
  BY DEF TheSession!Password, SessionInv, SessionRest, FibersFit, KindFits
<1>2. ~ sessionPast.out
  BY <1>1 DEF SessionInv, LogoutFits, WayInOrOut
<1>3. FirebaseFits'
  BY <1>1 DEF FirebaseFits
<1>4. CASE /\ TheSession!Store(thread[t].user)
           /\ TheSession!SetThread(t, TheSession!Sent(thread[t], token')) /\ UNCHANGED leaving
  <2> DEFINE new == [user |-> thread[t].user, old |-> FALSE]
             r == TheSession!Sent(thread[t], new)
  <2>1. token' = new /\ pass' = TRUE /\ TheSession!SetThread(t, r)
    BY <1>4 DEF TheSession!Store
  <2>2. new \in [user : Persons, old : BOOLEAN] /\ new.user = thread[t].user
    BY <1>1 DEF Fiber
  <2> HIDE DEF new
  <2>3. /\ r \in Fiber /\ r.kind = thread[t].kind /\ r.at = "sent" /\ r.tries = thread[t].tries
        /\ r.again = thread[t].again /\ r.sends = thread[t].sends + 1
        /\ r.user = IF new.user # NoName THEN new.user ELSE IF site.same THEN session ELSE NoName
    BY <1>1, <2>2, SentFiber DEF SessionInv
  <2> HIDE DEF r
  <2>4. r.user \in {token'.user, NoName}
    BY <1>1, <2>1, <2>3
  <2>5. SendsFit(r) /\ KindFits(r)
    BY <1>1, <2>3 DEF SendsFit, KindFits, Awaiting, Allowed, TheSession!MaxRetries
  <2>6. /\ FibersFit' /\ thread'[t] = r
        /\ \A x \in Threads \ {t} : thread'[x] = thread[x]
    BY <1>1, <2>1, <2>3, <2>5, FiberGoes DEF SessionInv
  <2>7. SessionRest'
    BY <1>1, <1>4, <2>1, <2>2 DEF SessionInv, SessionRest
  <2>8. LogoutFits'
    BY <1>1, <1>2, <2>3, <2>6 DEF SessionInv, LogoutFits, NoneAwaits, Awaiting
  <2>9. LocalFits'
    BY <1>1, <2>3, <2>4, <2>6 DEF SessionInv, LocalFits, SigningIn
  <2> QED
    BY <1>3, <2>6, <2>7, <2>8, <2>9 DEF SessionInv
<1>5. CASE /\ TheSession!Clear /\ TheSession!SetThread(t, TheSession!Idle)
           /\ leaving' = IF sessionPage = "dashboard" THEN "login" ELSE leaving
  <2>1. /\ token' = [user |-> NoName, old |-> FALSE] /\ token'.user = NoName /\ pass' = FALSE
        /\ leaving' \in {leaving, "login"}
    BY <1>5 DEF TheSession!Clear, TheSession!NoToken
  <2>2. TheSession!Idle.kind \notin WayInOrOut
    BY IdleFiber DEF WayInOrOut
  <2>3. /\ FibersFit' /\ thread'[t] = TheSession!Idle
        /\ \A x \in Threads \ {t} : thread'[x] = thread[x]
    BY <1>1, <1>5, <2>2, IdleFiber, FiberGoes DEF SessionInv
  <2>4. /\ thread'[t].kind = "none" /\ thread'[t].at = "none" /\ ~ SigningIn(thread'[t])
        /\ thread'[t].at \notin Awaiting
    BY <2>3, IdleFiber DEF Awaiting
  <2>5. SessionRest'
    BY <1>1, <2>1, ZenonT(30) DEF SessionInv, SessionRest, Persons, TheSession!Pages
  <2>6. LogoutFits'
    BY <1>1, <1>2, <2>3, <2>4 DEF SessionInv, LogoutFits, NoneAwaits
  <2>7. LocalFits'
    BY <1>1, <2>1, <2>3, <2>4 DEF SessionInv, LocalFits, SigningIn
  <2> QED
    BY <1>3, <2>3, <2>5, <2>6, <2>7 DEF SessionInv
<1> QED
  BY <1>4, <1>5 DEF TheSession!Password

\* Firebase signs out; the session is ended next.
LEMMA SignedOutKeepsSession ==
    ASSUME SessionInv, NEW t \in Threads, TheSession!SignedOut(t)
    PROVE  SessionInv'
<1> DEFINE r == [thread[t] EXCEPT !.at = "unsession"]
<1>1. /\ thread[t].at = "signout" /\ thread[t] \in Fiber /\ thread[t].kind \in {"logout", "delete"}
      /\ SendsFit(thread[t]) /\ KindFits(thread[t])
      /\ TheSession!SetThread(t, r) /\ firebase' = NoName
      /\ UNCHANGED <<site, session, sessionPage, leaving, sessionFaults, moves>>
  BY DEF TheSession!SignedOut, SessionInv, FibersFit, KindFits
<1>2. /\ r \in Fiber /\ r.kind = thread[t].kind /\ r.at = "unsession" /\ r.tries = thread[t].tries
      /\ r.again = thread[t].again /\ r.sends = thread[t].sends
  BY <1>1 DEF Fiber, TheSession!Points
<1> HIDE DEF r
<1>3. SendsFit(r) /\ KindFits(r)
  BY <1>1, <1>2 DEF SendsFit, KindFits, Awaiting, Allowed
<1>4. /\ FibersFit' /\ thread'[t] = r
      /\ \A x \in Threads \ {t} : thread'[x] = thread[x]
  BY <1>1, <1>2, <1>3, FiberGoes DEF SessionInv
<1>5. /\ token' \in [user : Persons, old : BOOLEAN] /\ pass' \in BOOLEAN
      /\ sessionShown' \in [user : Persons, loading : BOOLEAN]
      /\ ~ site.firebase => UNCHANGED <<token, pass, sessionShown>>
  <2>1. CASE site.firebase
    <3>1. /\ token' = [user |-> NoName, old |-> FALSE] /\ pass' = FALSE
          /\ sessionShown' = [user |-> NoName, loading |-> FALSE]
      BY <2>1 DEF TheSession!SignedOut, TheSession!Clear, TheSession!NoToken, TheSession!Show
    <3>2. NoName \in Persons
      BY DEF Persons
    <3> QED
      BY <2>1, <3>1, <3>2
  <2>2. CASE ~ site.firebase
    BY <2>2 DEF TheSession!SignedOut, SessionInv, SessionRest
  <2> QED
    BY <2>1, <2>2
<1>6. /\ sessionPast' \in [overlap : BOOLEAN, stuck : BOOLEAN, out : BOOLEAN, cut : BOOLEAN]
      /\ sessionPast'.overlap = sessionPast.overlap /\ sessionPast'.stuck = sessionPast.stuck
      /\ sessionPast'.out = sessionPast.out
      /\ ~ sessionPast'.cut => ~ sessionPast.cut /\ NoneAwaits
  BY DEF TheSession!SignedOut, SessionInv, SessionRest, NoneAwaits, Awaiting
<1>7. SessionRest'
  BY <1>1, <1>5, <1>6 DEF SessionInv, SessionRest, Persons
<1>8. LogoutFits'
  <2>1. ~ sessionPast.out
    BY <1>1 DEF SessionInv, LogoutFits, WayInOrOut
  <2>2. NoneAwaits => NoneAwaits'
    BY <1>2, <1>4 DEF NoneAwaits, Awaiting
  <2> QED
    BY <1>1, <1>6, <2>1, <2>2 DEF LogoutFits
<1>9. FirebaseFits'
  BY <1>2, <1>4 DEF FirebaseFits, Staying
<1>10. LocalFits'
  BY <1>1, <1>2, <1>4, <1>5, <1>6 DEF SessionInv, LocalFits, SigningIn
<1> QED
  BY <1>4, <1>7, <1>8, <1>9, <1>10 DEF SessionInv

\* The end of a logout; the front page is loaded next.
LEMMA LoggedOutKeepsSession ==
    ASSUME SessionInv, NEW t \in Threads, TheSession!LoggedOut(t)
    PROVE  SessionInv'
<1>1. /\ thread[t].at = "unsession" /\ thread[t] \in Fiber /\ thread[t].kind \in {"logout", "delete"}
      /\ firebase = NoName /\ (sessionPast.cut \/ NoneAwaits)
      /\ TheSession!SetThread(t, TheSession!Idle) /\ leaving' = "public"
      /\ token' = [user |-> NoName, old |-> FALSE] /\ token'.user = NoName /\ pass' = FALSE
      /\ sessionShown' = [user |-> NoName, loading |-> FALSE] /\ sessionShown'.user = NoName
      /\ UNCHANGED <<site, firebase, sessionPage, moves>>
  BY DEF TheSession!LoggedOut, TheSession!Clear, TheSession!NoToken, TheSession!Show, SessionInv,
        FibersFit, KindFits, LogoutFits
<1>2. TheSession!Idle.kind \notin WayInOrOut
  BY IdleFiber DEF WayInOrOut
<1>3. /\ FibersFit' /\ thread'[t] = TheSession!Idle
      /\ \A x \in Threads \ {t} : thread'[x] = thread[x]
  BY <1>1, <1>2, IdleFiber, FiberGoes DEF SessionInv
<1>4. /\ thread'[t].kind = "none" /\ thread'[t].at = "none" /\ ~ SigningIn(thread'[t])
      /\ thread'[t].at \notin Awaiting
  BY <1>3, IdleFiber DEF Awaiting
<1>5. /\ sessionPast' \in [overlap : BOOLEAN, stuck : BOOLEAN, out : BOOLEAN, cut : BOOLEAN]
      /\ sessionPast'.overlap = sessionPast.overlap /\ sessionPast'.stuck = sessionPast.stuck
      /\ sessionPast.cut => sessionPast'.cut
      /\ session' = NoName \/ (sessionPast'.cut /\ session' = session)
      /\ sessionFaults' \in 0 .. MaxFaults
  <2>1. \/ /\ session' = NoName /\ sessionPast' = [sessionPast EXCEPT !.out = TRUE]
           /\ UNCHANGED sessionFaults
        \/ /\ session' = session /\ sessionPast' = [sessionPast EXCEPT !.out = TRUE, !.cut = TRUE]
           /\ sessionFaults < MaxFaults /\ sessionFaults' = sessionFaults + 1
    BY DEF TheSession!LoggedOut, TheSession!Fault
  <2>2. /\ sessionPast \in [overlap : BOOLEAN, stuck : BOOLEAN, out : BOOLEAN, cut : BOOLEAN]
        /\ sessionFaults \in 0 .. MaxFaults /\ MaxFaults \in Nat
    BY SessionBounds DEF SessionInv, SessionRest, TheSession!SessionAssumption
  <2>3. CASE /\ session' = NoName /\ sessionPast' = [sessionPast EXCEPT !.out = TRUE]
             /\ UNCHANGED sessionFaults
    BY <2>2, <2>3
  <2>4. CASE /\ session' = session /\ sessionPast' = [sessionPast EXCEPT !.out = TRUE, !.cut = TRUE]
             /\ sessionFaults < MaxFaults /\ sessionFaults' = sessionFaults + 1
    <3>1. /\ sessionPast' \in [overlap : BOOLEAN, stuck : BOOLEAN, out : BOOLEAN, cut : BOOLEAN]
          /\ sessionPast'.overlap = sessionPast.overlap /\ sessionPast'.stuck = sessionPast.stuck
          /\ sessionPast'.cut = TRUE
      BY <2>2, <2>4
    <3>2. sessionFaults' \in 0 .. MaxFaults
      BY <2>2, <2>4
    <3> QED
      BY <2>4, <3>1, <3>2
  <2> QED
    BY <2>1, <2>3, <2>4
<1>6. SessionRest'
  BY <1>1, <1>5 DEF SessionInv, SessionRest, Persons, TheSession!Pages
<1>7. LogoutFits'
  <2>1. \A x \in Threads : thread'[x].kind \notin WayInOrOut
    BY <1>1, <1>2, <1>3 DEF SessionInv, FibersFit, WayInOrOut
  <2>2. NoneAwaits => NoneAwaits'
    BY <1>3, <1>4 DEF NoneAwaits
  <2> QED
    BY <1>1, <1>5, <2>1, <2>2, <1>3, <1>4 DEF SessionInv, LogoutFits
<1>8. FirebaseFits'
  BY <1>1 DEF FirebaseFits, Staying
<1>9. LocalFits'
  BY <1>1, <1>3, <1>4, <1>5 DEF SessionInv, LocalFits, SigningIn
<1> QED
  BY <1>3, <1>6, <1>7, <1>8, <1>9 DEF SessionInv

\* A page is loaded: of the threads there were none goes on, and one begins if Firebase
\* knows its user, or the page a token.
LEMMA MountKeepsSession ==
    ASSUME SessionInv, NEW target \in TheSession!Pages, TheSession!Mount(target),
           UNCHANGED <<site, firebase, session, sessionPast, sessionFaults>>,
           moves' \in 0 .. MaxMoves
    PROVE  SessionInv'
<1> DEFINE waits == IF site.firebase THEN firebase # NoName ELSE token.user # NoName
           first == IF site.firebase THEN TheSession!New("profile", "token", firebase)
                    ELSE TheSession!Sent(TheSession!New("profile", "sent", NoName), token)
<1>1. /\ sessionPage' = target /\ leaving' = "no"
      /\ sessionShown' = [user |-> NoName, loading |-> waits]
      /\ IF waits THEN \E t \in Threads :
                         thread' = [x \in Threads |-> IF x = t THEN first ELSE TheSession!Idle]
         ELSE thread' = [x \in Threads |-> TheSession!Idle]
      /\ IF waits THEN token' = token /\ pass' = (pass \/ ~ site.firebase)
         ELSE IF site.firebase THEN TheSession!Clear ELSE UNCHANGED <<token, pass>>
  BY DEF TheSession!Mount
<1>2. /\ first \in Fiber /\ first.kind = "profile" /\ first.tries = 0 /\ first.again = FALSE
      /\ IF site.firebase THEN first.at = "token" /\ first.user = firebase /\ first.sends = 0
         ELSE /\ first.at = "sent" /\ first.sends = 1
              /\ first.user = IF token.user # NoName THEN token.user
                              ELSE IF site.same THEN session ELSE NoName
  <2>1. /\ "profile" \in TheSession!Kinds /\ "token" \in TheSession!Points /\ firebase \in Persons
        /\ SessionRest
    BY DEF TheSession!Kinds, TheSession!Points, SessionInv, SessionRest
  <2>2. CASE site.firebase
    BY <2>1, <2>2, NewFiber
  <2>3. CASE ~ site.firebase
    BY <2>1, <2>3, SentAnew
  <2> QED
    BY <2>2, <2>3
<1>3. waits \in BOOLEAN /\ NoName \in Persons
  BY DEF Persons
<1>4. waits => (site.firebase <=> firebase # NoName)
  BY DEF SessionInv, SessionRest
<1>5. ~ waits => firebase = NoName /\ (~ site.firebase => token.user = NoName)
  BY DEF SessionInv, SessionRest
<1>6. waits /\ ~ site.firebase => token.user # NoName
  OBVIOUS
<1>7. waits /\ site.firebase => firebase # NoName
  OBVIOUS
<1> HIDE DEF waits, first
<1>8. SendsFit(first) /\ KindFits(first)
  BY <1>2 DEF SendsFit, KindFits, Awaiting, Allowed, TheSession!MaxRetries
<1>9. sessionShown'.user = NoName /\ sessionShown' \in [user : Persons, loading : BOOLEAN]
  BY <1>1, <1>3
<1>10. CASE waits
  <2>1. PICK t \in Threads : thread' = [x \in Threads |-> IF x = t THEN first ELSE TheSession!Idle]
    BY <1>1, <1>10
  <2>2. /\ thread' \in [Threads -> Fiber] /\ thread'[t] = first
        /\ \A x \in Threads \ {t} : thread'[x] = TheSession!Idle
    BY <1>2, <2>1, IdleFiber
  <2>3. \A x \in Threads : SendsFit(thread'[x]) /\ KindFits(thread'[x])
    BY <1>8, <2>2, IdleFiber
  <2>4. \A x \in Threads : SendsFit(thread[x])' /\ KindFits(thread[x])'
    BY <2>3 DEF SendsFit, KindFits, Allowed
  <2>5. \A x \in Threads : /\ thread'[x].kind \notin WayInOrOut /\ thread'[x].kind # "login"
                           /\ thread'[x].at # "unsession"
                           /\ x # t => /\ thread'[x].kind = "none" /\ thread'[x].at \notin Awaiting
                                       /\ ~ SigningIn(thread'[x])
    BY <1>2, <2>2, IdleFiber DEF WayInOrOut, Awaiting
  <2>6. FibersFit'
    BY <2>2, <2>4, <2>5 DEF FibersFit
  <2>7. token' = token /\ pass' \in BOOLEAN
    BY <1>1, <1>10 DEF SessionInv, SessionRest
  <2>8. SessionRest'
    BY <1>1, <1>9, <2>7 DEF SessionInv, SessionRest
  <2>9. LogoutFits'
    <3>1. ~ sessionPast.out
      <4> SUFFICES ASSUME sessionPast.out PROVE FALSE
        OBVIOUS
      <4>1. firebase = NoName /\ ~ site.firebase
        BY <1>4, <1>10 DEF SessionInv, LogoutFits
      <4>2. token.user = NoName
        BY <4>1 DEF SessionInv, LogoutFits
      <4> QED
        BY <1>6, <1>10, <4>1, <4>2
    <3> QED
      BY <2>5, <3>1 DEF LogoutFits
  <2>10. FirebaseFits'
    <3> SUFFICES ASSUME site.firebase PROVE FirebaseFits'
      BY DEF FirebaseFits
    <3>1. /\ firebase # NoName /\ thread'[t].user = firebase /\ thread'[t].at = "token"
          /\ thread'[t].kind = "profile" /\ thread'[t].at \in Awaiting
      BY <1>2, <1>7, <1>10, <2>2 DEF Awaiting
    <3> QED
      BY <1>9, <2>5, <3>1 DEF FirebaseFits
  <2>11. LocalFits'
    <3> SUFFICES ASSUME ~ site.firebase PROVE LocalFits'
      BY DEF LocalFits
    <3>1. thread'[t].user = token'.user
      BY <1>2, <1>6, <1>10, <2>2, <2>7
    <3> QED
      BY <1>9, <2>5, <3>1 DEF LocalFits
  <2> QED
    BY <2>6, <2>8, <2>9, <2>10, <2>11 DEF SessionInv
<1>11. CASE ~ waits
  <2>1. thread' = [x \in Threads |-> TheSession!Idle]
    BY <1>1, <1>11
  <2>2. /\ thread' \in [Threads -> Fiber] /\ \A x \in Threads : thread'[x] = TheSession!Idle
    BY <2>1, IdleFiber
  <2>3. \A x \in Threads : SendsFit(thread'[x]) /\ KindFits(thread'[x])
    BY <2>2, IdleFiber
  <2>4. \A x \in Threads : SendsFit(thread[x])' /\ KindFits(thread[x])'
    BY <2>3 DEF SendsFit, KindFits, Allowed
  <2>5. \A x \in Threads : /\ thread'[x].kind = "none" /\ thread'[x].at = "none"
                           /\ thread'[x].kind \notin WayInOrOut
                           /\ thread'[x].at \notin Awaiting /\ ~ SigningIn(thread'[x])
    BY <2>2, IdleFiber DEF WayInOrOut, Awaiting
  <2>6. FibersFit'
    BY <2>2, <2>4, <2>5 DEF FibersFit
  <2>7. /\ token' \in [user : Persons, old : BOOLEAN] /\ token'.user = NoName
        /\ pass' \in BOOLEAN /\ (pass' => pass)
    <3>1. CASE site.firebase
      <4>1. token' = [user |-> NoName, old |-> FALSE] /\ pass' = FALSE
        BY <1>1, <1>11, <3>1 DEF TheSession!Clear, TheSession!NoToken
      <4> QED
        BY <1>3, <4>1
    <3>2. CASE ~ site.firebase
      BY <1>1, <1>5, <1>11, <3>2 DEF SessionInv, SessionRest
    <3> QED
      BY <3>1, <3>2
  <2>8. SessionRest'
    BY <1>1, <1>9, <2>7 DEF SessionInv, SessionRest
  <2>9. LogoutFits'
    <3>1. site.firebase => ~ pass'
      BY <1>1, <1>11 DEF TheSession!Clear
    <3>2. sessionPast.out /\ ~ site.firebase => ~ pass
      BY DEF SessionInv, LogoutFits
    <3>3. NoneAwaits'
      BY <2>5 DEF NoneAwaits
    <3> QED
      BY <1>5, <1>9, <1>11, <2>5, <2>7, <3>1, <3>2, <3>3 DEF SessionInv, LogoutFits
  <2>10. FirebaseFits'
    BY <1>9, <2>5, <2>7 DEF FirebaseFits
  <2>11. LocalFits'
    BY <1>9, <2>5, <2>7 DEF LocalFits
  <2> QED
    BY <2>6, <2>8, <2>9, <2>10, <2>11 DEF SessionInv
<1> QED
  BY <1>10, <1>11

\* The guard turns away, or a token expires; threads go on as they were.
LEMMA PageKeepsSession ==
    ASSUME SessionInv, TheSession!TurnedAway \/ TheSession!Expire \/ UNCHANGED sessionVars
    PROVE  SessionInv'
<1>1. /\ UNCHANGED <<site, firebase, session, sessionShown, leaving, thread, sessionPast, moves>>
      /\ sessionPage' \in TheSession!Pages /\ sessionFaults' \in 0 .. MaxFaults
  BY SessionBounds DEF TheSession!TurnedAway, TheSession!Expire, TheSession!Fault, sessionVars,
        SessionInv, SessionRest, TheSession!Pages, TheSession!SessionAssumption
<1>2. /\ token' \in [user : Persons, old : BOOLEAN] /\ token'.user = token.user
      /\ pass' \in BOOLEAN /\ (pass' => pass)
  <2>1. \/ token' = token \/ token' = [token EXCEPT !.old = TRUE]
    BY DEF TheSession!TurnedAway, TheSession!Expire, sessionVars
  <2>2. pass' = pass \/ pass' = FALSE
    BY DEF TheSession!TurnedAway, TheSession!Expire, sessionVars
  <2>3. token \in [user : Persons, old : BOOLEAN] /\ pass \in BOOLEAN
    BY DEF SessionInv, SessionRest
  <2>4. token' \in [user : Persons, old : BOOLEAN] /\ token'.user = token.user
    BY <2>1, <2>3
  <2>5. pass' \in BOOLEAN /\ (pass' => pass)
    <3>1. CASE pass' = pass
      BY <2>3, <3>1, Zenon
    <3>2. CASE pass' = FALSE
      BY <3>2
    <3> QED
      BY <2>2, <3>1, <3>2
  <2> QED
    BY <2>4, <2>5
<1>3. SessionRest'
  BY <1>1, <1>2 DEF SessionInv, SessionRest
<1>4. FibersFit'
  BY <1>1 DEF SessionInv, FibersFit, SendsFit, KindFits, Allowed
<1>5. LogoutFits'
  BY <1>1, <1>2 DEF SessionInv, LogoutFits, NoneAwaits
<1>6. FirebaseFits' /\ LocalFits'
  BY <1>1, <1>2 DEF SessionInv, FirebaseFits, LocalFits, Staying
<1> QED
  BY <1>3, <1>4, <1>5, <1>6 DEF SessionInv

LEMMA InitSession == ASSUME TheSession!Init PROVE SessionInv
<1>1. /\ thread = [t \in Threads |-> TheSession!Idle] /\ firebase = NoName /\ session = NoName
      /\ token = [user |-> NoName, old |-> FALSE] /\ pass = FALSE
      /\ sessionShown = [user |-> NoName, loading |-> FALSE]
      /\ sessionPage = "public" /\ leaving = "no"
      /\ sessionPast = [overlap |-> FALSE, stuck |-> FALSE, out |-> FALSE, cut |-> FALSE]
      /\ sessionFaults = 0 /\ moves = 0 /\ site \in [firebase : BOOLEAN, same : BOOLEAN]
  BY DEF TheSession!Init, TheSession!NoToken
<1>2. MaxFaults \in Nat /\ MaxMoves \in Nat /\ NoName \in Persons
  BY SessionBounds DEF TheSession!SessionAssumption, Persons
<1>3. SessionRest
  <2>1. /\ token \in [user : Persons, old : BOOLEAN]
        /\ sessionShown \in [user : Persons, loading : BOOLEAN]
    BY <1>1, <1>2
  <2>2. sessionPast \in [overlap : BOOLEAN, stuck : BOOLEAN, out : BOOLEAN, cut : BOOLEAN]
    BY <1>1
  <2>3. sessionPage \in TheSession!Pages /\ leaving \in TheSession!Pages \cup {"no"}
    BY <1>1 DEF TheSession!Pages
  <2>4. sessionFaults \in 0 .. MaxFaults /\ moves \in 0 .. MaxMoves
    BY <1>1, <1>2
  <2> QED
    BY <1>1, <1>2, <2>1, <2>2, <2>3, <2>4 DEF SessionRest
<1>4. \A t \in Threads : thread[t] = TheSession!Idle
  BY <1>1
<1>5. \A t \in Threads : /\ thread[t].kind = "none" /\ thread[t].at = "none"
                         /\ thread[t].kind \notin WayInOrOut /\ thread[t].at \notin Awaiting
                         /\ ~ SigningIn(thread[t])
  BY <1>4, IdleFiber DEF WayInOrOut, Awaiting
<1>6. FibersFit
  BY <1>1, <1>4, <1>5, IdleFiber DEF FibersFit
<1>7. LogoutFits
  BY <1>1, <1>5 DEF LogoutFits
<1>8. FirebaseFits /\ LocalFits
  BY <1>1, <1>5 DEF FirebaseFits, LocalFits
<1> QED
  BY <1>3, <1>6, <1>7, <1>8 DEF SessionInv

LEMMA NextKeepsSession == ASSUME SessionInv, [TheSession!Next]_sessionVars PROVE SessionInv'
<1>1. CASE \E t \in Threads : TheSession!Progress(t)
  BY <1>1, AnsweredKeepsSession, RetryKeepsSession, UnauthorizedKeepsSession, TokenKeepsSession,
     GotSessionKeepsSession, PasswordKeepsSession, SignedOutKeepsSession, LoggedOutKeepsSession
  DEF TheSession!Progress
<1>2. CASE \E t \in Threads :
             \/ TheSession!Call(t) \/ TheSession!Lost(t) \/ TheSession!Interval(t)
             \/ TheSession!NoTokenGot(t) \/ TheSession!Logout(t) \/ TheSession!DeleteAccount(t)
             \/ \E u \in Accounts : TheSession!SignIn(t, u)
  BY <1>2, CallKeepsSession, LostKeepsSession, TokenKeepsSession, NoTokenKeepsSession,
     LeaveKeepsSession, SignInKeepsSession
<1>3. CASE TheSession!Reload \/ \E target \in TheSession!Pages : TheSession!Visit(target)
  <2>1. PICK target \in TheSession!Pages :
           /\ TheSession!Mount(target)
           /\ UNCHANGED <<site, firebase, session, sessionPast, sessionFaults>>
           /\ moves' = moves \/ (moves < MaxMoves /\ moves' = moves + 1)
    <3>1. CASE TheSession!Reload
      <4>1. leaving \in TheSession!Pages
        BY <3>1 DEF TheSession!Reload, SessionInv, SessionRest
      <4> QED
        BY <3>1, <4>1 DEF TheSession!Reload
    <3>2. ASSUME NEW goes \in TheSession!Pages, TheSession!Visit(goes)
          PROVE  \E target \in TheSession!Pages :
                   /\ TheSession!Mount(target)
                   /\ UNCHANGED <<site, firebase, session, sessionPast, sessionFaults>>
                   /\ moves < MaxMoves /\ moves' = moves + 1
      <4> DEFINE loads == IF goes = "dashboard" /\ ~ pass THEN "login" ELSE goes
      <4>1. loads \in TheSession!Pages
        BY DEF TheSession!Pages
      <4>2. /\ TheSession!Mount(loads) /\ moves < MaxMoves /\ moves' = moves + 1
            /\ UNCHANGED <<site, firebase, session, sessionPast, sessionFaults>>
        BY <3>2 DEF TheSession!Visit, TheSession!Move
      <4> HIDE DEF loads
      <4> QED
        BY <4>1, <4>2
    <3> QED
      BY <1>3, <3>1, <3>2
  <2>2. moves' \in 0 .. MaxMoves
    BY <2>1, SessionBounds DEF SessionInv, SessionRest, TheSession!SessionAssumption
  <2> QED
    BY <2>1, <2>2, MountKeepsSession
<1>4. CASE TheSession!TurnedAway \/ TheSession!Expire \/ UNCHANGED sessionVars
  BY <1>4, PageKeepsSession
<1> QED
  BY <1>1, <1>2, <1>3, <1>4 DEF TheSession!Next

\* What the invariant says of a page at rest.
LEMMA SettledSession ==
    ASSUME SessionInv
    PROVE  TheSession!OneAccount /\ TheSession!LogoutSticks /\ TheSession!SendsAreBounded
<1>1. TheSession!Settled => /\ leaving = "no"
                            /\ \A t \in Threads : thread[t].at = "none" /\ thread[t].kind = "none"
  BY DEF TheSession!Settled, TheSession!Busy, SessionInv, FibersFit, KindFits
<1>2. token.user \in Persons
  BY DEF SessionInv, SessionRest
<1>3. TheSession!OneAccount
  <2> SUFFICES ASSUME TheSession!Settled, ~ sessionPast.overlap, ~ sessionPast.stuck
               PROVE  /\ token.user # NoName /\ sessionShown.user # NoName =>
                             token.user = sessionShown.user
                      /\ site.firebase => /\ token.user \in {NoName, firebase}
                                          /\ sessionShown.user \in {NoName, firebase}
    BY DEF TheSession!OneAccount
  <2>1. CASE site.firebase
    BY <1>1, <2>1 DEF SessionInv, FirebaseFits, Staying, Awaiting
  <2>2. CASE ~ site.firebase
    BY <1>1, <2>2 DEF SessionInv, LocalFits
  <2> QED
    BY <2>1, <2>2
<1>4. TheSession!LogoutSticks
  BY <1>1 DEF TheSession!LogoutSticks, SessionInv, LogoutFits
<1>5. TheSession!SendsAreBounded
  <2> SUFFICES ASSUME NEW t \in Threads PROVE thread[t].sends <= 2 * (TheSession!MaxRetries + 1)
    BY DEF TheSession!SendsAreBounded
  <2>1. /\ thread[t].tries \in 0 .. 2 /\ thread[t].sends \in Nat /\ SendsFit(thread[t])
        /\ thread[t].at \in TheSession!Points
    BY DEF SessionInv, FibersFit, Fiber, TheSession!MaxRetries
  <2> QED
    BY <2>1 DEF SendsFit, Allowed, Awaiting, TheSession!MaxRetries, TheSession!Points
<1> QED
  BY <1>3, <1>4, <1>5

\* The token that requests carry and the user on the screen are of one account when
\* nothing is in progress, unless sign-ins overlapped or a token could not be had.
THEOREM SessionIsOneAccounts == Spec => []OneAccount
<1> DEFINE Inv == section = "session" => SessionInv
<1>1. Init => Inv
  BY InitSession DEF Init
<1>2. Inv /\ [Next]_vars => Inv'
  <2> SUFFICES ASSUME Inv, [Next]_vars, section' = "session" PROVE SessionInv'
    OBVIOUS
  <2>1. section = "session" /\ [TheSession!Next]_sessionVars
    BY DEF Next, vars
  <2> QED
    BY <2>1, NextKeepsSession
<1>3. Inv => OneAccount
  BY SettledSession DEF OneAccount
<1> HIDE DEF Inv
<1> QED
  BY <1>1, <1>2, <1>3, PTL DEF Spec

-----------------------------------------------------------------------------
(***************************************************************************)
(* What is left leaves nothing behind: a logout no credentials, a call no  *)
(* request after its attempts, a page with a feed no connection.           *)
(*                                                                         *)
(* Leaving a page closes its first connection only, so that the invariant  *)
(* says that a connection that never ended is the first one (Unbroken),    *)
(* and that one page has one at most.                                      *)
(***************************************************************************)


IsChain(r) ==
    /\ r = [at |-> r.at, first |-> r.first, mine |-> r.mine, fails |-> r.fails, seen |-> r.seen,
            queue |-> r.queue]
    /\ r.first \in BOOLEAN /\ r.mine \in BOOLEAN

\* A connection that has not ended is the first one of the page that is there.
Unbroken(r) == r.at # "none" => r.at \in {"connecting", "open"} /\ r.mine /\ r.first

ConnectionsInv ==
    /\ chain = [c \in Chains |-> chain[c]] /\ feedFaults \in Nat
    /\ \A c \in Chains : IsChain(chain[c])
    /\ feedFaults = 0 => \A c \in Chains : Unbroken(chain[c])
    /\ \A c \in Chains : chain[c].at # "none" /\ chain[c].mine => mounted
    /\ \A c, d \in Chains : chain[c].at # "none" /\ chain[c].mine /\ chain[d].at # "none"
                            /\ chain[d].mine => c = d

LEMMA ChainOf ==
    ASSUME NEW a, NEW b \in BOOLEAN, NEW m \in BOOLEAN, NEW n, NEW s, NEW q
    PROVE  LET r == [at |-> a, first |-> b, mine |-> m, fails |-> n, seen |-> s, queue |-> q]
           IN  IsChain(r) /\ r.at = a /\ r.first = b /\ r.mine = m
  BY DEF IsChain

\* What is written to a connection leaves one.
LEMMA ChainOpens ==
    ASSUME NEW r, IsChain(r), NEW a, NEW n, NEW s, NEW q
    PROVE  [r EXCEPT !.at = a, !.fails = n, !.seen = s, !.queue = q] =
                  [at |-> a, first |-> r.first, mine |-> r.mine, fails |-> n, seen |-> s, queue |-> q]
<1>1. PICK a1, f1, m1, n1, s1, q1 : r = [at |-> a1, first |-> f1, mine |-> m1, fails |-> n1,
                                       seen |-> s1, queue |-> q1]
  BY DEF IsChain
<1> DEFINE w1 == [r EXCEPT !.at = a]
           w2 == [w1 EXCEPT !.fails = n]
           w3 == [w2 EXCEPT !.seen = s]
           w4 == [w3 EXCEPT !.queue = q]
<1>2. w1 = [at |-> a, first |-> f1, mine |-> m1, fails |-> n1, seen |-> s1,
          queue |-> q1]
  BY <1>1
<1> HIDE DEF w1
<1>3. w2 = [at |-> a, first |-> f1, mine |-> m1, fails |-> n, seen |-> s1,
          queue |-> q1]
  BY <1>2
<1> HIDE DEF w2
<1>4. w3 = [at |-> a, first |-> f1, mine |-> m1, fails |-> n, seen |-> s,
          queue |-> q1]
  BY <1>3
<1> HIDE DEF w3
<1>5. w4 = [at |-> a, first |-> f1, mine |-> m1, fails |-> n, seen |-> s,
          queue |-> q]
  BY <1>4
<1> HIDE DEF w4
<1>6. [r EXCEPT !.at = a, !.fails = n, !.seen = s, !.queue = q] = w4
  BY <1>1 DEF w1, w2, w3, w4
<1> QED
  BY <1>1, <1>5, <1>6

LEMMA ChainWaits ==
    ASSUME NEW r, IsChain(r), NEW a, NEW n, NEW q
    PROVE  [r EXCEPT !.at = a, !.fails = n, !.queue = q] =
                  [at |-> a, first |-> r.first, mine |-> r.mine, fails |-> n, seen |-> r.seen, queue |-> q]
<1>1. PICK a1, f1, m1, n1, s1, q1 : r = [at |-> a1, first |-> f1, mine |-> m1, fails |-> n1,
                                       seen |-> s1, queue |-> q1]
  BY DEF IsChain
<1> DEFINE w1 == [r EXCEPT !.at = a]
           w2 == [w1 EXCEPT !.fails = n]
           w3 == [w2 EXCEPT !.queue = q]
<1>2. w1 = [at |-> a, first |-> f1, mine |-> m1, fails |-> n1, seen |-> s1,
          queue |-> q1]
  BY <1>1
<1> HIDE DEF w1
<1>3. w2 = [at |-> a, first |-> f1, mine |-> m1, fails |-> n, seen |-> s1,
          queue |-> q1]
  BY <1>2
<1> HIDE DEF w2
<1>4. w3 = [at |-> a, first |-> f1, mine |-> m1, fails |-> n, seen |-> s1,
          queue |-> q]
  BY <1>3
<1> HIDE DEF w3
<1>5. [r EXCEPT !.at = a, !.fails = n, !.queue = q] = w3
  BY <1>1 DEF w1, w2, w3
<1> QED
  BY <1>1, <1>4, <1>5

LEMMA ChainTells ==
    ASSUME NEW r, IsChain(r), NEW a, NEW q
    PROVE  [r EXCEPT !.at = a, !.queue = q] =
                  [at |-> a, first |-> r.first, mine |-> r.mine, fails |-> r.fails, seen |-> r.seen,
                   queue |-> q]
<1>1. PICK a1, f1, m1, n1, s1, q1 : r = [at |-> a1, first |-> f1, mine |-> m1, fails |-> n1,
                                       seen |-> s1, queue |-> q1]
  BY DEF IsChain
<1> DEFINE w1 == [r EXCEPT !.at = a]
           w2 == [w1 EXCEPT !.queue = q]
<1>2. w1 = [at |-> a, first |-> f1, mine |-> m1, fails |-> n1, seen |-> s1, queue |-> q1]
  BY <1>1
<1> HIDE DEF w1
<1>3. w2 = [at |-> a, first |-> f1, mine |-> m1, fails |-> n1, seen |-> s1, queue |-> q]
  BY <1>2
<1> HIDE DEF w2
<1>4. [r EXCEPT !.at = a, !.queue = q] = w2
  BY <1>1 DEF w1, w2
<1> QED
  BY <1>1, <1>3, <1>4

LEMMA ChainFollows ==
    ASSUME NEW r, IsChain(r), NEW a, NEW b
    PROVE  [r EXCEPT !.at = a, !.first = b] =
                  [at |-> a, first |-> b, mine |-> r.mine, fails |-> r.fails, seen |-> r.seen,
                   queue |-> r.queue]
<1>1. PICK a1, f1, m1, n1, s1, q1 : r = [at |-> a1, first |-> f1, mine |-> m1, fails |-> n1,
                                       seen |-> s1, queue |-> q1]
  BY DEF IsChain
<1> DEFINE w1 == [r EXCEPT !.at = a]
           w2 == [w1 EXCEPT !.first = b]
<1>2. w1 = [at |-> a, first |-> f1, mine |-> m1, fails |-> n1, seen |-> s1,
          queue |-> q1]
  BY <1>1
<1> HIDE DEF w1
<1>3. w2 = [at |-> a, first |-> b, mine |-> m1, fails |-> n1, seen |-> s1,
          queue |-> q1]
  BY <1>2
<1> HIDE DEF w2
<1>4. [r EXCEPT !.at = a, !.first = b] = w2
  BY <1>1 DEF w1, w2
<1> QED
  BY <1>1, <1>3, <1>4

LEMMA ChainReads ==
    ASSUME NEW r, IsChain(r), NEW q, NEW s
    PROVE  [r EXCEPT !.queue = q, !.seen = s] =
                  [at |-> r.at, first |-> r.first, mine |-> r.mine, fails |-> r.fails, seen |-> s,
                   queue |-> q]
<1>1. PICK a1, f1, m1, n1, s1, q1 : r = [at |-> a1, first |-> f1, mine |-> m1, fails |-> n1,
                                       seen |-> s1, queue |-> q1]
  BY DEF IsChain
<1> DEFINE w1 == [r EXCEPT !.queue = q]
           w2 == [w1 EXCEPT !.seen = s]
<1>2. w1 = [at |-> a1, first |-> f1, mine |-> m1, fails |-> n1, seen |-> s1,
          queue |-> q]
  BY <1>1
<1> HIDE DEF w1
<1>3. w2 = [at |-> a1, first |-> f1, mine |-> m1, fails |-> n1, seen |-> s,
          queue |-> q]
  BY <1>2
<1> HIDE DEF w2
<1>4. [r EXCEPT !.queue = q, !.seen = s] = w2
  BY <1>1 DEF w1, w2
<1> QED
  BY <1>1, <1>3, <1>4

LEMMA ChainStarts ==
    ASSUME NEW r, IsChain(r), NEW a, NEW b, NEW m
    PROVE  [r EXCEPT !.at = a, !.first = b, !.mine = m] =
                  [at |-> a, first |-> b, mine |-> m, fails |-> r.fails, seen |-> r.seen,
                   queue |-> r.queue]
<1>1. PICK a1, f1, m1, n1, s1, q1 : r = [at |-> a1, first |-> f1, mine |-> m1, fails |-> n1,
                                       seen |-> s1, queue |-> q1]
  BY DEF IsChain
<1> DEFINE w1 == [r EXCEPT !.at = a]
           w2 == [w1 EXCEPT !.first = b]
           w3 == [w2 EXCEPT !.mine = m]
<1>2. w1 = [at |-> a, first |-> f1, mine |-> m1, fails |-> n1, seen |-> s1, queue |-> q1]
  BY <1>1
<1> HIDE DEF w1
<1>3. w2 = [at |-> a, first |-> b, mine |-> m1, fails |-> n1, seen |-> s1, queue |-> q1]
  BY <1>2
<1> HIDE DEF w2
<1>4. w3 = [at |-> a, first |-> b, mine |-> m, fails |-> n1, seen |-> s1, queue |-> q1]
  BY <1>3
<1> HIDE DEF w3
<1>5. [r EXCEPT !.at = a, !.first = b, !.mine = m] = w3
  BY <1>1 DEF w1, w2, w3
<1> QED
  BY <1>1, <1>4, <1>5

LEMMA ChainIsLeft ==
    ASSUME NEW r, IsChain(r), NEW b
    PROVE  [r EXCEPT !.mine = b] =
                  [at |-> r.at, first |-> r.first, mine |-> b, fails |-> r.fails, seen |-> r.seen,
                   queue |-> r.queue]
<1>1. PICK a1, f1, m1, n1, s1, q1 : r = [at |-> a1, first |-> f1, mine |-> m1, fails |-> n1,
                                       seen |-> s1, queue |-> q1]
  BY DEF IsChain
<1>2. [r EXCEPT !.mine = b] =
                  [at |-> a1, first |-> f1, mine |-> b, fails |-> n1, seen |-> s1,
                   queue |-> q1]
  BY <1>1
<1> QED
  BY <1>1, <1>2

LEMMA NoChainThere ==
    /\ IsChain(TheActivityFeed!NoChain) /\ TheActivityFeed!NoChain.at = "none"
    /\ Unbroken(TheActivityFeed!NoChain)
  BY DEF TheActivityFeed!NoChain, IsChain, Unbroken

LEMMA InitConnections == ASSUME TheActivityFeed!Init PROVE ConnectionsInv
<1>1. chain = [c \in Chains |-> TheActivityFeed!NoChain] /\ feedFaults = 0
  BY DEF TheActivityFeed!Init
<1>2. \A c \in Chains : chain[c] = TheActivityFeed!NoChain
  BY <1>1
<1>3. chain = [c \in Chains |-> chain[c]]
  BY <1>1
<1> QED
  BY <1>1, <1>2, <1>3, NoChainThere DEF ConnectionsInv

\* A connection of the page goes on or ends.
LEMMA ChainGoes ==
    ASSUME ConnectionsInv, NEW c \in Chains, NEW new, IsChain(new), chain' = [chain EXCEPT ![c] = new],
           UNCHANGED mounted, chain[c].at # "none",
           new.at # "none" /\ new.mine => chain[c].mine,
           feedFaults' \in Nat, feedFaults' = 0 => feedFaults = 0 /\ Unbroken(new)
    PROVE  ConnectionsInv'
<1>1. /\ chain' = [d \in Chains |-> chain'[d]] /\ chain'[c] = new
      /\ \A d \in Chains \ {c} : chain'[d] = chain[d]
  BY DEF ConnectionsInv
<1>2. \A d \in Chains : IsChain(chain'[d])
  BY <1>1 DEF ConnectionsInv
<1>3. \A d \in Chains : chain'[d].at # "none" /\ chain'[d].mine => chain[d].at # "none" /\ chain[d].mine
  BY <1>1
<1>4. feedFaults' = 0 => \A d \in Chains : Unbroken(chain'[d])
  BY <1>1 DEF ConnectionsInv
<1> QED
  BY <1>1, <1>2, <1>3, <1>4 DEF ConnectionsInv

LEMMA ConnectionKeepsFeed ==
    ASSUME ConnectionsInv, NEW c \in Chains,
           \/ TheActivityFeed!Open(c) \/ TheActivityFeed!End(c) \/ TheActivityFeed!Done(c)
           \/ TheActivityFeed!Reconnect(c) \/ TheActivityFeed!pushEvent(c)
           \/ TheActivityFeed!activity_stream(c) \/ TheActivityFeed!LastEvent(c)
    PROVE  ConnectionsInv'
<1>1. /\ chain = [d \in Chains |-> chain[d]] /\ IsChain(chain[c]) /\ feedFaults \in Nat
      /\ feedFaults = 0 => Unbroken(chain[c])
  BY DEF ConnectionsInv
<1>2. UNCHANGED mounted
  BY DEF TheActivityFeed!Open, TheActivityFeed!End, TheActivityFeed!Done, TheActivityFeed!Reconnect,
         TheActivityFeed!pushEvent, TheActivityFeed!activity_stream, TheActivityFeed!LastEvent
<1>3. CASE TheActivityFeed!Open(c)
  <2> DEFINE zero == 0
             empty == <<>>
  <2>1. PICK t : /\ chain[c].at = "connecting" /\ UNCHANGED feedFaults
                 /\ chain' = [chain EXCEPT ![c].at = "open", ![c].fails = zero, ![c].seen = t,
                                           ![c].queue = empty]
    BY <1>3 DEF TheActivityFeed!Open
  <2> DEFINE new == [chain[c] EXCEPT !.at = "open", !.fails = zero, !.seen = t, !.queue = empty]
  <2> HIDE DEF zero, empty
  <2>2. chain' = [chain EXCEPT ![c] = new]
    BY <1>1, <2>1
  <2>3. IsChain(new) /\ new.at = "open" /\ new.mine = chain[c].mine /\ new.first = chain[c].first
    <3>1. new = [at |-> "open", first |-> chain[c].first, mine |-> chain[c].mine, fails |-> zero,
                 seen |-> t, queue |-> empty]
      <4> DEFINE r == chain[c]
      <4>1. IsChain(r)
        BY <1>1
      <4> HIDE DEF r
      <4>2. \A x, n, v, q : [r EXCEPT !.at = x, !.fails = n, !.seen = v, !.queue = q] =
                  [at |-> x, first |-> r.first, mine |-> r.mine, fails |-> n, seen |-> v, queue |-> q]
        BY <4>1, ChainOpens
      <4>3. \A n, v, q : [r EXCEPT !.at = "open", !.fails = n, !.seen = v, !.queue = q] =
                  [at |-> "open", first |-> r.first, mine |-> r.mine, fails |-> n, seen |-> v,
                   queue |-> q]
        BY ONLY <4>2, ZenonT(30)
      <4>4. [r EXCEPT !.at = "open", !.fails = zero, !.seen = t, !.queue = empty] =
                  [at |-> "open", first |-> r.first, mine |-> r.mine, fails |-> zero, seen |-> t,
                   queue |-> empty]
        BY ONLY <4>3, ZenonT(30)
      <4> QED
        BY <4>4 DEF r
    <3> HIDE DEF new
    <3> QED
      BY <1>1, <3>1, ChainOf DEF IsChain
  <2> HIDE DEF new
  <2>4. Unbroken(chain[c]) => Unbroken(new)
    BY <2>1, <2>3 DEF Unbroken
  <2> QED
    BY <1>1, <1>2, <2>1, <2>2, <2>3, <2>4, ChainGoes
<1>4. CASE TheActivityFeed!End(c) \/ TheActivityFeed!Done(c)
  <2>1. /\ chain[c].at # "none" /\ feedFaults' \in {feedFaults, feedFaults + 1}
        /\ feedFaults' = feedFaults => chain[c].at = "over"
        /\ chain' = [chain EXCEPT ![c] = TheActivityFeed!Ended(c)]
    BY <1>1, <1>4 DEF TheActivityFeed!End, TheActivityFeed!Done, TheActivityFeed!Streams
  <2> DEFINE n == chain[c].fails + 1
             waits == [chain[c] EXCEPT !.at = "waiting", !.fails = n, !.queue = <<>>]
  <2>2. TheActivityFeed!Ended(c) \in {TheActivityFeed!NoChain, waits}
    BY DEF TheActivityFeed!Ended
  <2> HIDE DEF n
  <2>3. IsChain(waits) /\ waits.mine = chain[c].mine
    <3>1. waits = [at |-> "waiting", first |-> chain[c].first, mine |-> chain[c].mine, fails |-> n,
                   seen |-> chain[c].seen, queue |-> <<>>]
      BY <1>1, ChainWaits
    <3> HIDE DEF waits
    <3> QED
      BY <1>1, <3>1, ChainOf DEF IsChain
  <2> HIDE DEF waits
  <2>4. PICK new \in {TheActivityFeed!NoChain, waits} : chain' = [chain EXCEPT ![c] = new]
    BY <2>1, <2>2
  <2>5. IsChain(new) /\ (new.at # "none" => new.mine = chain[c].mine)
    BY <2>3, <2>4, NoChainThere
  <2>6. feedFaults' \in Nat /\ feedFaults' # 0
    <3>1. CASE feedFaults' = feedFaults
      BY <1>1, <2>1, <3>1 DEF Unbroken
    <3>2. CASE feedFaults' = feedFaults + 1
      BY <1>1, <3>2
    <3> QED
      BY <2>1, <3>1, <3>2
  <2> QED
    BY <1>2, <2>1, <2>4, <2>5, <2>6, ChainGoes
<1>5. CASE TheActivityFeed!Reconnect(c)
  <2> DEFINE new == [chain[c] EXCEPT !.at = "connecting", !.first = FALSE]
  <2>1. chain[c].at = "waiting" /\ UNCHANGED feedFaults
        /\ chain' = [chain EXCEPT ![c].at = "connecting", ![c].first = FALSE]
    BY <1>5 DEF TheActivityFeed!Reconnect
  <2>2. chain' = [chain EXCEPT ![c] = new]
    BY <1>1, <2>1
  <2>3. IsChain(new) /\ new.mine = chain[c].mine
    <3>1. new = [at |-> "connecting", first |-> FALSE, mine |-> chain[c].mine,
                 fails |-> chain[c].fails, seen |-> chain[c].seen, queue |-> chain[c].queue]
      BY <1>1, ChainFollows
    <3> HIDE DEF new
    <3> QED
      BY <1>1, <3>1, ChainOf DEF IsChain
  <2> HIDE DEF new
  <2>4. feedFaults' # 0
    BY <1>1, <2>1 DEF Unbroken
  <2> QED
    BY <1>1, <1>2, <2>1, <2>2, <2>3, <2>4, ChainGoes
<1>6. ASSUME NEW seen1, NEW queue1, chain[c].at # "none", UNCHANGED feedFaults,
             chain' = [chain EXCEPT ![c].queue = queue1, ![c].seen = seen1]
      PROVE  ConnectionsInv'
  <2> DEFINE new == [chain[c] EXCEPT !.queue = queue1, !.seen = seen1]
  <2>1. chain' = [chain EXCEPT ![c] = new]
    BY <1>1, <1>6
  <2>2. IsChain(new) /\ new.at = chain[c].at /\ new.mine = chain[c].mine /\ new.first = chain[c].first
    <3>1. new = [at |-> chain[c].at, first |-> chain[c].first, mine |-> chain[c].mine,
                 fails |-> chain[c].fails, seen |-> seen1, queue |-> queue1]
      BY <1>1, ChainReads
    <3> HIDE DEF new
    <3> QED
      BY <1>1, <1>6, <3>1, ChainOf DEF IsChain
  <2> HIDE DEF new
  <2>3. Unbroken(chain[c]) => Unbroken(new)
    BY <1>6, <2>2 DEF Unbroken
  <2> QED
    BY <1>1, <1>2, <1>6, <2>1, <2>2, <2>3, ChainGoes
<1>7. CASE TheActivityFeed!pushEvent(c)
  <2> DEFINE rest == Tail(chain[c].queue)
             seen1 == chain[c].seen
  <2>1. /\ chain[c].at # "none" /\ UNCHANGED feedFaults
        /\ chain' = [chain EXCEPT ![c].queue = rest]
    BY <1>7 DEF TheActivityFeed!pushEvent
  <2> HIDE DEF rest
  <2>2. chain' = [chain EXCEPT ![c].queue = rest, ![c].seen = seen1]
    BY <1>1, <2>1 DEF IsChain
  <2> HIDE DEF seen1
  <2> QED
    BY <1>6, <2>1, <2>2
<1>8. CASE TheActivityFeed!activity_stream(c)
  <2> DEFINE more == chain[c].queue \o TheActivityFeed!News(c)
  <2>1. /\ chain[c].at # "none" /\ UNCHANGED feedFaults
        /\ chain' = [chain EXCEPT ![c].queue = more, ![c].seen = created]
    BY <1>8 DEF TheActivityFeed!activity_stream
  <2> HIDE DEF more
  <2> QED
    BY <1>6, <2>1
<1>9. CASE TheActivityFeed!LastEvent(c)
  <2> DEFINE more == Append(chain[c].queue, TheActivityFeed!Farewell)
  <2>1. /\ chain[c].at = "open" /\ feedFaults' = feedFaults + 1
        /\ chain' = [chain EXCEPT ![c].at = "over", ![c].queue = more]
    BY <1>9 DEF TheActivityFeed!LastEvent
  <2> HIDE DEF more
  <2> DEFINE new == [chain[c] EXCEPT !.at = "over", !.queue = more]
  <2>2. chain' = [chain EXCEPT ![c] = new]
    BY <1>1, <2>1
  <2>3. IsChain(new) /\ new.mine = chain[c].mine
    <3>1. new = [at |-> "over", first |-> chain[c].first, mine |-> chain[c].mine,
                 fails |-> chain[c].fails, seen |-> chain[c].seen, queue |-> more]
      BY <1>1, ChainTells
    <3> HIDE DEF new
    <3> QED
      BY <1>1, <3>1, ChainOf DEF IsChain
  <2> HIDE DEF new
  <2>4. feedFaults' \in Nat /\ feedFaults' # 0
    BY <1>1, <2>1
  <2> QED
    BY <1>2, <2>1, <2>2, <2>3, <2>4, ChainGoes
<1> QED
  BY <1>3, <1>4, <1>5, <1>7, <1>8, <1>9

LEMMA MountKeepsFeed ==
    ASSUME ConnectionsInv, NEW c \in Chains, TheActivityFeed!Mount(c)
    PROVE  ConnectionsInv'
<1> DEFINE new == [TheActivityFeed!NoChain EXCEPT !.at = "connecting", !.first = TRUE, !.mine = TRUE]
<1>1. /\ ~ mounted /\ mounted' = TRUE /\ chain' = [chain EXCEPT ![c] = new] /\ UNCHANGED feedFaults
  BY DEF TheActivityFeed!Mount
<1>2. IsChain(new) /\ Unbroken(new)
  <2>1. new = [at |-> "connecting", first |-> TRUE, mine |-> TRUE,
               fails |-> TheActivityFeed!NoChain.fails, seen |-> TheActivityFeed!NoChain.seen,
               queue |-> TheActivityFeed!NoChain.queue]
    <3> DEFINE r == TheActivityFeed!NoChain
    <3>1. IsChain(r)
      BY NoChainThere
    <3> HIDE DEF r
    <3>2. \A a, b, m : [r EXCEPT !.at = a, !.first = b, !.mine = m] =
                  [at |-> a, first |-> b, mine |-> m, fails |-> r.fails, seen |-> r.seen,
                   queue |-> r.queue]
      BY <3>1, ChainStarts
    <3>3. [r EXCEPT !.at = "connecting", !.first = TRUE, !.mine = TRUE] =
                  [at |-> "connecting", first |-> TRUE, mine |-> TRUE, fails |-> r.fails,
                   seen |-> r.seen, queue |-> r.queue]
      BY ONLY <3>2, ZenonT(30)
    <3> QED
      BY ONLY <3>3 DEF r
  <2> HIDE DEF new
  <2> QED
    BY <2>1, ChainOf DEF Unbroken
<1> HIDE DEF new
<1>3. /\ chain' = [d \in Chains |-> chain'[d]] /\ chain'[c] = new
      /\ \A d \in Chains \ {c} : chain'[d] = chain[d]
  BY <1>1 DEF ConnectionsInv
<1>4. \A d \in Chains \ {c} : ~ (chain'[d].at # "none" /\ chain'[d].mine)
  BY <1>1, <1>3 DEF ConnectionsInv
<1> QED
  BY <1>1, <1>2, <1>3, <1>4 DEF ConnectionsInv

\* Leaving takes the page's claim on every connection.
LEMMA LeaveKeepsFeed ==
    ASSUME ConnectionsInv, TheActivityFeed!Unmount \/ TheActivityFeed!Reload
    PROVE  ConnectionsInv'
<1>1. /\ UNCHANGED feedFaults
      /\ \/ chain' = [c \in Chains |-> TheActivityFeed!Left(c)]
         \/ chain' = [c \in Chains |-> TheActivityFeed!NoChain]
  BY DEF TheActivityFeed!Unmount, TheActivityFeed!Reload
<1>2. ASSUME NEW c \in Chains
      PROVE  /\ IsChain(TheActivityFeed!Left(c))
             /\ feedFaults = 0 => TheActivityFeed!Left(c).at = "none"
             /\ TheActivityFeed!Left(c).at = "none" \/ ~ TheActivityFeed!Left(c).mine
  <2>1. IsChain(chain[c]) /\ (feedFaults = 0 => Unbroken(chain[c]))
    BY DEF ConnectionsInv
  <2> DEFINE given == [chain[c] EXCEPT !.mine = FALSE]
  <2>2. IsChain(given) /\ given.mine = FALSE /\ given.at = chain[c].at
    <3>1. given = [at |-> chain[c].at, first |-> chain[c].first, mine |-> FALSE,
                   fails |-> chain[c].fails, seen |-> chain[c].seen, queue |-> chain[c].queue]
      BY <2>1, ChainIsLeft
    <3> HIDE DEF given
    <3> QED
      BY <2>1, <3>1, ChainOf DEF IsChain
  <2>3. \/ TheActivityFeed!Left(c) = TheActivityFeed!NoChain
        \/ /\ TheActivityFeed!Left(c) = given
           /\ ~ (chain[c].mine /\ chain[c].first /\ chain[c].at \in {"connecting", "open"})
    BY DEF TheActivityFeed!Left, TheActivityFeed!Streams
  <2> HIDE DEF given
  <2> QED
    BY <2>1, <2>2, <2>3, NoChainThere DEF Unbroken
<1>3. \A c \in Chains : /\ IsChain(chain'[c]) /\ (feedFaults = 0 => chain'[c].at = "none")
                        /\ chain'[c].at = "none" \/ ~ chain'[c].mine
  BY <1>1, <1>2, NoChainThere
<1>4. chain' = [c \in Chains |-> chain'[c]]
  BY <1>1
<1> QED
  BY <1>1, <1>3, <1>4 DEF ConnectionsInv, Unbroken

LEMMA NextKeepsConnections == ASSUME ConnectionsInv, [TheActivityFeed!Next]_feedVars PROVE ConnectionsInv'
<1>1. CASE TheActivityFeed!Tick \/ TheActivityFeed!Work \/ TheActivityFeed!Age \/ UNCHANGED feedVars
  <2>1. UNCHANGED <<chain, mounted, feedFaults>>
    BY <1>1 DEF TheActivityFeed!Tick, TheActivityFeed!Work, TheActivityFeed!Age, feedVars
  <2> QED
    BY <2>1 DEF ConnectionsInv
<1> QED
  BY <1>1, MountKeepsFeed, ConnectionKeepsFeed, LeaveKeepsFeed DEF TheActivityFeed!Next

LEMMA LeftFeed == ASSUME ConnectionsInv PROVE TheActivityFeed!LeftIsClosed
<1> DEFINE L == {c \in Chains : TheActivityFeed!Live(c) /\ chain[c].mine}
<1>1. ~ mounted /\ feedFaults = 0 => \A c \in Chains : ~ TheActivityFeed!Live(c)
  BY DEF ConnectionsInv, Unbroken, TheActivityFeed!Live
<1>2. \A c, d \in L : c = d
  BY DEF ConnectionsInv, TheActivityFeed!Live
<1>3. TheActivityFeed!Cardinality(L) = Cardinality(L)
  BY DEF TheActivityFeed!Cardinality, Cardinality
<1>4. L = {} \/ \E c : L = {c}
  BY <1>2
<1> HIDE DEF L
<1>5. Cardinality(L) <= 1
  <2>1. CASE L = {}
    BY <2>1, FS_EmptySet
  <2>2. CASE \E c : L = {c}
    BY <2>2, FS_Singleton
  <2> QED
    BY <1>4, <2>1, <2>2
<1> QED
  BY <1>1, <1>3, <1>5 DEF TheActivityFeed!LeftIsClosed, L

\* A logout leaves no credentials in the browser and a call that keeps failing nothing
\* after its sixth attempt; a page with a feed leaves no connection and no timer if none
\* of its connections had ended, and has one stream at most.
THEOREM NothingIsLeft == Spec => []LeavesNothing
<1> DEFINE Inv == (section = "session" => SessionInv) /\ (section = "feed" => ConnectionsInv)
<1>1. Init => Inv
  BY InitSession, InitConnections DEF Init
<1>2. Inv /\ [Next]_vars => Inv'
  <2> SUFFICES ASSUME Inv, [Next]_vars PROVE Inv'
    OBVIOUS
  <2>1. ASSUME section' = "session" PROVE SessionInv'
    <3>1. section = "session" /\ [TheSession!Next]_sessionVars
      BY <2>1 DEF Next, vars
    <3> QED
      BY <3>1, NextKeepsSession
  <2>2. ASSUME section' = "feed" PROVE ConnectionsInv'
    <3>1. section = "feed" /\ [TheActivityFeed!Next]_feedVars
      BY <2>2 DEF Next, vars
    <3> QED
      BY <3>1, NextKeepsConnections
  <2> QED
    BY <2>1, <2>2
<1>3. Inv => LeavesNothing
  BY SettledSession, LeftFeed DEF LeavesNothing
<1> HIDE DEF Inv
<1> QED
  BY <1>1, <1>2, <1>3, PTL DEF Spec

-----------------------------------------------------------------------------
(***************************************************************************)
(* The feed of activity.  No event of a task is in the feed twice, a page  *)
(* that was left has no connection of its own, and the feed of one that is *)
(* there has the events of the last day that are stored.  With its types:  *)
(* an event told is of a task there is, or the last one of a stream.       *)
(***************************************************************************)

Event == [task : 1 .. Newest, type : {"task_created", "task_completed"}] \cup {TheActivityFeed!Farewell}

Once(s) == \A i, j \in 1 .. Len(s) : s[i] = s[j] /\ s[i].task # 0 => i = j

\* The events of the last day.
Dated(s) == {e \in TheActivityFeed!ToSet(s) : TheActivityFeed!Recent(e)}

EventQueue == Seq(Event)

Line == [at : {"none", "connecting", "open", "over", "waiting"}, first : BOOLEAN, mine : BOOLEAN,
         fails : 0 .. MaxFailures, seen : 0 .. Newest, queue : EventQueue]

FeedTyped ==
    /\ events \in EventQueue /\ stored \in EventQueue
    /\ chain \in [Chains -> Line]
    /\ mounted \in BOOLEAN /\ created \in 0 .. Newest /\ aged \in 0 .. created

FeedInv ==
    /\ FeedTyped
    /\ Once(events) /\ Once(stored)
    /\ mounted /\ who = "feed" => Dated(events) = Dated(stored)
    /\ ~ mounted => events = <<>> /\ \A c \in Chains : ~ chain[c].mine

LEMMA FeedNumbers ==
    ASSUME TheActivityFeed!FeedAssumption
    PROVE  /\ Newest \in Nat \ {0} /\ MaxFailures \in Nat /\ MaxEvents \in Nat \ {0} /\ MaxMounts \in Nat /\ MaxEnds \in Nat
           /\ 0 \in 0 .. MaxFailures /\ 0 \in 0 .. Newest /\ 0 \in 0 .. MaxMounts /\ 0 \in 0 .. MaxEnds
  BY DEF TheActivityFeed!FeedAssumption

LEMMA EventsAreDated ==
    ASSUME Newest \in Nat
    PROVE  (\A e \in Event : e.task \in Nat) /\ TheActivityFeed!Farewell \in Event /\ TheActivityFeed!Told = Event
  BY DEF Event, TheActivityFeed!Farewell, TheActivityFeed!Told

LEMMA NoEvents == <<>> \in Seq(Event) /\ <<>> \in EventQueue /\ Once(<<>>)
  BY DEF EventQueue, Once

LEMMA NoLink ==
    ASSUME TheActivityFeed!FeedAssumption PROVE TheActivityFeed!NoChain \in Line /\ ~ TheActivityFeed!NoChain.mine
  BY NoEvents, FeedNumbers DEF TheActivityFeed!NoChain, Line

LEMMA InitFeed == ASSUME TheActivityFeed!FeedAssumption, TheActivityFeed!Init PROVE FeedInv
<1>1. events = <<>> /\ stored = <<>> /\ mounted = FALSE /\ created = 0 /\ aged = 0 /\ chain = [c \in Chains |-> TheActivityFeed!NoChain]
  BY DEF TheActivityFeed!Init
<1>2. chain \in [Chains -> Line] /\ \A c \in Chains : ~ chain[c].mine
  BY <1>1, NoLink
<1>3. events \in Seq(Event) /\ stored \in EventQueue /\ Once(events) /\ Once(stored)
  BY <1>1, NoEvents
<1>4. created \in 0 .. Newest /\ aged \in 0 .. created /\ mounted \in BOOLEAN
  <2>1. 0 \in 0 .. Newest /\ 0 \in 0 .. 0
    BY FeedNumbers
  <2>2. created = 0 /\ aged = 0 /\ mounted = FALSE
    BY <1>1
  <2> QED
    BY <2>1, <2>2
<1>5. FeedTyped
  BY <1>1, <1>2, <1>3, <1>4, NoEvents DEF FeedTyped
<1> QED
  BY <1>1, <1>2, <1>3, <1>5 DEF FeedInv

\* What becomes of a connection.
LEMMA LineMoves ==
    /\ \A x \in Line : [x EXCEPT !.mine = FALSE] \in Line
    /\ \A x \in Line : [x EXCEPT !.at = "open"] \in Line /\ [x EXCEPT !.at = "open"].mine = x.mine
    /\ \A x \in Line : [x EXCEPT !.at = "over"] \in Line /\ [x EXCEPT !.at = "over"].mine = x.mine
    /\ \A x \in Line : [x EXCEPT !.at = "waiting"] \in Line /\ [x EXCEPT !.at = "waiting"].mine = x.mine
    /\ \A x \in Line : [x EXCEPT !.at = "connecting"] \in Line /\ [x EXCEPT !.at = "connecting"].mine = x.mine
    /\ \A x \in Line : [x EXCEPT !.first = FALSE] \in Line /\ [x EXCEPT !.first = FALSE].mine = x.mine
    /\ \A x \in Line, n \in 0 .. MaxFailures : [x EXCEPT !.fails = n] \in Line /\ [x EXCEPT !.fails = n].mine = x.mine
    /\ \A x \in Line, n \in 0 .. Newest : [x EXCEPT !.seen = n] \in Line /\ [x EXCEPT !.seen = n].mine = x.mine
    /\ \A x \in Line, s \in EventQueue : [x EXCEPT !.queue = s] \in Line /\ [x EXCEPT !.queue = s].mine = x.mine
    /\ \A x \in Line : ~ [x EXCEPT !.mine = FALSE].mine
  BY DEF Line

LEMMA LineMovesOn ==
    ASSUME TheActivityFeed!FeedAssumption
    PROVE
    /\ \A x \in Line, t \in 0 .. Newest :
          LET y == [x EXCEPT !.at = "open", !.fails = 0, !.seen = t, !.queue = <<>>]
          IN y \in Line /\ y.mine = x.mine
    /\ \A x \in Line, q \in EventQueue : LET y == [x EXCEPT !.at = "over", !.queue = q]
                                        IN y \in Line /\ y.mine = x.mine
    /\ \A x \in Line : LET y == [x EXCEPT !.at = "waiting", !.fails = @ + 1, !.queue = <<>>]
                      IN x.fails # MaxFailures => y \in Line /\ y.mine = x.mine
    /\ \A x \in Line : LET y == [x EXCEPT !.at = "connecting", !.first = FALSE]
                      IN y \in Line /\ y.mine = x.mine
<1>1. \A x, t : [x EXCEPT !.at = "open", !.fails = 0, !.seen = t, !.queue = <<>>]
               = [[[[x EXCEPT !.at = "open"] EXCEPT !.fails = 0] EXCEPT !.seen = t] EXCEPT !.queue = <<>>]
  OBVIOUS
<1>2. \A x : [x EXCEPT !.at = "waiting", !.fails = @ + 1, !.queue = <<>>]
               = [[[x EXCEPT !.at = "waiting"] EXCEPT !.fails = x.fails + 1] EXCEPT !.queue = <<>>]
  OBVIOUS
<1>3. \A x : [x EXCEPT !.at = "connecting", !.first = FALSE] = [[x EXCEPT !.at = "connecting"] EXCEPT !.first = FALSE]
  OBVIOUS
<1>4. \A x \in Line : x.fails # MaxFailures => x.fails + 1 \in 0 .. MaxFailures
  BY FeedNumbers DEF Line
<1>5. ASSUME NEW x \in Line, NEW t \in 0 .. Newest
      PROVE  LET y == [x EXCEPT !.at = "open", !.fails = 0, !.seen = t, !.queue = <<>>] IN y \in Line /\ y.mine = x.mine
  <2> DEFINE y1 == [x EXCEPT !.at = "open"]
             y2 == [y1 EXCEPT !.fails = 0]
             y3 == [y2 EXCEPT !.seen = t]
             y4 == [y3 EXCEPT !.queue = <<>>]
  <2>1. y1 \in Line /\ y1.mine = x.mine
    BY LineMoves
  <2> HIDE DEF y1
  <2>2. y2 \in Line /\ y2.mine = x.mine
    BY <2>1, FeedNumbers, LineMoves
  <2> HIDE DEF y2
  <2>3. y3 \in Line /\ y3.mine = x.mine
    BY <2>2, FeedNumbers, LineMoves
  <2> HIDE DEF y3
  <2>4. y4 \in Line /\ y4.mine = x.mine
    BY <2>3, LineMoves, NoEvents
  <2> QED
    BY <2>4, <1>1 DEF y1, y2, y3
<1>6. ASSUME NEW x \in Line, x.fails # MaxFailures
      PROVE  LET y == [x EXCEPT !.at = "waiting", !.fails = @ + 1, !.queue = <<>>] IN y \in Line /\ y.mine = x.mine
  <2> DEFINE y1 == [x EXCEPT !.at = "waiting"]
             y2 == [y1 EXCEPT !.fails = x.fails + 1]
             y3 == [y2 EXCEPT !.queue = <<>>]
  <2>1. y1 \in Line /\ y1.mine = x.mine
    BY LineMoves
  <2> HIDE DEF y1
  <2>2. y2 \in Line /\ y2.mine = x.mine
    BY <2>1, <1>4, <1>6, LineMoves
  <2> HIDE DEF y2
  <2>3. y3 \in Line /\ y3.mine = x.mine
    BY <2>2, LineMoves, NoEvents
  <2> QED
    BY <2>3, <1>2 DEF y1, y2
<1>7. ASSUME NEW x \in Line
      PROVE  LET y == [x EXCEPT !.at = "connecting", !.first = FALSE] IN y \in Line /\ y.mine = x.mine
  <2> DEFINE y1 == [x EXCEPT !.at = "connecting"]
             y2 == [y1 EXCEPT !.first = FALSE]
  <2>1. y1 \in Line /\ y1.mine = x.mine
    BY LineMoves
  <2> HIDE DEF y1
  <2>2. y2 \in Line /\ y2.mine = x.mine
    BY <2>1, LineMoves
  <2> QED
    BY <2>2, <1>3 DEF y1
<1>8. ASSUME NEW x \in Line, NEW q \in EventQueue
      PROVE  LET y == [x EXCEPT !.at = "over", !.queue = q] IN y \in Line /\ y.mine = x.mine
  <2> DEFINE y1 == [x EXCEPT !.at = "over"]
             y2 == [y1 EXCEPT !.queue = q]
  <2>1. y1 \in Line /\ y1.mine = x.mine
    BY LineMoves
  <2> HIDE DEF y1
  <2>2. y2 \in Line /\ y2.mine = x.mine
    BY <2>1, LineMoves
  <2>3. [x EXCEPT !.at = "over", !.queue = q] = y2
    BY DEF y1
  <2> QED
    BY <2>2, <2>3
<1> QED
  BY <1>5, <1>6, <1>7, <1>8

\* A step that gives a connection of a page as much of it as it had.
LEMMA OneLink ==
    ASSUME FeedInv, NEW c \in Chains, NEW x \in Line, x.mine = chain[c].mine, chain' = [chain EXCEPT ![c] = x],
           UNCHANGED <<who, mounted, events, stored, created, aged>>
    PROVE  FeedInv'
<1>1. who' = who /\ mounted' = mounted /\ events' = events /\ stored' = stored /\ created' = created /\ aged' = aged
  OBVIOUS
<1>2. chain' \in [Chains -> Line] /\ \A d \in Chains : chain'[d].mine = chain[d].mine
  BY DEF FeedInv, FeedTyped
<1>3. \A e : TheActivityFeed!Recent(e)' <=> TheActivityFeed!Recent(e)
  BY <1>1 DEF TheActivityFeed!Recent
<1>4. Dated(events)' = Dated(events) /\ Dated(stored)' = Dated(stored)
  BY <1>1, <1>3 DEF Dated, TheActivityFeed!ToSet
<1> QED
  BY <1>1, <1>2, <1>4 DEF FeedInv, FeedTyped, Once

\* What a poll tells of is a list of events.
LEMMA NewsAreEvents == ASSUME Newest \in Nat, created \in 0 .. Newest, NEW c \in Chains PROVE TheActivityFeed!News(c) \in Seq(Event)
<1> DEFINE new == {t \in 1 .. created : t > chain[c].seen /\ t > created - PollLimit}
<1>1. IsFiniteSet(new)
  <2>1. IsFiniteSet(1 .. created) /\ new \subseteq 1 .. created
    BY FS_Interval
  <2> QED
    BY <2>1, FS_Subset
<1>2. Cardinality(new) \in 0 .. created
  <2>1. created \in Nat /\ new \subseteq 1 .. created
    OBVIOUS
  <2> HIDE DEF new
  <2>2. IsFiniteSet(1 .. created) /\ Cardinality(1 .. created) = created
    BY <2>1, FS_Interval
  <2>3. Cardinality(new) \in Nat /\ Cardinality(new) <= created
    BY <1>1, <2>1, <2>2, FS_Subset, FS_CardinalityType
  <2> QED
    BY <2>1, <2>3
<1>3. TheActivityFeed!Cardinality(new) = Cardinality(new)
  BY DEF TheActivityFeed!Cardinality, Cardinality
<1> DEFINE n == Cardinality(new)
<1>4. TheActivityFeed!News(c) = [i \in 1 .. n |->
          [task |-> created - n + i, type |-> IF created - n + i \in ended THEN "task_completed" ELSE "task_created"]]
  BY <1>3 DEF TheActivityFeed!News
<1> HIDE DEF n
<1>5. \A i \in 1 .. n : created - n + i \in 1 .. Newest
  BY <1>2 DEF n
<1>6. \A i \in 1 .. n : [task |-> created - n + i,
                         type |-> IF created - n + i \in ended THEN "task_completed" ELSE "task_created"] \in Event
  BY <1>5 DEF Event
<1> QED
  BY <1>2, <1>4, <1>6 DEF n

\* An event that is not there yet goes in front, and stays the only one of its kind.
LEMMA PushedOnce ==
    ASSUME events \in EventQueue, Once(events), MaxEvents \in Nat \ {0}, NEW e \in Event,
           ~ TheActivityFeed!Known(e)
    PROVE  TheActivityFeed!Pushed(e) \in EventQueue /\ Once(TheActivityFeed!Pushed(e))
<1> USE DEF EventQueue
<1> DEFINE all == <<e>> \o events
           n == IF Len(events) < MaxEvents THEN Len(events) + 1 ELSE MaxEvents
<1>1. TheActivityFeed!Pushed(e) = SubSeq(all, 1, n)
  BY DEF TheActivityFeed!Pushed
<1>2. \A i \in 1 .. Len(events) : e.task # 0 => events[i] # e
  BY DEF TheActivityFeed!ToSet, TheActivityFeed!Known
<1>3. /\ all \in Seq(Event) /\ Len(all) = Len(events) + 1
      /\ \A i \in 1 .. Len(all) : all[i] = IF i = 1 THEN e ELSE events[i - 1]
  OBVIOUS
<1>4. n \in 1 .. Len(all)
  BY <1>3
<1> HIDE DEF n
<1>5. Once(all)
  <2> SUFFICES ASSUME NEW i \in 1 .. Len(all), NEW j \in 1 .. Len(all), all[i] = all[j], all[i].task # 0
               PROVE  i = j
    BY DEF Once
  <2> HIDE DEF all
  <2>1. CASE i = 1 /\ j = 1
    BY <2>1
  <2>2. CASE i = 1 /\ j # 1
    <3>1. j - 1 \in 1 .. Len(events)
      BY <2>2, <1>3
    <3> QED
      BY <3>1, <2>2, <1>2, <1>3
  <2>3. CASE i # 1 /\ j = 1
    <3>1. i - 1 \in 1 .. Len(events)
      BY <2>3, <1>3
    <3> QED
      BY <3>1, <2>3, <1>2, <1>3
  <2>4. CASE i # 1 /\ j # 1
    <3>1. i - 1 \in 1 .. Len(events) /\ j - 1 \in 1 .. Len(events)
      BY <2>4, <1>3
    <3>2. events[i - 1] = events[j - 1] /\ events[i - 1].task # 0
      BY <2>4, <1>3
    <3> QED
      BY <3>1, <3>2 DEF Once
  <2> QED
    BY <2>1, <2>2, <2>3, <2>4
<1> HIDE DEF all
<1>6. /\ SubSeq(all, 1, n) \in Seq(Event) /\ Len(SubSeq(all, 1, n)) = n
      /\ \A i \in 1 .. n : SubSeq(all, 1, n)[i] = all[i]
  BY <1>3, <1>4
<1> QED
  BY <1>1, <1>3, <1>4, <1>5, <1>6 DEF Once

\* What the next mount shows are the events of the last day that are stored, each at its place.
LEMMA Reloaded ==
    ASSUME stored \in EventQueue, Once(stored), NEW at,
           at \in TheActivityFeed!Rising({i \in DOMAIN stored : TheActivityFeed!Recent(stored[i])}),
           NEW s, s = [i \in DOMAIN at |-> stored[at[i]]]
    PROVE  s \in EventQueue /\ Len(s) <= Len(stored) /\ Once(s) /\ Dated(s) = Dated(stored)
<1> DEFINE K == {i \in DOMAIN stored : TheActivityFeed!Recent(stored[i])}
           n == Cardinality(K)
<1>1. stored \in Seq(Event) /\ Len(stored) \in Nat /\ DOMAIN stored = 1 .. Len(stored)
  BY DEF EventQueue
<1>2. TheActivityFeed!Cardinality(K) = n
  BY DEF TheActivityFeed!Cardinality, Cardinality
<1>3. at \in [1 .. n -> K] /\ \A i, j \in 1 .. n : i < j => at[i] < at[j]
  BY <1>2 DEF TheActivityFeed!Rising
<1>4. K \subseteq 1 .. Len(stored)
  BY <1>1
<1>5. \A i \in K : TheActivityFeed!Recent(stored[i]) /\ i \in 1 .. Len(stored) /\ stored[i] \in Event
  BY <1>1
<1>6. \A i \in 1 .. Len(stored) : TheActivityFeed!Recent(stored[i]) => i \in K
  BY <1>1
<1> HIDE DEF K
<1>7. IsFiniteSet(K) /\ n \in Nat /\ n <= Len(stored)
  <2> DEFINE m == Len(stored)
  <2>1. m \in Nat /\ K \subseteq 1 .. m
    BY <1>1, <1>4
  <2> HIDE DEF m
  <2>2. IsFiniteSet(1 .. m) /\ Cardinality(1 .. m) = m
    BY <2>1, FS_Interval
  <2>3. IsFiniteSet(K) /\ Cardinality(K) <= m
    BY <2>1, <2>2, FS_Subset
  <2> QED
    BY <2>3, FS_CardinalityType DEF m
<1> HIDE DEF n
<1>8. ASSUME NEW i \in 1 .. n, NEW j \in 1 .. n, at[i] = at[j] PROVE i = j
  <2> DEFINE m == Len(stored)
  <2>0. m \in Nat /\ K \subseteq 1 .. m
    BY <1>1, <1>4
  <2> HIDE DEF m
  <2>1. at[i] \in Int /\ ~ at[i] < at[j] /\ ~ at[j] < at[i]
    <3>1. at[i] \in K
      BY <1>3
    <3>2. \A k \in K : k \in Int
      BY <2>0
    <3> HIDE DEF K
    <3> QED
      BY <1>8, <3>1, <3>2
  <2>2. i \in Int /\ j \in Int /\ ~ i < j /\ ~ j < i
    BY <1>3, <2>1
  <2> QED
    BY <2>2
<1>9. \A k \in K : \E i \in 1 .. n : at[i] = k
  <2>1. at \in Injection(1 .. n, K)
    BY <1>3, <1>8 DEF Injection, IsInjective
  <2>2. Cardinality(1 .. n) = n
    BY <1>7, FS_Interval
  <2>3. at \in Surjection(1 .. n, K)
    BY <1>7, <2>1, <2>2, FS_Injection DEF n
  <2> QED
    BY <2>3 DEF Surjection
<1>10. DOMAIN at = 1 .. n
  BY <1>3
<1>11. /\ s \in Seq(Event) /\ Len(s) = n /\ DOMAIN s = 1 .. n
       /\ \A i \in 1 .. n : s[i] = stored[at[i]] /\ at[i] \in K
  <2>1. \A i \in 1 .. n : at[i] \in K /\ stored[at[i]] \in Event
    BY <1>3, <1>5
  <2> QED
    BY <1>7, <1>10, <2>1
<1>12. Once(s)
  <2> SUFFICES ASSUME NEW i \in 1 .. n, NEW j \in 1 .. n, s[i] = s[j], s[i].task # 0 PROVE i = j
    BY <1>11 DEF Once
  <2>1. stored[at[i]] = stored[at[j]] /\ stored[at[i]].task # 0
    BY <1>11
  <2>2. at[i] \in 1 .. Len(stored) /\ at[j] \in 1 .. Len(stored)
    BY <1>5, <1>11
  <2>3. at[i] = at[j]
    BY <2>1, <2>2 DEF Once
  <2> QED
    BY <1>8, <2>3
<1>13. Dated(s) = Dated(stored)
  <2>1. ASSUME NEW e \in Dated(s) PROVE e \in Dated(stored)
    <3>1. PICK i \in 1 .. n : e = s[i]
      BY <1>11 DEF Dated, TheActivityFeed!ToSet
    <3>2. e = stored[at[i]] /\ at[i] \in 1 .. Len(stored) /\ TheActivityFeed!Recent(e)
      BY <1>5, <1>11, <3>1
    <3> QED
      BY <1>1, <3>2 DEF Dated, TheActivityFeed!ToSet
  <2>2. ASSUME NEW e \in Dated(stored) PROVE e \in Dated(s)
    <3>1. PICK k \in 1 .. Len(stored) : e = stored[k] /\ TheActivityFeed!Recent(stored[k])
      BY <1>1 DEF Dated, TheActivityFeed!ToSet
    <3>2. PICK i \in 1 .. n : at[i] = k
      BY <1>6, <1>9, <3>1
    <3>3. e = s[i] /\ TheActivityFeed!Recent(e)
      BY <1>11, <3>1, <3>2
    <3> QED
      BY <1>11, <3>3 DEF Dated, TheActivityFeed!ToSet
  <2> QED
    BY <2>1, <2>2
<1> QED
  BY <1>7, <1>11, <1>12, <1>13 DEF EventQueue

LEMMA FeedNext == ASSUME TheActivityFeed!FeedAssumption, FeedInv, TheActivityFeed!Next PROVE FeedInv'
<1> USE DEF TheActivityFeed!tasks
<1>1. CASE TheActivityFeed!Unmount
  <2>1. \A c \in Chains : TheActivityFeed!Left(c) \in Line /\ ~ TheActivityFeed!Left(c).mine
    BY NoLink, LineMoves DEF TheActivityFeed!Left, FeedInv, FeedTyped
  <2>2. chain' \in [Chains -> Line] /\ \A c \in Chains : ~ chain'[c].mine
    BY <1>1, <2>1 DEF TheActivityFeed!Unmount
  <2>3. events' = <<>> /\ stored' = stored /\ created' = created /\ aged' = aged /\ mounted' = FALSE
    BY <1>1 DEF TheActivityFeed!Unmount
  <2>4. events' \in EventQueue /\ Once(events')
    BY <2>3, NoEvents
  <2>5. stored' \in EventQueue /\ Once(stored') /\ created' \in 0 .. Newest /\ aged' \in 0 .. created'
    BY <2>3 DEF FeedInv, FeedTyped
  <2> QED
    BY <2>2, <2>3, <2>4, <2>5 DEF FeedInv, FeedTyped
<1>2. CASE TheActivityFeed!Reload
  <2>1. chain' \in [Chains -> Line] /\ \A c \in Chains : ~ chain'[c].mine
    BY <1>2, NoLink DEF TheActivityFeed!Reload
  <2>3. events' = <<>> /\ stored' = stored /\ created' = created /\ aged' = aged /\ mounted' = FALSE
    BY <1>2 DEF TheActivityFeed!Reload
  <2>4. events' \in EventQueue /\ Once(events')
    BY <2>3, NoEvents
  <2>5. stored' \in EventQueue /\ Once(stored') /\ created' \in 0 .. Newest /\ aged' \in 0 .. created'
    BY <2>3 DEF FeedInv, FeedTyped
  <2> QED
    BY <2>1, <2>3, <2>4, <2>5 DEF FeedInv, FeedTyped
<1>3. CASE TheActivityFeed!Tick \/ TheActivityFeed!Work
  <2>1. UNCHANGED <<who, mounted, events, stored, aged, chain>>
    BY <1>3 DEF TheActivityFeed!Tick, TheActivityFeed!Work
  <2>2. created' \in 0 .. Newest /\ aged \in 0 .. created'
    BY <1>3, FeedNumbers DEF TheActivityFeed!Tick, TheActivityFeed!Work, FeedInv, FeedTyped
  <2>3. Dated(events)' = Dated(events) /\ Dated(stored)' = Dated(stored)
    BY <2>1 DEF Dated, TheActivityFeed!ToSet, TheActivityFeed!Recent
  <2> QED
    BY <2>1, <2>2, <2>3 DEF FeedInv, FeedTyped, Once
<1>4. CASE TheActivityFeed!Age
  <2>1. UNCHANGED <<who, mounted, events, stored, created, chain>> /\ aged < created /\ aged' = aged + 1
    BY <1>4 DEF TheActivityFeed!Age
  <2>2. /\ events \in Seq(Event) /\ stored \in Seq(Event) /\ created \in 0 .. Newest
        /\ aged \in 0 .. created /\ Newest \in Nat
    BY FeedNumbers DEF FeedInv, FeedTyped, EventQueue
  <2>3. \A e \in Event : e.task > aged' => e.task > aged
    BY <2>1, <2>2, EventsAreDated
  <2>4. ASSUME NEW s \in Seq(Event)
        PROVE  {e \in TheActivityFeed!ToSet(s) : e.task > aged'} = {e \in Dated(s) : e.task > aged'}
    <3>1. \A e \in TheActivityFeed!ToSet(s) : e \in Event
      BY DEF TheActivityFeed!ToSet
    <3> QED
      BY <2>3, <3>1 DEF Dated, TheActivityFeed!Recent
  <2>5. mounted /\ who = "feed" => Dated(events)' = Dated(stored)'
    <3>1. /\ Dated(events)' = {e \in TheActivityFeed!ToSet(events) : e.task > aged'}
          /\ Dated(stored)' = {e \in TheActivityFeed!ToSet(stored) : e.task > aged'}
      BY <2>1 DEF Dated, TheActivityFeed!Recent, TheActivityFeed!ToSet
    <3>2. mounted /\ who = "feed" => Dated(events) = Dated(stored)
      BY DEF FeedInv
    <3> QED
      BY <2>2, <2>4, <3>1, <3>2
  <2>6. created' \in 0 .. Newest /\ aged' \in 0 .. created'
    BY <2>1, <2>2
  <2> QED
    BY <2>1, <2>5, <2>6 DEF FeedInv, FeedTyped, Once
<1>5. ASSUME NEW c \in Chains, TheActivityFeed!Mount(c) PROVE FeedInv'
  <2>1. [TheActivityFeed!NoChain EXCEPT !.at = "connecting", !.first = TRUE, !.mine = TRUE] \in Line
    BY NoLink DEF Line
  <2>2. chain' \in [Chains -> Line]
    BY <1>5, <2>1 DEF TheActivityFeed!Mount, FeedInv, FeedTyped
  <2>3. PICK at \in TheActivityFeed!Rising({i \in DOMAIN stored : TheActivityFeed!Recent(stored[i])}) :
             events' = [i \in DOMAIN at |-> stored[at[i]]]
    BY <1>5 DEF TheActivityFeed!Mount
  <2>4. stored \in EventQueue /\ Once(stored)
    BY DEF FeedInv, FeedTyped
  <2>5. events' \in EventQueue /\ Once(events') /\ Dated(events') = Dated(stored)
    BY <2>3, <2>4, Reloaded
  <2>6. stored' = stored /\ created' = created /\ aged' = aged /\ mounted' = TRUE
    BY <1>5 DEF TheActivityFeed!Mount
  <2>7. Dated(events)' = Dated(events') /\ Dated(stored)' = Dated(stored)
    BY <2>6 DEF Dated, TheActivityFeed!ToSet, TheActivityFeed!Recent
  <2> QED
    BY <2>2, <2>4, <2>5, <2>6, <2>7 DEF FeedInv, FeedTyped
<1>6. ASSUME NEW c \in Chains, TheActivityFeed!Open(c) PROVE FeedInv'
  <2>1. chain[c] \in Line /\ chain \in [Chains -> Line]
    BY DEF FeedInv, FeedTyped
  <2>2. PICK t \in aged .. created :
           chain' = [chain EXCEPT ![c].at = "open", ![c].fails = 0, ![c].seen = t, ![c].queue = <<>>]
    BY <1>6 DEF TheActivityFeed!Open
  <2>3. t \in 0 .. Newest
    BY <2>2, FeedNumbers DEF FeedInv, FeedTyped
  <2> DEFINE x == [chain[c] EXCEPT !.at = "open", !.fails = 0, !.seen = t, !.queue = <<>>]
  <2>4. x \in Line /\ x.mine = chain[c].mine
    BY <2>1, <2>3, LineMovesOn
  <2>5. chain' = [chain EXCEPT ![c] = x]
    BY <2>1, <2>2
  <2> HIDE DEF x
  <2>6. UNCHANGED <<who, mounted, events, stored, created, aged>>
    BY <1>6 DEF TheActivityFeed!Open
  <2> QED
    BY <2>4, <2>5, <2>6, OneLink
<1>7. ASSUME NEW c \in Chains, TheActivityFeed!End(c) \/ TheActivityFeed!Done(c) PROVE FeedInv'
  <2>1. chain[c] \in Line
    BY DEF FeedInv, FeedTyped
  <2>2. /\ chain' = [chain EXCEPT ![c] = TheActivityFeed!Ended(c)]
        /\ UNCHANGED <<who, mounted, events, stored, created, aged>>
    BY <1>7 DEF TheActivityFeed!End, TheActivityFeed!Done
  <2>3. CASE chain[c].fails = MaxFailures
    <3>1. chain' = [chain EXCEPT ![c] = TheActivityFeed!NoChain]
      BY <2>2, <2>3 DEF TheActivityFeed!Ended
    <3>2. chain' \in [Chains -> Line] /\ \A d \in Chains : chain'[d].mine => chain[d].mine
      BY <3>1, NoLink DEF FeedInv, FeedTyped
    <3>3. Dated(events)' = Dated(events) /\ Dated(stored)' = Dated(stored)
      BY <2>2 DEF Dated, TheActivityFeed!ToSet, TheActivityFeed!Recent
    <3> QED
      BY <2>2, <3>2, <3>3 DEF FeedInv, FeedTyped, Once
  <2>4. CASE chain[c].fails # MaxFailures
    BY <2>1, <2>2, <2>4, LineMovesOn, OneLink DEF TheActivityFeed!Ended
  <2> QED
    BY <2>3, <2>4
<1>8. ASSUME NEW c \in Chains, TheActivityFeed!Reconnect(c) PROVE FeedInv'
  <2>1. chain[c] \in Line
    BY DEF FeedInv, FeedTyped
  <2>2. chain' = [chain EXCEPT ![c] = [chain[c] EXCEPT !.at = "connecting", !.first = FALSE]]
    BY <1>8, <2>1 DEF TheActivityFeed!Reconnect, FeedInv, FeedTyped
  <2> QED
    BY <1>8, <2>1, <2>2, LineMovesOn, OneLink DEF TheActivityFeed!Reconnect
<1>9. ASSUME NEW c \in Chains, TheActivityFeed!pushEvent(c) PROVE FeedInv'
  <2>1. chain[c] \in Line /\ chain[c].queue \in EventQueue
    BY DEF FeedInv, FeedTyped, Line
  <2>2. Head(chain[c].queue) \in Event /\ Tail(chain[c].queue) \in EventQueue
    BY <1>9, <2>1 DEF TheActivityFeed!pushEvent, EventQueue
  <2>3. chain' = [chain EXCEPT ![c] = [chain[c] EXCEPT !.queue = Tail(chain[c].queue)]]
    BY <1>9 DEF TheActivityFeed!pushEvent
  <2>4. chain' \in [Chains -> Line] /\ \A d \in Chains : chain'[d].mine = chain[d].mine
    <3> DEFINE x == [chain[c] EXCEPT !.queue = Tail(chain[c].queue)]
    <3>1. x \in Line /\ x.mine = chain[c].mine
      BY <2>1, <2>2, LineMoves
    <3> HIDE DEF x
    <3> QED
      BY <2>3, <3>1 DEF FeedInv, FeedTyped, x
  <2>5. who' = who /\ mounted' = mounted /\ created' = created /\ aged' = aged
    BY <1>9 DEF TheActivityFeed!pushEvent
  <2> DEFINE e == Head(chain[c].queue)
  <2>6. CASE chain[c].mine /\ who = "feed" /\ ~ TheActivityFeed!Known(e)
    <3>1. events' = TheActivityFeed!Pushed(e) /\ stored' = events'
      BY <1>9, <2>6 DEF TheActivityFeed!pushEvent
    <3>2. events' \in EventQueue /\ Once(events')
      BY <2>2, <2>6, <3>1, PushedOnce DEF TheActivityFeed!FeedAssumption, FeedInv, FeedTyped
    <3>3. mounted
      BY <2>6 DEF FeedInv, FeedTyped
    <3>4. Dated(events)' = Dated(stored)'
      BY <3>1 DEF Dated, TheActivityFeed!ToSet
    <3> QED
      BY <2>4, <2>5, <3>1, <3>2, <3>3, <3>4 DEF FeedInv, FeedTyped
  <2>7. CASE ~ (chain[c].mine /\ who = "feed" /\ ~ TheActivityFeed!Known(e))
    <3>1. events' = events /\ stored' = stored
      BY <1>9, <2>7 DEF TheActivityFeed!pushEvent
    <3>2. Dated(events)' = Dated(events) /\ Dated(stored)' = Dated(stored)
      BY <2>5, <3>1 DEF Dated, TheActivityFeed!ToSet, TheActivityFeed!Recent
    <3> QED
      BY <2>4, <2>5, <3>1, <3>2 DEF FeedInv, FeedTyped, Once
  <2> QED
    BY <2>6, <2>7
<1>10. ASSUME NEW c \in Chains, TheActivityFeed!activity_stream(c) PROVE FeedInv'
  <2>1. chain[c] \in Line /\ chain[c].queue \in EventQueue /\ created \in 0 .. Newest /\ Newest \in Nat
    BY FeedNumbers DEF FeedInv, FeedTyped, Line
  <2>2. chain[c].queue \o TheActivityFeed!News(c) \in EventQueue
    BY <2>1, NewsAreEvents DEF EventQueue
  <2>3. chain' = [chain EXCEPT ![c] = [chain[c] EXCEPT !.queue = chain[c].queue \o TheActivityFeed!News(c), !.seen = created]]
    BY <1>10, <2>1 DEF TheActivityFeed!activity_stream, FeedInv, FeedTyped
  <2> DEFINE x == [chain[c] EXCEPT !.queue = chain[c].queue \o TheActivityFeed!News(c), !.seen = created]
  <2>4. x \in Line /\ x.mine = chain[c].mine
    <3> DEFINE y == [chain[c] EXCEPT !.queue = chain[c].queue \o TheActivityFeed!News(c)]
               z == [y EXCEPT !.seen = created]
    <3>1. y \in Line /\ y.mine = chain[c].mine
      BY <2>1, <2>2, LineMoves
    <3> HIDE DEF y
    <3>3. z \in Line /\ z.mine = chain[c].mine
      BY <2>1, <3>1, LineMoves
    <3>4. x = z
      BY DEF y
    <3> QED
      BY <3>3, <3>4
  <2>5. UNCHANGED <<who, mounted, events, stored, created, aged>>
    BY <1>10 DEF TheActivityFeed!activity_stream
  <2> HIDE DEF x
  <2> QED
    BY <2>3, <2>4, <2>5, OneLink DEF x
<1>11. ASSUME NEW c \in Chains, TheActivityFeed!LastEvent(c) PROVE FeedInv'
  <2>1. chain[c] \in Line /\ chain[c].queue \in EventQueue
    BY DEF FeedInv, FeedTyped, Line
  <2> DEFINE more == Append(chain[c].queue, TheActivityFeed!Farewell)
             x == [chain[c] EXCEPT !.at = "over", !.queue = more]
  <2>2. more \in EventQueue
    BY <2>1, EventsAreDated, FeedNumbers DEF EventQueue
  <2>3. x \in Line /\ x.mine = chain[c].mine
    BY <2>1, <2>2, LineMovesOn
  <2>4. chain' = [chain EXCEPT ![c] = x]
    BY <1>11, <2>1 DEF TheActivityFeed!LastEvent, FeedInv, FeedTyped
  <2>5. UNCHANGED <<who, mounted, events, stored, created, aged>>
    BY <1>11 DEF TheActivityFeed!LastEvent
  <2> HIDE DEF x
  <2> QED
    BY <2>3, <2>4, <2>5, OneLink
<1> QED
  BY <1>1, <1>2, <1>3, <1>4, <1>5, <1>6, <1>7, <1>8, <1>9, <1>10, <1>11 DEF TheActivityFeed!Next

LEMMA NextKeepsFeed ==
    ASSUME TheActivityFeed!FeedAssumption, FeedInv, TheActivityFeed!Next \/ UNCHANGED feedVars PROVE FeedInv'
<1>1. CASE TheActivityFeed!Next
  BY <1>1, FeedNext
<1>2. CASE UNCHANGED feedVars
  <2>1. UNCHANGED <<who, mounted, chain, events, stored, created, aged>>
    BY <1>2 DEF feedVars
  <2>2. Dated(events)' = Dated(events) /\ Dated(stored)' = Dated(stored)
    BY <2>1 DEF Dated, TheActivityFeed!ToSet, TheActivityFeed!Recent
  <2> QED
    BY <2>1, <2>2 DEF FeedInv, FeedTyped, Once
<1> QED
  BY <1>1, <1>2

LEMMA FeedShows == FeedInv => TheActivityFeed!ShownOnce
  BY DEF FeedInv, Once, Dated, TheActivityFeed!ShownOnce

(* The rest of the feed's types: what is shown and kept is no longer than  *)
(* the limit.                                                              *)

FeedRest ==
    /\ who \in {"feed", "rings"}
    /\ ring.count \in Nat /\ ring.age \in {"active", "recent", "old"} /\ ring = [count |-> ring.count, age |-> ring.age]
    /\ ended \subseteq 1 .. created

Short == Len(events) <= MaxEvents /\ Len(stored) <= MaxEvents

FeedCounts == mounts \in 0 .. MaxMounts /\ feedFaults \in 0 .. MaxEnds

FeedAllTyped == FeedInv /\ FeedRest /\ Short /\ FeedCounts

LEMMA FeedIsTyped == ASSUME TheActivityFeed!FeedAssumption, FeedAllTyped PROVE TheActivityFeed!TypeOK
<1>1. TheActivityFeed!Told = Event
  BY EventsAreDated, FeedNumbers
<1> QED
  BY <1>1 DEF FeedAllTyped, FeedInv, FeedTyped, FeedRest, Short, FeedCounts, Line, EventQueue,
         TheActivityFeed!TypeOK, TheActivityFeed!Streams

LEMMA InitFeedTypes == ASSUME TheActivityFeed!FeedAssumption, TheActivityFeed!Init PROVE FeedAllTyped
<1>1. FeedInv
  BY InitFeed
<1>2. Short
  BY FeedNumbers DEF TheActivityFeed!Init, Short
<1>3. FeedRest /\ FeedCounts
  BY FeedNumbers DEF TheActivityFeed!Init, FeedRest, FeedCounts
<1> QED
  BY <1>1, <1>2, <1>3 DEF FeedAllTyped

LEMMA PushedIsShort ==
    ASSUME events \in EventQueue, Len(events) <= MaxEvents, MaxEvents \in Nat \ {0}, NEW e \in Event
    PROVE  Len(TheActivityFeed!Pushed(e)) <= MaxEvents
<1> DEFINE all == <<e>> \o events
           n == IF Len(events) < MaxEvents THEN Len(events) + 1 ELSE MaxEvents
<1>1. TheActivityFeed!Pushed(e) = SubSeq(all, 1, n)
  BY DEF TheActivityFeed!Pushed
<1>2. all \in Seq(Event) /\ Len(all) = Len(events) + 1 /\ Len(events) \in Nat
  BY DEF EventQueue
<1>3. n \in 1 .. Len(all) /\ n <= MaxEvents
  BY <1>2
<1> HIDE DEF all, n
<1>4. Len(SubSeq(all, 1, n)) = n
  BY <1>2, <1>3
<1> QED
  BY <1>1, <1>3, <1>4

LEMMA FeedStaysTyped ==
    ASSUME TheActivityFeed!FeedAssumption, FeedAllTyped, TheActivityFeed!Next PROVE FeedAllTyped'
<1>0. FeedInv /\ FeedInv' /\ FeedRest /\ Short /\ FeedCounts
  BY FeedNext DEF FeedAllTyped
<1> USE DEF TheActivityFeed!tasks
<1>1. FeedCounts'
  <2>1. CASE UNCHANGED <<mounts, feedFaults>>
    BY <1>0, <2>1 DEF FeedCounts
  <2>2. CASE mounts < MaxMounts /\ mounts' = mounts + 1 /\ feedFaults' = feedFaults
    BY <1>0, <2>2, FeedNumbers DEF FeedCounts
  <2>3. CASE feedFaults < MaxEnds /\ feedFaults' = feedFaults + 1 /\ mounts' = mounts
    BY <1>0, <2>3, FeedNumbers DEF FeedCounts
  <2> QED
    BY <2>1, <2>2, <2>3 DEF TheActivityFeed!Next, TheActivityFeed!Unmount, TheActivityFeed!Reload, TheActivityFeed!Tick,
          TheActivityFeed!Work, TheActivityFeed!Age, TheActivityFeed!Mount, TheActivityFeed!Open, TheActivityFeed!End,
          TheActivityFeed!Done, TheActivityFeed!Reconnect, TheActivityFeed!pushEvent, TheActivityFeed!activity_stream,
          TheActivityFeed!LastEvent
<1>2. Short'
  <2>1. CASE events' \in {<<>>, events} /\ stored' = stored
    BY <1>0, <2>1, FeedNumbers DEF Short
  <2>2. ASSUME NEW c \in Chains, TheActivityFeed!pushEvent(c) PROVE Short'
    <3>1. CASE chain[c].mine /\ who = "feed" /\ ~ TheActivityFeed!Known(Head(chain[c].queue))
      <4>1. chain[c].queue \in EventQueue /\ chain[c].queue # <<>>
        BY <1>0, <2>2 DEF FeedInv, FeedTyped, Line, TheActivityFeed!pushEvent
      <4>2. Head(chain[c].queue) \in Event
        BY <4>1 DEF EventQueue
      <4>3. events' = TheActivityFeed!Pushed(Head(chain[c].queue)) /\ stored' = events'
        BY <2>2, <3>1 DEF TheActivityFeed!pushEvent
      <4> QED
        BY <1>0, <4>2, <4>3, PushedIsShort, FeedNumbers DEF FeedInv, FeedTyped, Short
    <3>2. CASE ~ (chain[c].mine /\ who = "feed" /\ ~ TheActivityFeed!Known(Head(chain[c].queue)))
      BY <1>0, <2>2, <3>2 DEF TheActivityFeed!pushEvent, Short
    <3> QED
      BY <3>1, <3>2
  <2>3. ASSUME NEW c \in Chains, TheActivityFeed!Mount(c) PROVE Short'
    <3>1. PICK at \in TheActivityFeed!Rising({i \in DOMAIN stored : TheActivityFeed!Recent(stored[i])}) :
               events' = [i \in DOMAIN at |-> stored[at[i]]]
      BY <2>3 DEF TheActivityFeed!Mount
    <3>2. stored \in EventQueue /\ Once(stored)
      BY <1>0 DEF FeedInv, FeedTyped
    <3>3. events' \in EventQueue /\ Len(events') <= Len(stored) /\ stored' = stored
      BY <2>3, <3>1, <3>2, Reloaded DEF TheActivityFeed!Mount
    <3>4. Len(events') \in Nat /\ Len(stored) \in Nat /\ MaxEvents \in Nat
      BY <3>2, <3>3, FeedNumbers DEF EventQueue
    <3> QED
      BY <1>0, <3>3, <3>4 DEF Short
  <2> QED
    BY <2>1, <2>2, <2>3 DEF TheActivityFeed!Next, TheActivityFeed!Unmount, TheActivityFeed!Reload, TheActivityFeed!Tick,
          TheActivityFeed!Work, TheActivityFeed!Age, TheActivityFeed!Open, TheActivityFeed!End, TheActivityFeed!Done,
          TheActivityFeed!Reconnect, TheActivityFeed!activity_stream, TheActivityFeed!LastEvent
<1>3. FeedRest'
  <2>1. CASE who' = who /\ ring' = ring /\ UNCHANGED <<created, ended>>
    BY <1>0, <2>1 DEF FeedRest
  <2>2. CASE who' = who /\ ring' = [count |-> 0, age |-> "old"] /\ UNCHANGED <<created, ended>>
    BY <1>0, <2>2 DEF FeedRest
  <2>3. CASE who' = who /\ ring' = TheActivityFeed!Processed /\ UNCHANGED <<created, ended>>
    BY <1>0, <2>3 DEF FeedRest, TheActivityFeed!Processed
  <2>4. CASE TheActivityFeed!Tick
    BY <1>0, <2>4 DEF FeedRest, TheActivityFeed!Tick
  <2>5. CASE TheActivityFeed!Work
    <3>1. who' = who /\ ring' = ring
      BY <2>5 DEF TheActivityFeed!Work
    <3>2. ended' \subseteq 1 .. created'
      BY <1>0, <2>5, FeedNumbers DEF TheActivityFeed!Work, FeedRest, FeedInv, FeedTyped
    <3> QED
      BY <1>0, <3>1, <3>2 DEF FeedRest
  <2>6. ASSUME NEW c \in Chains, TheActivityFeed!pushEvent(c) PROVE FeedRest'
    BY <2>1, <2>3, <2>6 DEF TheActivityFeed!pushEvent
  <2> QED
    BY <2>1, <2>2, <2>4, <2>5, <2>6 DEF TheActivityFeed!Next, TheActivityFeed!Unmount, TheActivityFeed!Reload,
          TheActivityFeed!Age, TheActivityFeed!Mount, TheActivityFeed!Open, TheActivityFeed!End, TheActivityFeed!Done,
          TheActivityFeed!Reconnect, TheActivityFeed!activity_stream, TheActivityFeed!LastEvent
<1> QED
  BY <1>0, <1>1, <1>2, <1>3 DEF FeedAllTyped

-----------------------------------------------------------------------------
(***************************************************************************)
(* The types of the sections.  A component's types are seldom inductive by *)
(* themselves: what a call on its way carries must be typed as what it     *)
(* will be written over, and what is typed too freely for TLC - a record   *)
(* that is only read by its fields - must be a record.                     *)
(***************************************************************************)

(* The tool servers: one that is being made has its name.                  *)

ServersAllTyped == TheToolServers!TypeOK /\ \A c \in serversCalls : c.kind = "create" => c.server \in used

LEMMA ServersStayTyped ==
    ASSUME TheToolServers!ServersAssumption, ServersAllTyped, TheToolServers!Next
    PROVE  ServersAllTyped'
<1> USE DEF ServersAllTyped, TheToolServers!ServersAssumption, TheToolServers!TypeOK, TheToolServers!Call, TheToolServers!Kinds,
            TheToolServers!db, TheToolServers!Click
<1>1. CASE TheToolServers!SetDialog
  BY <1>1 DEF TheToolServers!SetDialog
<1>2. CASE TheToolServers!TypeName
  BY <1>2 DEF TheToolServers!TypeName
<1>3. ASSUME NEW s \in Servers, TheToolServers!handleSubmit(s) PROVE ServersAllTyped'
  BY <1>3 DEF TheToolServers!handleSubmit, TheToolServers!Send
<1>4. ASSUME NEW s \in Servers, TheToolServers!RefreshTools(s) PROVE ServersAllTyped'
  BY <1>4 DEF TheToolServers!RefreshTools, TheToolServers!Send
<1>5. ASSUME NEW s \in Servers, TheToolServers!DeleteServer(s) PROVE ServersAllTyped'
  BY <1>5 DEF TheToolServers!DeleteServer, TheToolServers!Send
<1>6. ASSUME NEW s \in Servers, TheToolServers!RevokeGrant(s) PROVE ServersAllTyped'
  BY <1>6 DEF TheToolServers!RevokeGrant, TheToolServers!Send
<1>7. ASSUME NEW s \in Servers, TheToolServers!Grant(s) PROVE ServersAllTyped'
  BY <1>7 DEF TheToolServers!Grant
<1>8. ASSUME NEW c \in serversCalls, TheToolServers!Handle(c) PROVE ServersAllTyped'
  <2>1. serversCalls' \subseteq TheToolServers!Call /\ \A d \in serversCalls' : d.kind = "create" => d.server \in used
    BY <1>8 DEF TheToolServers!Handle, TheToolServers!To
  <2>2. servers' \subseteq used /\ tools' \subseteq servers' /\ grants' \subseteq servers'
    <3>1. CASE c.kind = "create"
      BY <1>8, <3>1 DEF TheToolServers!Handle
    <3>2. CASE c.kind = "delete"
      BY <1>8, <3>2 DEF TheToolServers!Handle
    <3>3. CASE c.kind = "revoke"
      BY <1>8, <3>3 DEF TheToolServers!Handle
    <3> QED
      BY <1>8, <3>1, <3>2, <3>3 DEF TheToolServers!Handle
  <2> QED
    BY <1>8, <2>1, <2>2 DEF TheToolServers!Handle
<1>9. ASSUME NEW c \in serversCalls, TheToolServers!AskServer(c) PROVE ServersAllTyped'
  BY <1>9 DEF TheToolServers!AskServer, TheToolServers!To
<1>10. ASSUME NEW c \in serversCalls, TheToolServers!StoreTools(c) PROVE ServersAllTyped'
  BY <1>10 DEF TheToolServers!StoreTools, TheToolServers!To
<1>11. ASSUME NEW c \in serversCalls, TheToolServers!Refuse(c) PROVE ServersAllTyped'
  BY <1>11 DEF TheToolServers!Refuse, TheToolServers!To
<1>12. ASSUME NEW c \in serversCalls, TheToolServers!Hear(c) PROVE ServersAllTyped'
  BY <1>12 DEF TheToolServers!Hear, TheToolServers!Refetched
<1>13. ASSUME NEW c \in serversCalls, TheToolServers!HearFailure(c) PROVE ServersAllTyped'
  BY <1>13 DEF TheToolServers!HearFailure
<1>14. ASSUME NEW c \in serversCalls, TheToolServers!Lose(c) PROVE ServersAllTyped'
  BY <1>14 DEF TheToolServers!Lose, TheToolServers!To
<1>15. ASSUME NEW l \in {"servers", "grants"}, TheToolServers!HearList(l) PROVE ServersAllTyped'
  BY <1>15 DEF TheToolServers!HearList
<1> QED
  BY <1>1, <1>2, <1>3, <1>4, <1>5, <1>6, <1>7, <1>8, <1>9, <1>10, <1>11, <1>12, <1>13, <1>14, <1>15 DEF TheToolServers!Next

LEMMA ServersStartTyped == ASSUME TheToolServers!ServersAssumption, TheToolServers!Init PROVE ServersAllTyped
<1>1. serversClicks \in 0 .. MaxClicks["servers"] /\ serversFaults \in 0 .. MaxFaults
  BY DEF TheToolServers!ServersAssumption, TheToolServers!Init
<1> QED
  BY <1>1 DEF TheToolServers!ServersAssumption, TheToolServers!Init, ServersAllTyped, TheToolServers!TypeOK


(* The teams.                                                              *)

TeamRanks == [TheTeam!People -> TheTeam!Roles]

TeamRest ==
    /\ selected \in Orgs \cup {NoName} /\ email \in Members \cup {NoName}
    /\ teamName \in BOOLEAN /\ teamDialog \in {"closed", "blank", "named"}
    /\ orgs \subseteq Orgs /\ members \in [Orgs -> TeamRanks] /\ teams \in [Orgs -> BOOLEAN]
    /\ teamGets \subseteq TheTeam!Get /\ teamCalls \subseteq TheTeam!Call
    /\ exists \subseteq Orgs /\ role \in [Orgs -> TeamRanks] /\ hasTeam \in [Orgs -> BOOLEAN]
    /\ removals \subseteq [org : Orgs, person : TheTeam!People, to : {"member", "none"}]
    /\ teamRaced \in BOOLEAN
    /\ teamClicks \in 0 .. MaxClicks["team"] /\ teamOthers \in 0 .. MaxOthers /\ teamFaults \in 0 .. MaxFaults

LEMMA TeamTypeIs == (TheTeam!TypeOK <=> TeamRest) /\ (TheTeam!TypeOK' <=> TeamRest')
  BY DEF TheTeam!TypeOK, TeamRest, TeamRanks

LEMMA TeamCallsMove ==
    \A c \in TheTeam!Call :
        /\ \A at \in {"counted", "done", "refused"} : [c EXCEPT !.at = at] \in TheTeam!Call
        /\ \A o \in Orgs \cup {NoName} : [c EXCEPT !.hears = o] \in TheTeam!Call
        /\ [c EXCEPT !.current = FALSE] \in TheTeam!Call
        /\ c.org \in Orgs /\ c.hears \in Orgs \cup {NoName}
  BY DEF TheTeam!Call

LEMMA TeamCallsBegin ==
    \A k \in TheTeam!Kinds, o \in Orgs, a \in TheTeam!People \cup {NoName}, h \in Orgs \cup {NoName} :
        [kind |-> k, org |-> o, arg |-> a, hears |-> h, current |-> TRUE, at |-> "sent"] \in TheTeam!Call
  BY DEF TheTeam!Call

LEMMA RankMoves ==
    ASSUME NEW r \in [Orgs -> TeamRanks], NEW o, NEW m, NEW x \in TheTeam!Roles
    PROVE  [r EXCEPT ![o][m] = x] \in [Orgs -> TeamRanks]
<1>1. CASE o \in Orgs
  <2>1. r[o] \in TeamRanks
    BY <1>1
  <2>2. [r[o] EXCEPT ![m] = x] \in TeamRanks
    BY <2>1 DEF TeamRanks
  <2> QED
    BY <2>2
<1>2. CASE o \notin Orgs
  BY <1>2
<1> QED
  BY <1>1, <1>2

LEMMA Reheard == \A c \in TheTeam!Call, o \in Orgs \cup {NoName} : TheTeam!Rehear(o, c) \in TheTeam!Call
  BY DEF TheTeam!Call, TheTeam!Rehear

LEMMA TeamNumbers == MaxClicks["team"] \in Nat /\ MaxOthers \in Nat /\ MaxFaults \in Nat
  BY TeamBounds DEF TheTeam!TeamAssumption

LEMMA SendsTyped ==
    ASSUME TeamRest, NEW k \in TheTeam!Kinds, NEW a \in TheTeam!People \cup {NoName}, selected # NoName,
           TheTeam!Send(k, a)
    PROVE  TeamRest'
<1>1. teamCalls' \subseteq TheTeam!Call
  <2>1. \A c \in teamCalls : c \in TheTeam!Call /\ [c EXCEPT !.current = FALSE] \in TheTeam!Call
    BY TeamCallsMove DEF TeamRest
  <2>2. [kind |-> k, org |-> selected, arg |-> a, hears |-> selected, current |-> TRUE, at |-> "sent"] \in TheTeam!Call
    BY TeamCallsBegin DEF TeamRest
  <2> QED
    BY <2>1, <2>2 DEF TheTeam!Send
<1>2. /\ teamClicks' \in 0 .. MaxClicks["team"]
      /\ UNCHANGED <<selected, email, teamName, teamDialog, orgs, members, teams, teamGets, exists, role, hasTeam,
                     removals, teamRaced, teamOthers, teamFaults>>
  BY TeamNumbers DEF TeamRest, TheTeam!Send, TheTeam!Click, TheTeam!page, TheTeam!lists, TheTeam!db
<1> QED
  BY <1>1, <1>2 DEF TeamRest

LEMMA LooksTyped ==
    \A o \in Orgs : /\ {[list |-> l, org |-> o] : l \in {"members", "teams"}} \subseteq TheTeam!Get
                    /\ [list : {"members", "teams"}, org : {o}] \subseteq TheTeam!Get
                    /\ [list |-> "orgs", org |-> NoName] \in TheTeam!Get
                    /\ [list |-> "members", org |-> o] \in TheTeam!Get /\ [list |-> "teams", org |-> o] \in TheTeam!Get
  BY DEF TheTeam!Get, TheTeam!Lists

LEMMA TeamStaysTyped ==
    ASSUME TeamRest, TheTeam!Next
    PROVE  TeamRest'
<1> USE DEF TeamRest, TheTeam!page, TheTeam!lists, TheTeam!db, TheTeam!Click
<1>1. ASSUME NEW o \in Orgs \cup {NoName}, TheTeam!onSelect(o) PROVE TeamRest'
  <2>1. teamCalls' \subseteq TheTeam!Call
    BY <1>1, Reheard DEF TheTeam!onSelect
  <2>2. teamGets' \subseteq TheTeam!Get /\ selected' \in Orgs \cup {NoName}
    BY <1>1, LooksTyped DEF TheTeam!onSelect, TheTeam!Selected
  <2> QED
    BY <1>1, <2>1, <2>2, TeamNumbers DEF TheTeam!onSelect
<1>2. ASSUME NEW e \in Members \cup {NoName}, TheTeam!Fill(e, teamName, teamDialog) PROVE TeamRest'
  BY <1>2, TeamCallsMove, TeamCallsBegin, TeamNumbers DEF TheTeam!Fill
<1>3. ASSUME NEW t \in BOOLEAN, TheTeam!Fill(email, t, teamDialog) PROVE TeamRest'
  BY <1>3, TeamCallsMove, TeamCallsBegin, TeamNumbers DEF TheTeam!Fill
<1>4. ASSUME NEW d \in {"closed", "blank", "named"}, TheTeam!Fill(email, teamName, d) PROVE TeamRest'
  BY <1>4, TeamCallsMove, TeamCallsBegin, TeamNumbers DEF TheTeam!Fill
<1>5. ASSUME NEW o \in Orgs, TheTeam!handleCreate(o) PROVE TeamRest'
  BY <1>5, TeamCallsMove, TeamCallsBegin, TeamNumbers DEF TheTeam!handleCreate, TheTeam!Kinds
<1>6. CASE TheTeam!handleInvite
  BY <1>6, SendsTyped DEF TheTeam!handleInvite, TheTeam!Kinds, TheTeam!People
<1>7. CASE TheTeam!handleCreateTeam
  BY <1>7, SendsTyped DEF TheTeam!handleCreateTeam, TheTeam!Kinds, TheTeam!People
<1>8. CASE TheTeam!deleteTeam
  BY <1>8, SendsTyped DEF TheTeam!deleteTeam, TheTeam!Kinds, TheTeam!People
<1>9. ASSUME NEW m \in TheTeam!People, TheTeam!removeMember(m) PROVE TeamRest'
  BY <1>9, SendsTyped DEF TheTeam!removeMember, TheTeam!Kinds, TheTeam!People
<1>10. ASSUME NEW c \in teamCalls, TheTeam!Refuse(c) PROVE TeamRest'
  BY <1>10, TeamCallsMove, TeamCallsBegin, TeamNumbers DEF TheTeam!Refuse, TheTeam!To
<1>11. ASSUME NEW c \in teamCalls, TheTeam!Handle(c) PROVE TeamRest'
  <2>1. role' \in [Orgs -> TeamRanks]
    BY <1>11, RankMoves DEF TheTeam!Handle, TheTeam!Roles
  <2> QED
    BY <1>11, <2>1, TeamCallsMove, TeamNumbers DEF TheTeam!Handle, TheTeam!To
<1>12. ASSUME NEW c \in teamCalls, TheTeam!remove_member(c) PROVE TeamRest'
  BY <1>12, TeamCallsMove, TeamCallsBegin, TeamNumbers DEF TheTeam!remove_member, TheTeam!To
<1>13. ASSUME NEW c \in teamCalls, TheTeam!Remove(c) PROVE TeamRest'
  <2>1. role' \in [Orgs -> TeamRanks]
    BY <1>13, RankMoves DEF TheTeam!Remove, TheTeam!Roles
  <2> QED
    BY <1>13, <2>1, TeamCallsMove, TeamNumbers DEF TheTeam!Remove, TheTeam!To
<1>14. ASSUME NEW c \in teamCalls, TheTeam!HearOrg(c) PROVE TeamRest'
  <2>1. c.org \in Orgs
    BY <1>14, TeamCallsMove
  <2>2. teamCalls' \subseteq TheTeam!Call
    BY <1>14, <2>1, Reheard DEF TheTeam!HearOrg
  <2>3. teamGets' \subseteq TheTeam!Get /\ selected' \in Orgs \cup {NoName}
    BY <1>14, <2>1, LooksTyped DEF TheTeam!HearOrg
  <2> QED
    BY <1>14, <2>2, <2>3 DEF TheTeam!HearOrg
<1>15. ASSUME NEW c \in teamCalls, TheTeam!Hear(c) PROVE TeamRest'
  <2>1. c.hears \in Orgs \cup {NoName}
    BY <1>15, TeamCallsMove
  <2>2. teamGets' \subseteq TheTeam!Get
    BY <1>15, <2>1, LooksTyped DEF TheTeam!Hear
  <2> QED
    BY <1>15, <2>2 DEF TheTeam!Hear
<1>16. ASSUME NEW c \in teamCalls, TheTeam!HearRefusal(c) PROVE TeamRest'
  BY <1>16, TeamCallsMove, TeamCallsBegin, TeamNumbers DEF TheTeam!HearRefusal
<1>17. ASSUME NEW c \in teamCalls, TheTeam!Lose(c) PROVE TeamRest'
  BY <1>17, TeamCallsMove, TeamCallsBegin, TeamNumbers DEF TheTeam!Lose
<1>18. ASSUME NEW o \in Orgs, NEW m \in TheTeam!People, TheTeam!Promote(o, m) PROVE TeamRest'
  <2>1. role' \in [Orgs -> TeamRanks]
    BY <1>18, RankMoves DEF TheTeam!Promote, TheTeam!Roles
  <2> QED
    BY <1>18, <2>1, TeamCallsMove, TeamNumbers DEF TheTeam!Promote, TheTeam!To
<1>19. ASSUME NEW o \in Orgs, NEW m \in TheTeam!People, NEW to \in {"member", "none"}, TheTeam!update_member_role(o, m, to) PROVE TeamRest'
  BY <1>19, TeamCallsMove, TeamCallsBegin, TeamNumbers DEF TheTeam!update_member_role
<1>20. ASSUME NEW r \in removals, TheTeam!Take(r) PROVE TeamRest'
  <2>1. role' \in [Orgs -> TeamRanks]
    BY <1>20, RankMoves DEF TheTeam!Take, TheTeam!Roles
  <2> QED
    BY <1>20, <2>1, TeamCallsMove, TeamNumbers DEF TheTeam!Take, TheTeam!To
<1>21. ASSUME NEW g \in teamGets, TheTeam!HearList(g) PROVE TeamRest'
  BY <1>21, TeamCallsMove, TeamCallsBegin, TeamNumbers DEF TheTeam!HearList, TheTeam!Get
<1> HIDE DEF TeamRest, TheTeam!page, TheTeam!lists, TheTeam!db, TheTeam!Click
<1> QED
  BY <1>1, <1>2, <1>3, <1>4, <1>5, <1>6, <1>7, <1>8, <1>9, <1>10, <1>11, <1>12, <1>13, <1>14, <1>15, <1>16, <1>17, <1>18, <1>19, <1>20, <1>21 DEF TheTeam!Next

LEMMA TeamStartsTyped == ASSUME TheTeam!TeamAssumption, TheTeam!Init PROVE TheTeam!TypeOK
<1>1. teamClicks \in 0 .. MaxClicks["team"] /\ teamOthers \in 0 .. MaxOthers /\ teamFaults \in 0 .. MaxFaults
  BY DEF TheTeam!TeamAssumption, TheTeam!Init
<1>2. TheTeam!Nobody \in [TheTeam!People -> TheTeam!Roles]
  BY DEF TheTeam!Nobody, TheTeam!Roles
<1>3. [TheTeam!Nobody EXCEPT ![Me] = "owner"] \in [TheTeam!People -> TheTeam!Roles]
  BY <1>2 DEF TheTeam!Roles, TheTeam!People
<1>4. role \in [Orgs -> [TheTeam!People -> TheTeam!Roles]] /\ members \in [Orgs -> [TheTeam!People -> TheTeam!Roles]]
  BY <1>2, <1>3 DEF TheTeam!Init
<1>5. teamGets \subseteq TheTeam!Get
  BY DEF TheTeam!Init, TheTeam!Get, TheTeam!Lists
<1> QED
  BY <1>1, <1>4, <1>5 DEF TheTeam!TeamAssumption, TheTeam!Init, TheTeam!TypeOK


(* The votes.                                                              *)

CommunityVote == [at : TheCommunity!Steps, value : {-1, 0, 1}, count : Int, tries : 0 .. MaxTries]

VotersTyped == TheCommunity!TypeOK /\ vote \in [TheCommunity!Voters -> CommunityVote]
                /\ communityShown = [mine |-> communityShown.mine, upvotes |-> communityShown.upvotes]

LEMMA VotersStayTyped ==
    ASSUME TheCommunity!CommunityAssumption, VotersTyped, TheCommunity!Next
    PROVE  VotersTyped'
<1> USE DEF VotersTyped, CommunityVote, TheCommunity!TypeOK, TheCommunity!CommunityAssumption,
            TheCommunity!Steps, TheCommunity!Voters, TheCommunity!Click
<1>1. CASE TheCommunity!TypeMessage
  BY <1>1 DEF TheCommunity!TypeMessage
<1>2. CASE TheCommunity!VoteAsGuest
  BY <1>2 DEF TheCommunity!VoteAsGuest
<1>3. CASE TheCommunity!handleTry
  BY <1>3 DEF TheCommunity!handleTry
<1>4. CASE TheCommunity!TrialFails
  BY <1>4 DEF TheCommunity!TrialFails
<1>5. CASE TheCommunity!HearAgent
  BY <1>5 DEF TheCommunity!HearAgent
<1>6. CASE TheCommunity!HearVote
  BY <1>6 DEF TheCommunity!HearVote, TheCommunity!NoVote
<1>7. ASSUME NEW r \in Results, TheCommunity!HearTrial(r) PROVE VotersTyped'
  BY <1>7 DEF TheCommunity!HearTrial
<1>8. ASSUME NEW x \in {-1, 1}, TheCommunity!handleVote(x) PROVE VotersTyped'
  BY <1>8 DEF TheCommunity!handleVote, TheCommunity!Asked
<1>9. ASSUME NEW x \in {-1, 1}, NEW v \in OtherVoters, TheCommunity!Cast(v, x) PROVE VotersTyped'
  BY <1>9 DEF TheCommunity!Cast, TheCommunity!Asked
<1>10. ASSUME NEW v \in TheCommunity!Voters, TheCommunity!LoadVote(v) PROVE VotersTyped'
  BY <1>10 DEF TheCommunity!LoadVote, TheCommunity!Counted
<1>11. ASSUME NEW v \in TheCommunity!Voters, TheCommunity!StoreVote(v) PROVE VotersTyped'
  BY <1>11 DEF TheCommunity!StoreVote
<1>12. ASSUME NEW v \in TheCommunity!Voters, TheCommunity!LoseVote(v) PROVE VotersTyped'
  BY <1>12 DEF TheCommunity!LoseVote
<1> HIDE DEF VotersTyped, CommunityVote, TheCommunity!TypeOK, TheCommunity!CommunityAssumption,
             TheCommunity!Steps, TheCommunity!Voters, TheCommunity!Click
<1> QED
  BY <1>1, <1>2, <1>3, <1>4, <1>5, <1>6, <1>7, <1>8, <1>9, <1>10, <1>11, <1>12 DEF TheCommunity!Next

LEMMA VotersStartTyped == ASSUME TheCommunity!CommunityAssumption, TheCommunity!Init PROVE VotersTyped
<1>1. communityClicks \in 0 .. MaxClicks["community"] /\ cast \in 0 .. MaxVotes /\ communityFaults \in 0 .. MaxFaults
  BY DEF TheCommunity!CommunityAssumption, TheCommunity!Init
<1>2. TheCommunity!NoVote \in CommunityVote
  BY DEF TheCommunity!NoVote, CommunityVote, TheCommunity!Steps, TheCommunity!CommunityAssumption
<1>3. vote \in [TheCommunity!Voters -> CommunityVote]
  BY <1>2 DEF TheCommunity!Init
<1>4. \A v \in TheCommunity!Voters : /\ vote[v].at \in TheCommunity!Steps /\ vote[v].value \in {-1, 0, 1}
                                     /\ vote[v].count \in Int /\ vote[v].tries \in 0 .. MaxTries
  BY <1>3 DEF CommunityVote
<1>5. /\ communityShown.mine = 0 /\ communityShown.upvotes = 0 /\ upvotes = 0
      /\ communityShown = [mine |-> communityShown.mine, upvotes |-> communityShown.upvotes]
  BY DEF TheCommunity!Init
<1>6. votes \in [TheCommunity!Voters -> {-1, 0, 1}]
  BY DEF TheCommunity!Init
<1>7. /\ communityOpen \in {"agent", "new", "login", "task", "made"} /\ message \in BOOLEAN
      /\ communityResult \in Results \cup {NoName} /\ communityGet \in BOOLEAN
      /\ trial \in {"none", "sent", "failed"} /\ communityRaced \in BOOLEAN
  BY DEF TheCommunity!Init
<1> QED
  BY <1>1, <1>3, <1>4, <1>5, <1>6, <1>7 DEF VotersTyped, TheCommunity!TypeOK

-----------------------------------------------------------------------------
(***************************************************************************)
(* The settings.                                                           *)
(***************************************************************************)

SettingsCall == [at : {"none", "sent", "loaded", "done", "listing", "listed", "failed"},
                 arg : Keys \cup Providers \cup {"", "0", "n"} \cup {NoName}, copy : SUBSET Providers,
                 tries : 0 .. MaxTries]

\* What a call has for argument, until its answer is heard.
ArgFits(k, c) ==
    /\ k = "generate" => c.arg \in Keys \cup {NoName}
    /\ k = "limit" /\ c.at \in {"sent", "done"} => c.arg \in {"", "0", "n"}
    /\ k \in {"save", "remove"} /\ c.at \in {"sent", "loaded", "done"} => c.arg \in Providers
    /\ c.at = "loaded" => k \in {"save", "remove"}

SettingsCalls == settingsCall \in [TheSettings!Kinds -> SettingsCall]
                 /\ \A k \in TheSettings!Kinds : ArgFits(k, settingsCall[k])

SettingsUser == [key : Keys \cup {NoName}, revoked : BOOLEAN, limit : {"", "0", "n"},
                 llm : SUBSET Providers, active : BOOLEAN]

SettingsPage ==
    /\ settingsOpen \in BOOLEAN /\ limit \in {"", "0", "n"} /\ naming \in BOOLEAN
    /\ settingsShown \in Keys \cup {NoName}
    /\ revokeOpen \in BOOLEAN /\ deleteOpen \in {"no", "asked", "typed"}
    /\ provider \in Providers \cup {NoName} /\ doomed \in Providers \cup {NoName}
    /\ settingsListed \in SUBSET Providers
    /\ settingsPast \subseteq {"revoked", "repeated"}
    /\ settingsClicks \in 0 .. MaxClicks["settings"] /\ settingsFaults \in 0 .. MaxFaults

SettingsTyped == SettingsCalls /\ settingsUser \in SettingsUser /\ SettingsPage

LEMMA SettingsAreTyped == SettingsTyped => TheSettings!TypeOK
  BY DEF SettingsTyped, SettingsCalls, SettingsCall, SettingsUser, SettingsPage, TheSettings!TypeOK, TheSettings!Limits

LEMMA SettingsNumbers ==
    ASSUME TheSettings!SettingsAssumption
    PROVE  MaxTries \in Nat \ {0} /\ MaxFaults \in Nat /\ MaxClicks["settings"] \in Nat
  BY DEF TheSettings!SettingsAssumption

LEMMA SettingsCount ==
    ASSUME TheSettings!SettingsAssumption
    PROVE  /\ TheSettings!Click /\ settingsClicks \in 0 .. MaxClicks["settings"] => settingsClicks' \in 0 .. MaxClicks["settings"]
           /\ TheSettings!Fault /\ settingsFaults \in 0 .. MaxFaults => settingsFaults' \in 0 .. MaxFaults
           /\ 0 \in 0 .. MaxClicks["settings"] /\ 0 \in 0 .. MaxFaults
  BY SettingsNumbers DEF TheSettings!Click, TheSettings!Fault

LEMMA IdleFits ==
    ASSUME TheSettings!SettingsAssumption
    PROVE  /\ TheSettings!Idle \in SettingsCall /\ \A k : ArgFits(k, TheSettings!Idle)
           /\ LET d == [TheSettings!Idle EXCEPT !.at = "listing", !.tries = 1]
              IN d \in SettingsCall /\ \A k : ArgFits(k, d)
           /\ \A k, x : LET d == [TheSettings!Idle EXCEPT !.at = "sent", !.arg = x, !.tries = 1]
                        IN /\ x \in Keys \cup Providers \cup {"", "0", "n"} \cup {NoName} => d \in SettingsCall
                           /\ /\ k = "generate" => x = NoName
                              /\ k = "limit" => x \in {"", "n"}
                              /\ k \in {"save", "remove"} => x \in Providers
                              => ArgFits(k, d)
<1>1. 0 \in 0 .. MaxTries /\ 1 \in 0 .. MaxTries
  BY SettingsNumbers
<1>2. TheSettings!Idle = [at |-> "none", arg |-> NoName, copy |-> {}, tries |-> 0]
  BY DEF TheSettings!Idle
<1>3. TheSettings!Idle \in SettingsCall /\ \A k : ArgFits(k, TheSettings!Idle)
  BY <1>1, <1>2 DEF SettingsCall, ArgFits
<1>4. LET d == [TheSettings!Idle EXCEPT !.at = "listing", !.tries = 1]
      IN d \in SettingsCall /\ \A k : ArgFits(k, d)
  BY <1>1, <1>2 DEF SettingsCall, ArgFits
<1>5. ASSUME NEW k, NEW x
      PROVE  LET d == [TheSettings!Idle EXCEPT !.at = "sent", !.arg = x, !.tries = 1]
             IN /\ x \in Keys \cup Providers \cup {"", "0", "n"} \cup {NoName} => d \in SettingsCall
                /\ /\ k = "generate" => x = NoName
                   /\ k = "limit" => x \in {"", "n"}
                   /\ k \in {"save", "remove"} => x \in Providers
                   => ArgFits(k, d)
  BY <1>1, <1>2 DEF SettingsCall, ArgFits
<1> QED
  BY <1>3, <1>4, <1>5

LEMMA InitSettings == ASSUME TheSettings!SettingsAssumption, TheSettings!Init PROVE SettingsTyped
<1>1. \A k \in TheSettings!Kinds : settingsCall[k] \in SettingsCall /\ ArgFits(k, settingsCall[k])
  BY IdleFits DEF TheSettings!Init
<1>2. SettingsCalls
  BY <1>1 DEF SettingsCalls, TheSettings!Init
<1>3. settingsUser \in SettingsUser
  BY DEF TheSettings!Init, SettingsUser
<1>4. SettingsPage
  BY SettingsCount DEF TheSettings!Init, SettingsPage
<1> QED
  BY <1>2, <1>3, <1>4 DEF SettingsTyped

LEMMA CallsStayTyped ==
    ASSUME SettingsCalls, NEW k \in TheSettings!Kinds, NEW c \in SettingsCall, ArgFits(k, c),
           settingsCall' = [settingsCall EXCEPT ![k] = c]
    PROVE  SettingsCalls'
<1>1. settingsCall' \in [TheSettings!Kinds -> SettingsCall]
  BY DEF SettingsCalls
<1>2. ASSUME NEW j \in TheSettings!Kinds PROVE ArgFits(j, settingsCall'[j])
  <2>1. settingsCall'[j] = IF j = k THEN c ELSE settingsCall[j]
    BY DEF SettingsCalls
  <2> QED
    BY <2>1 DEF SettingsCalls
<1> QED
  BY <1>1, <1>2 DEF SettingsCalls, ArgFits

LEMMA SettingsCallMoves ==
    ASSUME NEW k, NEW c \in SettingsCall, ArgFits(k, c)
    PROVE  /\ \A at \in {"loaded", "listed"}, y \in SUBSET Providers :
                 LET d == [c EXCEPT !.at = at, !.copy = y]
                 IN d \in SettingsCall /\ ((at = "loaded" => c.at = "sent" /\ k \in {"save", "remove"}) => ArgFits(k, d))
           /\ LET d == [c EXCEPT !.at = "failed"] IN d \in SettingsCall /\ ArgFits(k, d)
           /\ LET d == [c EXCEPT !.at = "done", !.arg = c.arg]
              IN d \in SettingsCall /\ (c.at \in {"sent", "loaded"} => ArgFits(k, d))
  BY DEF SettingsCall, ArgFits

LEMMA SettingsStayTyped ==
    ASSUME TheSettings!SettingsAssumption, SettingsTyped, TheSettings!Next
    PROVE  SettingsTyped'
<1> USE DEF SettingsTyped
<1>0. "settings" \in {"settings"} /\ {"limit", "generate", "revoke", "save", "remove", "list", "export", "delete"} = TheSettings!Kinds
  BY DEF TheSettings!Kinds
<1>1. ASSUME NEW k \in TheSettings!Kinds \ {"generate"}, NEW arg, TheSettings!Ask(k, arg), arg \in Providers \cup {"", "n", NoName},
             k = "limit" => arg \in {"", "n"}, k \in {"save", "remove"} => arg \in Providers,
             UNCHANGED <<limit, naming, settingsShown, revokeOpen, deleteOpen, provider, settingsListed>>,
             doomed' \in {doomed, NoName}, settingsPast' \in {settingsPast, settingsPast \cup {"revoked"}}
      PROVE  SettingsTyped'
  <2> DEFINE c == [TheSettings!Idle EXCEPT !.at = "sent", !.arg = arg, !.tries = 1]
  <2>1. c \in SettingsCall /\ ArgFits(k, c)
    BY <1>1, IdleFits
  <2>2. settingsCall' = [settingsCall EXCEPT ![k] = c]
    BY <1>1 DEF TheSettings!Ask
  <2> HIDE DEF c
  <2>3. SettingsCalls'
    BY <2>1, <2>2, CallsStayTyped
  <2>4. SettingsPage' /\ settingsUser' = settingsUser
    BY <1>1, SettingsCount DEF TheSettings!Ask, SettingsPage, TheSettings!fields
  <2> QED
    BY <2>3, <2>4 DEF SettingsUser
<1>2. ASSUME TheSettings!Ask("generate", NoName), UNCHANGED <<TheSettings!fields, settingsPast>> PROVE SettingsTyped'
  <2> DEFINE c == [TheSettings!Idle EXCEPT !.at = "sent", !.arg = NoName, !.tries = 1]
  <2>1. c \in SettingsCall /\ ArgFits("generate", c)
    BY IdleFits
  <2>2. settingsCall' = [settingsCall EXCEPT !["generate"] = c]
    BY <1>2 DEF TheSettings!Ask
  <2> HIDE DEF c
  <2>3. SettingsCalls'
    BY <1>0, <2>1, <2>2, CallsStayTyped
  <2>4. SettingsPage' /\ settingsUser' = settingsUser
    BY <1>2, SettingsCount DEF TheSettings!Ask, SettingsPage, TheSettings!fields
  <2> QED
    BY <2>3, <2>4 DEF SettingsUser
<1>3. ASSUME SettingsPage', settingsUser' = settingsUser, settingsCall' = settingsCall PROVE SettingsTyped'
  BY <1>3 DEF SettingsCalls, ArgFits
<1>10. ASSUME NEW l \in TheSettings!Limits, TheSettings!TypeLimit(l) PROVE SettingsTyped'
  <2>1. SettingsPage' /\ settingsUser' = settingsUser /\ settingsCall' = settingsCall
    BY <1>10, SettingsCount DEF TheSettings!TypeLimit, TheSettings!Limits, SettingsPage
  <2> QED
    BY <1>3, <2>1
<1>11. CASE TheSettings!AskDelete
  <2>1. SettingsPage' /\ settingsUser' = settingsUser /\ settingsCall' = settingsCall
    BY <1>11, SettingsCount DEF TheSettings!AskDelete, TheSettings!Limits, SettingsPage
  <2> QED
    BY <1>3, <2>1
<1>12. CASE TheSettings!CancelDelete
  <2>1. SettingsPage' /\ settingsUser' = settingsUser /\ settingsCall' = settingsCall
    BY <1>12, SettingsCount DEF TheSettings!CancelDelete, TheSettings!Limits, SettingsPage
  <2> QED
    BY <1>3, <2>1
<1>13. CASE TheSettings!TypeKeyName
  <2>1. SettingsPage' /\ settingsUser' = settingsUser /\ settingsCall' = settingsCall
    BY <1>13, SettingsCount DEF TheSettings!TypeKeyName, TheSettings!Limits, SettingsPage
  <2> QED
    BY <1>3, <2>1
<1>14. ASSUME NEW b \in BOOLEAN, TheSettings!AskRevoke(b) PROVE SettingsTyped'
  <2>1. SettingsPage' /\ settingsUser' = settingsUser /\ settingsCall' = settingsCall
    BY <1>14, SettingsCount DEF TheSettings!AskRevoke, TheSettings!Limits, SettingsPage
  <2> QED
    BY <1>3, <2>1
<1>15. ASSUME NEW v \in Providers, TheSettings!SelectProvider(v) PROVE SettingsTyped'
  <2>1. SettingsPage' /\ settingsUser' = settingsUser /\ settingsCall' = settingsCall
    BY <1>15, SettingsCount DEF TheSettings!SelectProvider, TheSettings!Limits, SettingsPage
  <2> QED
    BY <1>3, <2>1
<1>16. ASSUME NEW v \in Providers \cup {NoName}, TheSettings!Doom(v) PROVE SettingsTyped'
  <2>1. SettingsPage' /\ settingsUser' = settingsUser /\ settingsCall' = settingsCall
    BY <1>16, SettingsCount DEF TheSettings!Doom, TheSettings!Limits, SettingsPage
  <2> QED
    BY <1>3, <2>1
<1>4. CASE \/ TheSettings!handleSaveSpendLimit \/ TheSettings!handleExportData \/ TheSettings!handleDeleteAccount
           \/ TheSettings!handleRevokeKey \/ TheSettings!handleSaveKey \/ TheSettings!handleDeleteKey
  BY <1>0, <1>1, <1>4 DEF TheSettings!handleSaveSpendLimit, TheSettings!handleExportData,
        TheSettings!handleDeleteAccount, TheSettings!handleRevokeKey, TheSettings!handleSaveKey,
        TheSettings!handleDeleteKey, TheSettings!fields, SettingsPage
<1>5. CASE TheSettings!handleGenerateKey
  BY <1>2, <1>5 DEF TheSettings!handleGenerateKey
<1>6. ASSUME NEW n \in Keys, TheSettings!create_api_key(n) PROVE SettingsTyped'
  <2> DEFINE c == [settingsCall["generate"] EXCEPT !.at = "done", !.arg = n]
  <2>1. c \in SettingsCall /\ ArgFits("generate", c)
    <3>1. settingsCall["generate"] \in SettingsCall
      BY <1>0 DEF SettingsCalls
    <3> QED
      BY <3>1 DEF SettingsCall, ArgFits
  <2>2. settingsCall' = [settingsCall EXCEPT !["generate"] = c]
    BY <1>6 DEF TheSettings!create_api_key, TheSettings!Answer
  <2> HIDE DEF c
  <2>3. SettingsCalls'
    BY <1>0, <2>1, <2>2, CallsStayTyped
  <2>4. SettingsPage' /\ settingsUser' \in SettingsUser
    BY <1>6 DEF TheSettings!create_api_key, TheSettings!fields, SettingsPage, SettingsUser
  <2> QED
    BY <2>3, <2>4 DEF SettingsUser
<1>7. ASSUME NEW k \in TheSettings!Kinds, TheSettings!Serve(k) \/ TheSettings!StoreKeys(k) PROVE SettingsTyped'
  <2> DEFINE c == [settingsCall[k] EXCEPT !.at = "done", !.arg = settingsCall[k].arg]
  <2>0. settingsCall[k] \in SettingsCall /\ ArgFits(k, settingsCall[k])
    BY DEF SettingsCalls
  <2>1. settingsCall' = [settingsCall EXCEPT ![k] = c]
    BY <1>7 DEF TheSettings!Serve, TheSettings!StoreKeys, TheSettings!Answer
  <2>2. settingsCall[k].at \in {"sent", "loaded"}
    BY <1>7 DEF TheSettings!Serve, TheSettings!StoreKeys
  <2>3. c \in SettingsCall /\ ArgFits(k, c)
    BY <2>0, <2>2, SettingsCallMoves
  <2> HIDE DEF c
  <2>4. SettingsCalls'
    BY <2>1, <2>3, CallsStayTyped
  <2>5. settingsUser' \in SettingsUser
    <3>1. CASE TheSettings!Serve(k)
      <4>1. k = "limit" => settingsCall[k].arg \in {"", "0", "n"}
        BY <2>0, <3>1 DEF TheSettings!Serve, ArgFits
      <4> QED
        BY <3>1, <4>1 DEF TheSettings!Serve, TheSettings!Effect, SettingsUser
    <3>2. CASE TheSettings!StoreKeys(k)
      <4>1. settingsCall[k].arg \in Providers /\ settingsCall[k].copy \subseteq Providers
        BY <2>0, <3>2 DEF TheSettings!StoreKeys, ArgFits, SettingsCall
      <4>2. PICK L \in SUBSET Providers : settingsUser' = [settingsUser EXCEPT !.llm = L]
        BY <3>2, <4>1 DEF TheSettings!StoreKeys
      <4> QED
        BY <4>2 DEF SettingsUser
    <3> QED
      BY <1>7, <3>1, <3>2
  <2>6. SettingsPage'
    BY <1>7 DEF TheSettings!Serve, TheSettings!StoreKeys, TheSettings!fields, SettingsPage
  <2> QED
    BY <2>4, <2>5, <2>6 DEF SettingsUser
<1>8. ASSUME NEW k \in TheSettings!Kinds, TheSettings!LoadKeys(k) \/ TheSettings!list_llm_keys(k) PROVE SettingsTyped'
  <2>0. settingsCall[k] \in SettingsCall /\ ArgFits(k, settingsCall[k]) /\ settingsUser.llm \in SUBSET Providers
    BY DEF SettingsCalls, SettingsUser
  <2>1. PICK at \in {"loaded", "listed"} :
           /\ settingsCall' = [settingsCall EXCEPT ![k] = [settingsCall[k] EXCEPT !.at = at, !.copy = settingsUser.llm]]
           /\ at = "loaded" => settingsCall[k].at = "sent" /\ k \in {"save", "remove"}
    BY <1>8 DEF TheSettings!LoadKeys, TheSettings!list_llm_keys
  <2> DEFINE c == [settingsCall[k] EXCEPT !.at = at, !.copy = settingsUser.llm]
  <2>2. c \in SettingsCall /\ ArgFits(k, c)
    BY <2>0, <2>1, SettingsCallMoves
  <2>3. settingsCall' = [settingsCall EXCEPT ![k] = c]
    BY <2>1
  <2> HIDE DEF c
  <2>4. SettingsCalls'
    BY <2>2, <2>3, CallsStayTyped
  <2>5. SettingsPage' /\ settingsUser' = settingsUser
    BY <1>8 DEF TheSettings!LoadKeys, TheSettings!list_llm_keys, TheSettings!fields, SettingsPage
  <2> QED
    BY <2>4, <2>5 DEF SettingsUser
<1>9. ASSUME NEW k \in TheSettings!Kinds, TheSettings!Refuse(k) PROVE SettingsTyped'
  <2> DEFINE c == [settingsCall[k] EXCEPT !.at = "failed"]
  <2>1. settingsCall[k] \in SettingsCall /\ ArgFits(k, settingsCall[k])
    BY DEF SettingsCalls
  <2>2. c \in SettingsCall /\ ArgFits(k, c)
    BY <2>1, SettingsCallMoves
  <2>3. settingsCall' = [settingsCall EXCEPT ![k] = c]
    BY <1>9 DEF TheSettings!Refuse
  <2> HIDE DEF c
  <2>4. SettingsCalls'
    BY <2>2, <2>3, CallsStayTyped
  <2>5. SettingsPage' /\ settingsUser' = settingsUser
    BY <1>9 DEF TheSettings!Refuse, TheSettings!fields, SettingsPage
  <2> QED
    BY <2>4, <2>5 DEF SettingsUser
<1>17. ASSUME NEW k \in TheSettings!Kinds, TheSettings!Lose(k) PROVE SettingsTyped'
  <2> DEFINE old == settingsCall[k]
             at == IF old.tries = MaxTries THEN "failed" ELSE IF old.at \in {"sent", "done"} THEN "sent" ELSE "listing"
             tries == IF old.tries < MaxTries THEN old.tries + 1 ELSE old.tries
             c == [old EXCEPT !.at = at, !.tries = tries]
  <2>1. old \in SettingsCall /\ ArgFits(k, old)
    BY DEF SettingsCalls
  <2>2. old.at \in {"sent", "done", "listing", "listed"} /\ settingsCall' = [settingsCall EXCEPT ![k] = c]
    BY <1>17 DEF TheSettings!Lose
  <2>3. tries \in 0 .. MaxTries
    <3>1. old.tries \in 0 .. MaxTries
      BY <2>1 DEF SettingsCall
    <3> HIDE DEF old
    <3> QED
      BY <3>1, SettingsNumbers
  <2> HIDE DEF tries, old
  <2>4. c \in SettingsCall /\ ArgFits(k, c)
    BY <2>1, <2>2, <2>3 DEF SettingsCall, ArgFits
  <2> HIDE DEF c
  <2>5. SettingsCalls'
    BY <2>2, <2>4, CallsStayTyped
  <2>6. SettingsPage' /\ settingsUser' = settingsUser
    BY <1>17, SettingsCount DEF TheSettings!Lose, TheSettings!fields, SettingsPage
  <2> QED
    BY <2>5, <2>6 DEF SettingsUser
<1>18. ASSUME NEW k \in TheSettings!Kinds, TheSettings!Hear(k) \/ TheSettings!loadLLMKeys(k) \/ TheSettings!HearFailure(k)
       PROVE  SettingsTyped'
  <2>1. settingsCall[k] \in SettingsCall /\ ArgFits(k, settingsCall[k])
    BY DEF SettingsCalls
  <2>2. PICK c \in {TheSettings!Idle, [TheSettings!Idle EXCEPT !.at = "listing", !.tries = 1]} :
           settingsCall' = [settingsCall EXCEPT ![k] = c]
    BY <1>18 DEF TheSettings!Hear, TheSettings!loadLLMKeys, TheSettings!HearFailure, TheSettings!Ended
  <2>3. SettingsCalls'
    BY <2>2, IdleFits, CallsStayTyped
  <2>4. SettingsPage' /\ settingsUser' = settingsUser
    <3>1. CASE TheSettings!Hear(k)
      BY <2>1, <3>1 DEF TheSettings!Hear, SettingsPage, ArgFits
    <3>2. CASE TheSettings!loadLLMKeys(k)
      BY <2>1, <3>2 DEF TheSettings!loadLLMKeys, SettingsPage, SettingsCall
    <3>3. CASE TheSettings!HearFailure(k)
      BY <3>3 DEF TheSettings!HearFailure, TheSettings!fields, SettingsPage
    <3> QED
      BY <1>18, <3>1, <3>2, <3>3
  <2> QED
    BY <2>3, <2>4 DEF SettingsUser
<1> HIDE DEF SettingsTyped
<1> QED
  BY <1>4, <1>5, <1>6, <1>7, <1>8, <1>9, <1>10, <1>11, <1>12, <1>13, <1>14, <1>15, <1>16, <1>17, <1>18 DEF TheSettings!Next

-----------------------------------------------------------------------------
(***************************************************************************)
(* The payouts.                                                            *)
(***************************************************************************)

PayoutsRequestRow == [at : {"none", "sent", "checked", "refused", "completed", "failed", "lost"},
                      amount : ThePayouts!Amounts]

LEMMA PayoutsNumbers ==
    ASSUME ThePayouts!PayoutsAssumption
    PROVE  /\ Cleared \in Nat /\ Balance \in Nat /\ MaxTries \in Nat \ {0} /\ MaxFaults \in Nat
           /\ MaxClicks["payouts"] \in Nat
           /\ 0 \in 0 .. MaxTries /\ 1 \in 0 .. MaxTries /\ 0 \in ThePayouts!Amounts
           /\ 0 .. Cleared \subseteq ThePayouts!Amounts /\ ThePayouts!Amounts \subseteq Nat
           /\ ThePayouts!Click /\ payoutsClicks \in 0 .. MaxClicks["payouts"] => payoutsClicks' \in 0 .. MaxClicks["payouts"]
           /\ ThePayouts!Fault /\ payoutsFaults \in 0 .. MaxFaults => payoutsFaults' \in 0 .. MaxFaults
           /\ 0 \in 0 .. MaxClicks["payouts"] /\ 0 \in 0 .. MaxFaults
<1>1. /\ Cleared \in Nat /\ Balance \in Nat /\ MaxTries \in Nat \ {0} /\ MaxFaults \in Nat
      /\ MaxClicks["payouts"] \in Nat
  BY DEF ThePayouts!PayoutsAssumption
<1>2. 0 \in ThePayouts!Amounts /\ 0 .. Cleared \subseteq ThePayouts!Amounts /\ ThePayouts!Amounts \subseteq Nat
  BY <1>1 DEF ThePayouts!Amounts
<1>3. /\ ThePayouts!Click /\ payoutsClicks \in 0 .. MaxClicks["payouts"] => payoutsClicks' \in 0 .. MaxClicks["payouts"]
      /\ ThePayouts!Fault /\ payoutsFaults \in 0 .. MaxFaults => payoutsFaults' \in 0 .. MaxFaults
      /\ 0 \in 0 .. MaxClicks["payouts"] /\ 0 \in 0 .. MaxFaults
  BY <1>1 DEF ThePayouts!Click, ThePayouts!Fault
<1> QED
  BY <1>1, <1>2, <1>3

PayoutsCounts == payoutsClicks \in 0 .. MaxClicks["payouts"] /\ payoutsFaults \in 0 .. MaxFaults

PayoutsPage ==
    /\ payoutsView \in {"page", "leaving", "stripe", "left"} /\ payoutsDialog \in BOOLEAN
    /\ amount \in ThePayouts!Amounts
    /\ payoutsShown \in [withdrawable : ThePayouts!Amounts, onboarded : BOOLEAN]
    /\ awaited \in [request : SUBSET Requests, tries : 0 .. MaxTries]
    /\ again \in BOOLEAN

PayoutsService ==
    /\ connect \in [stripe : {"none", "created", "submitted", "enabled"}, row : {"none", "created", "submitted", "enabled"}]
    /\ payoutsRequest \in [Requests -> PayoutsRequestRow]
    /\ sent \in SUBSET Requests

Credits == [balance : Nat, reserved : Nat]
PayoutsAccount == account \in Credits /\ payoutsCopy \in [Requests -> Credits]

PayoutsTyped == PayoutsPage /\ PayoutsService /\ PayoutsAccount /\ PayoutsCounts

LEMMA PayoutsAreTyped == PayoutsTyped => ThePayouts!TypeOK
  BY DEF PayoutsTyped, PayoutsPage, PayoutsService, PayoutsAccount, PayoutsCounts, PayoutsRequestRow,
         Credits, ThePayouts!TypeOK, ThePayouts!Links, ThePayouts!Recorded

LEMMA PayoutsStartTyped == ASSUME ThePayouts!PayoutsAssumption, ThePayouts!Init PROVE PayoutsTyped
<1>1. PayoutsPage
  BY PayoutsNumbers DEF ThePayouts!Init, PayoutsPage, ThePayouts!NoWithdrawal
<1>2. PayoutsService
  BY PayoutsNumbers DEF ThePayouts!Init, PayoutsService, PayoutsRequestRow, ThePayouts!NoRequest
<1>3. PayoutsAccount
  BY PayoutsNumbers DEF ThePayouts!Init, PayoutsAccount, Credits, ThePayouts!NoCopy
<1>4. PayoutsCounts
  BY PayoutsNumbers DEF ThePayouts!Init, PayoutsCounts
<1> QED
  BY <1>1, <1>2, <1>3, <1>4 DEF PayoutsTyped

LEMMA WithdrawableFits ==
    ASSUME ThePayouts!PayoutsAssumption, IsFiniteSet(Requests), PayoutsService
    PROVE  ThePayouts!get_withdrawable_balance \in ThePayouts!Amounts
<1> DEFINE total == ThePayouts!Total(ThePayouts!PaidOut)
<1>1. total = SumFunctionOnSet(AmountsOf(payoutsRequest), ThePayouts!PaidOut)
  BY TotalIsSum
<1>2. \A r \in Requests : payoutsRequest[r].amount \in Nat
  BY PayoutsNumbers DEF PayoutsService, PayoutsRequestRow
<1>3. /\ ThePayouts!PaidOut \subseteq Requests /\ IsFiniteSet(ThePayouts!PaidOut)
      /\ \A r \in ThePayouts!PaidOut : AmountsOf(payoutsRequest)[r] \in Nat
  BY <1>2, FS_Subset DEF ThePayouts!PaidOut, AmountsOf
<1>4. total \in Nat
  BY <1>1, <1>3, SumOfNats
<1>5. ThePayouts!get_withdrawable_balance = IF total >= Cleared THEN 0 ELSE Cleared - total
  BY DEF ThePayouts!get_withdrawable_balance
<1> HIDE DEF total
<1>6. ThePayouts!get_withdrawable_balance \in 0 .. Cleared
  BY <1>4, <1>5, PayoutsNumbers
<1> QED
  BY <1>6, PayoutsNumbers

LEMMA RequestsStayTyped ==
    ASSUME PayoutsService, NEW r \in Requests, NEW row \in PayoutsRequestRow,
           payoutsRequest' = [payoutsRequest EXCEPT ![r] = row]
    PROVE  payoutsRequest' \in [Requests -> PayoutsRequestRow]
  BY DEF PayoutsService

LEMMA RequestMoves ==
    ASSUME NEW row \in PayoutsRequestRow
    PROVE  \A at \in {"checked", "refused", "completed", "failed", "lost"} : [row EXCEPT !.at = at] \in PayoutsRequestRow
  BY DEF PayoutsRequestRow

\* What a request writes to the account, and loads of it.
LEMMA CreditsStayTyped ==
    ASSUME NEW acct \in Credits, NEW n \in Nat
    PROVE  /\ [acct EXCEPT !.balance = n] \in Credits /\ [acct EXCEPT !.reserved = n] \in Credits
           /\ acct.balance \in Nat /\ acct.reserved \in Nat
  BY DEF Credits

LEMMA CopyStaysTyped ==
    ASSUME PayoutsAccount, NEW r \in Requests, NEW c,
           c = account \/ c = ThePayouts!NoCopy, payoutsCopy' = [payoutsCopy EXCEPT ![r] = c]
    PROVE  payoutsCopy' \in [Requests -> Credits]
<1>1. c \in Credits
  BY DEF PayoutsAccount, Credits, ThePayouts!NoCopy
<1> QED
  BY <1>1 DEF PayoutsAccount

LEMMA PaymentStaysTyped ==
    ASSUME PayoutsAccount, NEW r \in Requests, payoutsRequest[r].amount \in Nat,
           ThePayouts!request_payout(r)
    PROVE  account' \in Credits
<1> DEFINE n == payoutsRequest[r].amount
           c == payoutsCopy[r]
<1>1. c \in Credits /\ n \in Nat /\ account \in Credits
  BY DEF PayoutsAccount
<1>2. \/ account' = account
      \/ c.balance >= c.reserved + n /\ account' = [account EXCEPT !.balance = c.balance - n]
      \/ account' = [account EXCEPT !.balance = c.balance]
  BY DEF ThePayouts!request_payout, ThePayouts!Suffices
<1> HIDE DEF c, n
<1>3. c.balance \in Nat /\ c.reserved \in Nat
  BY <1>1, CreditsStayTyped
<1>4. c.balance >= c.reserved + n => c.balance - n \in Nat
  BY <1>1, <1>3
<1> QED
  BY <1>1, <1>2, <1>3, <1>4, CreditsStayTyped

LEMMA PayoutsStayTyped ==
    ASSUME ThePayouts!PayoutsAssumption, IsFiniteSet(Requests), PayoutsTyped, ThePayouts!Next
    PROVE  PayoutsTyped'
<1> USE DEF PayoutsTyped
<1>0. ThePayouts!Amounts' = ThePayouts!Amounts
  BY DEF ThePayouts!Amounts
<1>1. ASSUME NEW r \in Requests, NEW at \in {"checked", "refused", "completed", "failed", "lost"},
             payoutsRequest' = [payoutsRequest EXCEPT ![r].at = at]
      PROVE  payoutsRequest' \in [Requests -> PayoutsRequestRow]
  <2>1. payoutsRequest[r] \in PayoutsRequestRow
    BY DEF PayoutsService
  <2>2. payoutsRequest' = [payoutsRequest EXCEPT ![r] = [payoutsRequest[r] EXCEPT !.at = at]]
    BY <1>1
  <2> QED
    BY <2>1, <2>2, RequestMoves, RequestsStayTyped
<1>2. ASSUME NEW r \in Requests, ThePayouts!Check(r) PROVE PayoutsTyped'
  <2>1. PICK at \in {"checked", "refused"} : payoutsRequest' = [payoutsRequest EXCEPT ![r].at = at]
    BY <1>2 DEF ThePayouts!Check, ThePayouts!Verdict
  <2>2. payoutsRequest' \in [Requests -> PayoutsRequestRow]
    BY <1>1, <2>1
  <2>3. payoutsCopy' \in [Requests -> Credits]
    BY <1>2, CopyStaysTyped DEF ThePayouts!Check
  <2>4. PayoutsAccount'
    BY <1>2, <2>3 DEF ThePayouts!Check, PayoutsAccount
  <2> QED
    BY <1>0, <1>2, <2>2, <2>4 DEF ThePayouts!Check, ThePayouts!page, PayoutsPage, PayoutsService, PayoutsCounts, PayoutsRequestRow
<1>3. ASSUME NEW r \in Requests, ThePayouts!request_payout(r) PROVE PayoutsTyped'
  <2>1. PICK at \in {"refused", "completed", "failed"} : payoutsRequest' = [payoutsRequest EXCEPT ![r].at = at]
    BY <1>3 DEF ThePayouts!request_payout
  <2>2. payoutsRequest' \in [Requests -> PayoutsRequestRow]
    BY <1>1, <2>1
  <2>3. PayoutsCounts'
    BY <1>3, PayoutsNumbers DEF ThePayouts!request_payout, PayoutsCounts
  <2>4. PayoutsAccount'
    <3>1. payoutsRequest[r].amount \in Nat
      BY PayoutsNumbers DEF PayoutsService, PayoutsRequestRow
    <3>2. payoutsCopy' \in [Requests -> Credits]
      BY <1>3, CopyStaysTyped DEF ThePayouts!request_payout
    <3>3. account' \in Credits
      BY <1>3, <3>1, PaymentStaysTyped
    <3> QED
      BY <3>2, <3>3 DEF PayoutsAccount
  <2>5. sent' \in SUBSET Requests
    BY <1>3 DEF ThePayouts!request_payout, PayoutsService
  <2> QED
    BY <1>0, <1>3, <2>2, <2>3, <2>4, <2>5 DEF ThePayouts!request_payout, ThePayouts!page, PayoutsPage, PayoutsService, PayoutsRequestRow
<1>4. ASSUME NEW r \in Requests, ThePayouts!Crash(r) PROVE PayoutsTyped'
  <2>2. payoutsRequest' \in [Requests -> PayoutsRequestRow]
    BY <1>1, <1>4 DEF ThePayouts!Crash
  <2>3. PayoutsCounts'
    BY <1>4, PayoutsNumbers DEF ThePayouts!Crash, PayoutsCounts
  <2>4. payoutsCopy' \in [Requests -> Credits]
    BY <1>4, CopyStaysTyped DEF ThePayouts!Crash
  <2>5. PayoutsAccount'
    BY <1>4, <2>4 DEF ThePayouts!Crash, PayoutsAccount
  <2> QED
    BY <1>0, <1>4, <2>2, <2>3, <2>5 DEF ThePayouts!Crash, ThePayouts!page, PayoutsPage, PayoutsService, PayoutsRequestRow
<1>5. ASSUME NEW r \in Requests, ThePayouts!handleWithdraw(r) PROVE PayoutsTyped'
  <2>1. [at |-> "sent", amount |-> amount] \in PayoutsRequestRow
    BY DEF PayoutsPage, PayoutsRequestRow
  <2>2. payoutsRequest' \in [Requests -> PayoutsRequestRow]
    BY <1>5, <2>1, RequestsStayTyped DEF ThePayouts!handleWithdraw
  <2>3. PayoutsCounts'
    BY <1>5, PayoutsNumbers DEF ThePayouts!handleWithdraw, PayoutsCounts
  <2>4. PayoutsPage'
    BY <1>0, <1>5, PayoutsNumbers DEF ThePayouts!handleWithdraw, PayoutsPage
  <2> QED
    BY <1>0, <1>5, <2>2, <2>3, <2>4 DEF ThePayouts!handleWithdraw, PayoutsService, PayoutsAccount, PayoutsRequestRow
<1>6. ASSUME NEW r \in Requests, ThePayouts!HearPayout(r) PROVE PayoutsTyped'
  <2>4. PayoutsPage'
    BY <1>0, <1>6, PayoutsNumbers DEF ThePayouts!HearPayout, ThePayouts!NoWithdrawal, PayoutsPage
  <2> QED
    BY <1>0, <1>6, <2>4 DEF ThePayouts!HearPayout, ThePayouts!service, PayoutsService, PayoutsAccount, PayoutsCounts, PayoutsRequestRow
<1>7. ASSUME NEW r \in Requests, NEW q \in Requests, ThePayouts!LosePayout(r, q) PROVE PayoutsTyped'
  <2>1. [at |-> "sent", amount |-> payoutsRequest[r].amount] \in PayoutsRequestRow
    BY DEF PayoutsService, PayoutsRequestRow
  <2>2. payoutsRequest' \in [Requests -> PayoutsRequestRow]
    BY <1>7, <2>1, RequestsStayTyped DEF ThePayouts!LosePayout, PayoutsService
  <2>3. PayoutsCounts'
    BY <1>7, PayoutsNumbers DEF ThePayouts!LosePayout, PayoutsCounts
  <2>4. awaited' \in [request : SUBSET Requests, tries : 0 .. MaxTries]
    <3>1. awaited.tries \in Nat
      BY PayoutsNumbers DEF PayoutsPage
    <3>2. awaited.tries < MaxTries => awaited.tries + 1 \in 0 .. MaxTries
      BY <3>1, PayoutsNumbers
    <3> QED
      BY <1>7, <3>2, PayoutsNumbers DEF ThePayouts!LosePayout, ThePayouts!NoWithdrawal
  <2>5. PayoutsPage'
    BY <1>0, <1>7, <2>4 DEF ThePayouts!LosePayout, PayoutsPage
  <2> QED
    BY <1>0, <1>7, <2>2, <2>3, <2>5 DEF ThePayouts!LosePayout, PayoutsService, PayoutsAccount, PayoutsRequestRow
<1>8. ASSUME NEW n \in ThePayouts!Amounts \ {0}, ThePayouts!TypeAmount(n) PROVE PayoutsTyped'
  <2>1. PayoutsCounts'
    BY <1>8, PayoutsNumbers DEF ThePayouts!TypeAmount, PayoutsCounts
  <2> QED
    BY <1>0, <1>8, <2>1 DEF ThePayouts!TypeAmount, ThePayouts!service, PayoutsPage, PayoutsService, PayoutsAccount, PayoutsRequestRow
<1>9. CASE ThePayouts!Reserve
  <2>1. PayoutsCounts'
    BY <1>9, PayoutsNumbers DEF ThePayouts!Reserve, PayoutsCounts
  <2>2. PayoutsAccount'
    <3>1. account' = [account EXCEPT !.reserved = account.reserved + 1] /\ UNCHANGED payoutsCopy
      BY <1>9 DEF ThePayouts!Reserve
    <3>2. account \in Credits
      BY DEF PayoutsAccount
    <3>3. account.reserved \in Nat
      BY <3>2 DEF Credits
    <3> DEFINE n == account.reserved + 1
    <3>5. n \in Nat
      BY <3>3
    <3>6. account' = [account EXCEPT !.reserved = n]
      BY <3>1
    <3> HIDE DEF n
    <3>4. account' \in Credits
      BY <3>2, <3>5, <3>6, CreditsStayTyped
    <3> QED
      BY <3>1, <3>4 DEF PayoutsAccount
  <2> QED
    BY <1>0, <1>9, <2>1, <2>2 DEF ThePayouts!Reserve, ThePayouts!page, PayoutsPage, PayoutsService, PayoutsRequestRow
<1>10. CASE ThePayouts!Verify
  BY <1>0, <1>10 DEF ThePayouts!Verify, ThePayouts!page, PayoutsPage, PayoutsService, PayoutsAccount, PayoutsRequestRow, PayoutsCounts
<1>11. CASE ThePayouts!Refetch
  <2>1. payoutsShown' \in [withdrawable : ThePayouts!Amounts, onboarded : BOOLEAN]
    BY <1>11, WithdrawableFits DEF ThePayouts!Refetch
  <2> QED
    BY <1>0, <1>11, <2>1 DEF ThePayouts!Refetch, PayoutsPage, PayoutsService, PayoutsAccount, PayoutsRequestRow, PayoutsCounts
<1>12. CASE ThePayouts!handleConnect
  <2>1. PayoutsCounts'
    BY <1>12, PayoutsNumbers DEF ThePayouts!handleConnect, PayoutsCounts
  <2> QED
    BY <1>0, <1>12, <2>1 DEF ThePayouts!handleConnect, ThePayouts!service, PayoutsPage, PayoutsService, PayoutsAccount, PayoutsRequestRow
<1>13. CASE ThePayouts!create_connect_account
  <2>1. PayoutsCounts'
    BY <1>13, PayoutsNumbers DEF ThePayouts!create_connect_account, PayoutsCounts
  <2> QED
    BY <1>0, <1>13, <2>1 DEF ThePayouts!create_connect_account, PayoutsPage, PayoutsService, PayoutsAccount, PayoutsRequestRow
<1>14. CASE ThePayouts!Return
  <2>1. PayoutsPage'
    BY <1>0, <1>14, PayoutsNumbers DEF ThePayouts!Return, ThePayouts!NoWithdrawal, PayoutsPage
  <2> QED
    BY <1>0, <1>14, <2>1 DEF ThePayouts!Return, PayoutsService, PayoutsAccount, PayoutsRequestRow, PayoutsCounts
<1>15. CASE ThePayouts!OpenWithdraw
  <2>1. PayoutsCounts'
    BY <1>15, PayoutsNumbers DEF ThePayouts!OpenWithdraw, PayoutsCounts
  <2> QED
    BY <1>0, <1>15, <2>1 DEF ThePayouts!OpenWithdraw, ThePayouts!service, PayoutsPage, PayoutsService, PayoutsAccount, PayoutsRequestRow
<1>16. CASE ThePayouts!Cancel
  BY <1>0, <1>16 DEF ThePayouts!Cancel, ThePayouts!service, PayoutsPage, PayoutsService, PayoutsAccount, PayoutsRequestRow, PayoutsCounts
<1> HIDE DEF PayoutsTyped
<1> QED
  BY <1>2, <1>3, <1>4, <1>5, <1>6, <1>7, <1>8, <1>9, <1>10, <1>11, <1>12, <1>13, <1>14, <1>15, <1>16 DEF ThePayouts!Next

-----------------------------------------------------------------------------
(***************************************************************************)
(* The submissions: what MarketTypes leaves out.                           *)
(***************************************************************************)

SubmissionsRest ==
    /\ told \in [Flows -> Nat] /\ theirs \in [get : BOOLEAN, is : TheSubmissions!Seen]
    /\ submissionsPast \subseteq {"overlap", "unpublished"}

SubmissionsCounts == submissionsClicks \in 0 .. MaxClicks["submissions"] /\ submissionsFaults \in 0 .. MaxFaults

SubmissionsTyped == MarketInv /\ SubmissionsRest /\ SubmissionsCounts

LEMMA SubmissionsAreTyped == SubmissionsTyped => TheSubmissions!TypeOK
  BY DEF SubmissionsTyped, SubmissionsRest, SubmissionsCounts, MarketInv, MarketTypes, SubmissionRow, ReviewCall,
         PublishCall, MineCall, TheSubmissions!TypeOK

LEMMA SubmissionsNumbers ==
    ASSUME TheSubmissions!SubmissionsAssumption
    PROVE  /\ SubmissionsCounts /\ (TheSubmissions!Click \/ UNCHANGED submissionsClicks)
                /\ (TheSubmissions!Fault \/ UNCHANGED submissionsFaults) => SubmissionsCounts'
           /\ 0 \in 0 .. MaxClicks["submissions"] /\ 0 \in 0 .. MaxFaults
  BY DEF TheSubmissions!SubmissionsAssumption, TheSubmissions!Click, TheSubmissions!Fault, SubmissionsCounts

LEMMA SubmissionsStartTyped == ASSUME TheSubmissions!SubmissionsAssumption, TheSubmissions!Init PROVE SubmissionsTyped
<1>1. SubmissionsRest
  BY DEF TheSubmissions!Init, SubmissionsRest, TheSubmissions!Seen, TheSubmissions!States
<1>2. SubmissionsCounts
  BY SubmissionsNumbers DEF TheSubmissions!Init, SubmissionsCounts
<1> QED
  BY <1>1, <1>2, InitMarket DEF SubmissionsTyped

LEMMA SubmissionsStayTyped ==
    ASSUME TheSubmissions!SubmissionsAssumption, SubmissionsTyped, TheSubmissions!Next
    PROVE  SubmissionsTyped'
<1>1. MarketInv'
  BY NextKeepsMarket DEF SubmissionsTyped
<1>2. SubmissionsCounts'
  BY SubmissionsNumbers DEF TheSubmissions!Next, SubmissionsTyped, TheSubmissions!OpenPublish,
     TheSubmissions!create_submission, TheSubmissions!HearPublish, TheSubmissions!OpenMine, TheSubmissions!LeaveMine,
     TheSubmissions!HearMine, TheSubmissions!resubmit_submission, TheSubmissions!delete_submission,
     TheSubmissions!ListTheirs, TheSubmissions!handlePublish, TheSubmissions!handleResubmit,
     TheSubmissions!handleDelete, TheSubmissions!Decide, TheSubmissions!Begin, TheSubmissions!approve_submission
<1>3. SubmissionsRest'
  <2>1. TheSubmissions!Listed \in TheSubmissions!Seen
    BY ListedIsSeen DEF SubmissionsTyped, MarketInv
  <2>2. CASE TheSubmissions!HearMine
    <3>1. told' \in [Flows -> Nat]
      BY <2>2 DEF TheSubmissions!HearMine, SubmissionsTyped, SubmissionsRest
    <3> QED
      BY <2>2, <3>1 DEF TheSubmissions!HearMine, SubmissionsTyped, SubmissionsRest
  <2>3. CASE TheSubmissions!ListTheirs
    BY <2>1, <2>3 DEF TheSubmissions!ListTheirs, SubmissionsTyped, SubmissionsRest, TheSubmissions!builder
  <2>4. CASE \E r \in Reviews : TheSubmissions!Begin(r) \/ TheSubmissions!approve_submission(r)
    <3>1. /\ told' = told /\ theirs' \in {theirs, [theirs EXCEPT !.get = TRUE]}
          /\ submissionsPast' \in {submissionsPast, submissionsPast \cup {"overlap"}}
      BY <2>4 DEF TheSubmissions!Begin, TheSubmissions!approve_submission, TheSubmissions!builder
    <3>2. theirs' \in [get : BOOLEAN, is : TheSubmissions!Seen]
      BY <3>1 DEF SubmissionsTyped, SubmissionsRest
    <3> QED
      BY <3>1, <3>2 DEF SubmissionsTyped, SubmissionsRest
  <2>5. CASE TheSubmissions!delete_submission
    BY <2>5 DEF TheSubmissions!delete_submission, SubmissionsTyped, SubmissionsRest
  <2>6. CASE \/ TheSubmissions!OpenPublish \/ TheSubmissions!create_submission \/ TheSubmissions!HearPublish
             \/ TheSubmissions!OpenMine \/ TheSubmissions!LeaveMine \/ TheSubmissions!resubmit_submission
             \/ \E x \in Flows : \/ TheSubmissions!handlePublish(x) \/ TheSubmissions!handleResubmit(x)
                                 \/ TheSubmissions!handleDelete(x)
                                 \/ \E r \in Reviews, of \in {"approve", "reject", "revoke"} : TheSubmissions!Decide(r, of, x)
    <3>1. UNCHANGED <<told, theirs, submissionsPast>>
      BY <2>6 DEF TheSubmissions!OpenPublish, TheSubmissions!create_submission, TheSubmissions!HearPublish,
         TheSubmissions!OpenMine, TheSubmissions!LeaveMine, TheSubmissions!resubmit_submission,
         TheSubmissions!handlePublish, TheSubmissions!handleResubmit, TheSubmissions!handleDelete,
         TheSubmissions!Decide, TheSubmissions!builder
    <3> QED
      BY <3>1 DEF SubmissionsTyped, SubmissionsRest
  <2> QED
    BY <2>2, <2>3, <2>4, <2>5, <2>6 DEF TheSubmissions!Next
<1> QED
  BY <1>1, <1>2, <1>3 DEF SubmissionsTyped
=============================================================================
