----------------------- MODULE WebClientScreenProofs -----------------------
(***************************************************************************)
(* What the client's screens show, for any values of its constants: the    *)
(* invariants of the search box, the channel wizard, the forms that        *)
(* register an agent, a crew's report and the task screens, and of them    *)
(* that what is shown answers what was asked (AnswersFit).                 *)
(*                                                                         *)
(* A behaviour stays in one section, so that an invariant of the section's *)
(* component, proved of the component's own actions, is one of the client. *)
(***************************************************************************)
EXTENDS WebClientProofs

-----------------------------------------------------------------------------
(***************************************************************************)
(* The search box.  A search behind another's back aside, there is one     *)
(* search at a time, it is the one started last, and the box is loading as *)
(* long as it goes on.                                                     *)
(***************************************************************************)

OneSearch ==
    ~ hasty => /\ (loading <=> flights # {})
               /\ \A x, y \in flights : x = y
               /\ \A x \in flights : x.question = last.question

BoxInv == TheMagicBox!TypeOK /\ OneSearch /\ TheMagicBox!ShowsLastAnswer

LEMMA InitBox == ASSUME TheMagicBox!BoxAssumption, TheMagicBox!Init PROVE BoxInv
<1>1. TheMagicBox!TypeOK
  <2>1. boxClicks \in 0 .. MaxClicks["box"] /\ boxFaults \in 0 .. MaxFaults
    BY DEF TheMagicBox!BoxAssumption, TheMagicBox!Init
  <2> QED
    BY <2>1 DEF TheMagicBox!Init, TheMagicBox!TypeOK, TheMagicBox!Texts
<1>2. OneSearch /\ TheMagicBox!ShowsLastAnswer
  BY DEF TheMagicBox!Init, OneSearch, TheMagicBox!ShowsLastAnswer
<1> QED
  BY <1>1, <1>2 DEF BoxInv

(* A click is counted up to the bound. *)
LEMMA BoxClick == ASSUME TheMagicBox!BoxAssumption, TheMagicBox!TypeOK, TheMagicBox!Click
                  PROVE  boxClicks' \in 0 .. MaxClicks["box"]
  BY DEF TheMagicBox!BoxAssumption, TheMagicBox!TypeOK, TheMagicBox!Click

(* A search that starts when none is under way, or behind another's back,  *)
(* is the only one that counts.                                            *)
LEMMA BeginKeepsBox ==
    ASSUME BoxInv, NEW s \in Searches, TheMagicBox!Begin(s),
           hasty' \in BOOLEAN, ~ hasty' => ~ hasty /\ flights = {}
    PROVE  /\ OneSearch' /\ TheMagicBox!ShowsLastAnswer'
           /\ flights' \subseteq TheMagicBox!Flight
           /\ last' \in [id : Searches, question : Queries] /\ loading' = TRUE /\ error' = FALSE
<1>1. query \in Queries
  BY DEF BoxInv, TheMagicBox!TypeOK, TheMagicBox!Texts, TheMagicBox!Begin
<1>2. /\ [id |-> s, question |-> query, at |-> "suggest"] \in TheMagicBox!Flight
      /\ [id |-> s, question |-> query] \in [id : Searches, question : Queries]
  BY <1>1 DEF TheMagicBox!Flight
<1>3. loading' = TRUE /\ error' = FALSE /\ last'.question = query
      /\ flights' = flights \cup {[id |-> s, question |-> query, at |-> "suggest"]}
      /\ last' = [id |-> s, question |-> query]
  BY DEF TheMagicBox!Begin
<1>4. loading'
  BY <1>3
<1>5. TheMagicBox!ShowsLastAnswer'
  BY <1>4 DEF TheMagicBox!ShowsLastAnswer
<1>6. OneSearch'
  <2> DEFINE new == [id |-> s, question |-> query, at |-> "suggest"]
  <2>1. ~ hasty' => flights' = {new}
    BY <1>3
  <2>2. new.question = last'.question
    BY <1>3
  <2> HIDE DEF new
  <2> QED
    BY <1>4, <2>1, <2>2, Zenon DEF OneSearch
<1> QED
  BY <1>2, <1>3, <1>5, <1>6 DEF BoxInv, TheMagicBox!TypeOK

(* The end of the search under way.                                        *)
LEMMA OverEndsSearch ==
    ASSUME BoxInv, NEW x \in flights, flights' = flights \ {x}, loading' = FALSE,
           hasty' = hasty, last' = last
    PROVE  OneSearch'
<1> SUFFICES ASSUME ~ hasty PROVE flights' = {}
  BY DEF OneSearch
<1> QED
  BY DEF BoxInv, OneSearch

LEMMA NextKeepsBox ==
    ASSUME TheMagicBox!BoxAssumption, BoxInv, [TheMagicBox!Next]_boxVars PROVE BoxInv'
<1> USE DEF TheMagicBox!Texts
<1>1. ASSUME NEW t \in TheMagicBox!Texts, TheMagicBox!Type(t) PROVE BoxInv'
  BY <1>1, BoxClick DEF TheMagicBox!Type, BoxInv, TheMagicBox!TypeOK, OneSearch,
         TheMagicBox!ShowsLastAnswer
<1>2. ASSUME NEW s \in Searches, TheMagicBox!Find(s) PROVE BoxInv'
  <2>1. ~ hasty => flights = {}
    BY <1>2 DEF TheMagicBox!Find, BoxInv, OneSearch
  <2>2. hasty' \in BOOLEAN
    BY <1>2 DEF TheMagicBox!Find, BoxInv, TheMagicBox!TypeOK
  <2> QED
    BY <1>2, <2>1, <2>2, BeginKeepsBox, BoxClick DEF TheMagicBox!Find, BoxInv, TheMagicBox!TypeOK
<1>3. ASSUME NEW s \in Searches, TheMagicBox!Enter(s) PROVE BoxInv'
  <2>1. hasty' \in BOOLEAN /\ (~ hasty' => ~ hasty /\ flights = {})
    BY <1>3 DEF TheMagicBox!Enter, TheMagicBox!Hastily, BoxInv, TheMagicBox!TypeOK
  <2> QED
    BY <1>3, <2>1, BeginKeepsBox, BoxClick DEF TheMagicBox!Enter, BoxInv, TheMagicBox!TypeOK
<1>4. ASSUME NEW s \in Searches, TheMagicBox!StarterSearch(s) PROVE BoxInv'
  <2>1. hasty' \in BOOLEAN /\ (~ hasty' => ~ hasty /\ flights = {})
    BY <1>4 DEF TheMagicBox!StarterSearch, TheMagicBox!Hastily, BoxInv, TheMagicBox!TypeOK
  <2> QED
    BY <1>4, <2>1, BeginKeepsBox DEF TheMagicBox!StarterSearch, BoxInv, TheMagicBox!TypeOK
<1>5. ASSUME NEW t \in Starters, TheMagicBox!PickStarter(t) PROVE BoxInv'
  BY <1>5, BoxClick DEF TheMagicBox!PickStarter, BoxInv, TheMagicBox!TypeOK, OneSearch,
         TheMagicBox!ShowsLastAnswer, TheMagicBox!BoxAssumption
<1>6. CASE TheMagicBox!handleClickOutside
  BY <1>6, BoxClick DEF TheMagicBox!handleClickOutside, BoxInv, TheMagicBox!TypeOK, OneSearch,
         TheMagicBox!ShowsLastAnswer
<1>7. ASSUME NEW x \in flights, TheMagicBox!HearSearch(x) PROVE BoxInv'
  <2>1. OneSearch'
    BY <1>7, OverEndsSearch DEF TheMagicBox!HearSearch, TheMagicBox!Over
  <2>2. ~ hasty => results' = last.question
    BY <1>7 DEF TheMagicBox!HearSearch, BoxInv, OneSearch
  <2>3. TheMagicBox!ShowsLastAnswer'
    BY <1>7, <2>2 DEF TheMagicBox!HearSearch, TheMagicBox!ShowsLastAnswer
  <2>4. x.question \in Queries
    BY DEF BoxInv, TheMagicBox!TypeOK, TheMagicBox!Flight
  <2> QED
    BY <1>7, <2>1, <2>3, <2>4 DEF TheMagicBox!HearSearch, TheMagicBox!Over, BoxInv, TheMagicBox!TypeOK
<1>8. ASSUME NEW x \in flights, TheMagicBox!Fallback(x) PROVE BoxInv'
  <2> DEFINE new == [x EXCEPT !.at = "list"]
  <2>1. new \in TheMagicBox!Flight /\ new.question = x.question
    BY DEF BoxInv, TheMagicBox!TypeOK, TheMagicBox!Flight
  <2>2. flights' = (flights \ {x}) \cup {new}
    BY <1>8 DEF TheMagicBox!Fallback
  <2> HIDE DEF new
  <2>3. OneSearch'
    BY <1>8, <2>1, <2>2 DEF TheMagicBox!Fallback, BoxInv, OneSearch
  <2> QED
    BY <1>8, <2>1, <2>2, <2>3 DEF TheMagicBox!Fallback, BoxInv, TheMagicBox!TypeOK,
           TheMagicBox!ShowsLastAnswer
<1>9. ASSUME NEW x \in flights, TheMagicBox!HearFailure(x) PROVE BoxInv'
  <2>1. OneSearch'
    BY <1>9, OverEndsSearch DEF TheMagicBox!HearFailure, TheMagicBox!Over
  <2>2. boxFaults' \in 0 .. MaxFaults
    BY <1>9 DEF TheMagicBox!HearFailure, BoxInv, TheMagicBox!TypeOK, TheMagicBox!BoxAssumption
  <2> QED
    BY <1>9, <2>1, <2>2 DEF TheMagicBox!HearFailure, TheMagicBox!Over, BoxInv, TheMagicBox!TypeOK,
           TheMagicBox!ShowsLastAnswer
<1>10. CASE UNCHANGED boxVars
  BY <1>10 DEF boxVars, BoxInv, TheMagicBox!TypeOK, OneSearch, TheMagicBox!ShowsLastAnswer
<1> HIDE DEF TheMagicBox!Texts
<1> QED
  BY <1>1, <1>2, <1>3, <1>4, <1>5, <1>6, <1>7, <1>8, <1>9, <1>10 DEF TheMagicBox!Next

-----------------------------------------------------------------------------
(***************************************************************************)
(* The sheet that connects a bot.  What is known of a token's application  *)
(* is that token's as long as no two are mixed (IdsMatch): one             *)
(* verification goes on at a time, of the token that is typed, and what is *)
(* verified is.  And as long as no creation is hidden behind another or    *)
(* behind a closed sheet, the one on its way is the one the sheet shows    *)
(* (OneIsMade).                                                            *)
(***************************************************************************)

TokenIsTyped ==
    /\ wizard.step = 2 => wizard.token \in Bots
    /\ \A c \in Channels : TheChannelWizard!OnItsWay(c) => wizardMaking[c].token \in Bots

IdsMatch ==
    "mixed" \notin wizardPast =>
        /\ discord.verified => wizard.ids = wizard.token
        /\ wizard.step = 2 /\ wizard.platform = "discord" => discord.verified
        /\ \A c \in Checks : TheChannelWizard!Checking(c) =>
              discord.loading /\ ~ discord.verified /\ check[c].token = wizard.token
        /\ \A c, d \in Checks :
              TheChannelWizard!Checking(c) /\ TheChannelWizard!Checking(d) => c = d
        /\ \A c \in Channels :
              wizardMaking[c].platform = "discord" => wizardMaking[c].ids = wizardMaking[c].token

OneIsMade ==
    wizardPast \cap {"closed", "twice"} = {} =>
        /\ \A c, d \in Channels :
              TheChannelWizard!OnItsWay(c) /\ TheChannelWizard!OnItsWay(d) => c = d
        /\ \A c \in Channels :
              wizardMaking[c].at \in {"register", "set", "unset"} => wizard.created = c
        /\ \A c \in Channels :
              wizardMaking[c].at = "set" => endpoint[wizardMaking[c].token] = c
        /\ discord.set =>
              /\ wizard.step = 3 /\ wizard.created \in Channels
              /\ endpoint[wizardMaking[wizard.created].token] = wizard.created
              /\ \A c \in Channels : ~ TheChannelWizard!OnItsWay(c)

WizardInv == TheChannelWizard!TypeOK /\ TokenIsTyped /\ IdsMatch /\ OneIsMade

WizardCall == [at : {"none", "sent", "made", "refused", "register", "set", "unset", "over"},
               platform : {"discord", "telegram", "slack", "none"},
               token : Bots \cup {NoName}, ids : Bots \cup {NoName}]

WizardSheet == [step : 0 .. 3, platform : {"discord", "telegram", "slack", "none"},
                token : Bots \cup {NoName}, ids : Bots \cup {NoName},
                filled : BOOLEAN, agent : BOOLEAN, created : Channels \cup {NoName}]

WizardCheck == [at : {"none", "sent", "valid", "refused", "over"}, token : Bots \cup {NoName}]

(* A creation that goes on keeps its type.                                 *)
LEMMA MakingMoves ==
    \A m \in [Channels -> WizardCall], c \in Channels,
       a \in {"made", "refused", "set", "unset", "over", "register"} :
          [m EXCEPT ![c].at = a] \in [Channels -> WizardCall]
  BY DEF WizardCall

LEMMA InitWizard == ASSUME TheChannelWizard!WizardAssumption, TheChannelWizard!Init PROVE WizardInv
<1> USE DEF TheChannelWizard!Init, TheChannelWizard!Blank, TheChannelWizard!Unverified,
            TheChannelWizard!NoCheck, TheChannelWizard!NotMade, TheChannelWizard!NoPlatform
<1>1. TheChannelWizard!TypeOK
  <2>1. wizardClicks \in 0 .. MaxClicks["wizard"] /\ wizardFaults \in 0 .. MaxFaults
    BY DEF TheChannelWizard!WizardAssumption
  <2> QED
    BY <2>1 DEF TheChannelWizard!TypeOK
<1>2. TokenIsTyped /\ IdsMatch /\ OneIsMade
  BY DEF TokenIsTyped, IdsMatch, OneIsMade, TheChannelWizard!Checking, TheChannelWizard!OnItsWay
<1> QED
  BY <1>1, <1>2 DEF WizardInv

LEMMA WizardTypes ==
    ASSUME TheChannelWizard!WizardAssumption, TheChannelWizard!TypeOK, TheChannelWizard!Next
    PROVE  TheChannelWizard!TypeOK'
<1> USE DEF TheChannelWizard!TypeOK, TheChannelWizard!NoPlatform
<1>0. /\ TheChannelWizard!Click => wizardClicks' \in 0 .. MaxClicks["wizard"]
      /\ TheChannelWizard!Fault => wizardFaults' \in 0 .. MaxFaults
  BY DEF TheChannelWizard!WizardAssumption, TheChannelWizard!Click, TheChannelWizard!Fault
<1>1. ASSUME NEW pf \in {"discord", "telegram", "slack"}, TheChannelWizard!ChoosePlatform(pf)
      PROVE  TheChannelWizard!TypeOK'
  BY <1>1 DEF TheChannelWizard!ChoosePlatform
<1>2. ASSUME NEW t \in Bots, TheChannelWizard!TypeToken(t) PROVE TheChannelWizard!TypeOK'
  BY <1>0, <1>2 DEF TheChannelWizard!TypeToken, TheChannelWizard!Unverified
<1>3. CASE TheChannelWizard!Fill
  BY <1>3 DEF TheChannelWizard!Fill
<1>4. CASE TheChannelWizard!Invite
  BY <1>4 DEF TheChannelWizard!Invite
<1>5. CASE TheChannelWizard!ChooseAgent
  BY <1>5 DEF TheChannelWizard!ChooseAgent
<1>6. CASE TheChannelWizard!StepForward
  BY <1>6 DEF TheChannelWizard!StepForward
<1>7. CASE TheChannelWizard!StepBack
  BY <1>0, <1>7 DEF TheChannelWizard!StepBack
<1>8. CASE TheChannelWizard!handleClose
  BY <1>0, <1>8 DEF TheChannelWizard!handleClose, TheChannelWizard!Blank, TheChannelWizard!Unverified
<1>9. ASSUME NEW c \in Checks, TheChannelWizard!handleDiscordVerify(c) PROVE TheChannelWizard!TypeOK'
  BY <1>0, <1>9 DEF TheChannelWizard!handleDiscordVerify
<1>10. ASSUME NEW c \in Checks, TheChannelWizard!AutoSetup(c) PROVE TheChannelWizard!TypeOK'
  BY <1>0, <1>10 DEF TheChannelWizard!AutoSetup
<1>11. ASSUME NEW c \in Checks, TheChannelWizard!HearVerify(c) PROVE TheChannelWizard!TypeOK'
  <2>1. check' \in [Checks -> WizardCheck]
    BY <1>11 DEF TheChannelWizard!HearVerify, WizardCheck
  <2>2. CASE check[c].at = "valid"
    <3>1. wizard' \in WizardSheet
      <4>1. wizard \in WizardSheet /\ check[c].token \in Bots \cup {NoName}
        BY DEF WizardSheet
      <4>2. wizard' = [wizard EXCEPT !.ids = check[c].token]
        BY <1>11, <2>2 DEF TheChannelWizard!HearVerify
      <4> QED
        BY ONLY <4>1, <4>2 DEF WizardSheet
    <3> QED
      BY <1>11, <2>1, <2>2, <3>1 DEF TheChannelWizard!HearVerify, TheChannelWizard!Unverified, WizardCheck, WizardSheet
  <2>3. CASE check[c].at # "valid"
    BY <1>11, <2>1, <2>3 DEF TheChannelWizard!HearVerify, WizardCheck
  <2> QED
    BY <2>2, <2>3
<1>12. ASSUME NEW c \in Channels, TheChannelWizard!handleSubmit(c) PROVE TheChannelWizard!TypeOK'
  BY <1>0, <1>12 DEF TheChannelWizard!handleSubmit
<1>98. wizardMaking \in [Channels -> WizardCall]
  BY DEF WizardCall
<1>99. ASSUME NEW c \in Channels, NEW a \in {"made", "refused", "set", "unset", "over", "register"},
              wizardMaking' = [wizardMaking EXCEPT ![c].at = a]
       PROVE  wizardMaking' \in [Channels -> WizardCall]
  BY ONLY <1>98, <1>99, MakingMoves
<1>13. ASSUME NEW c \in Channels, TheChannelWizard!create_channel(c) PROVE TheChannelWizard!TypeOK'
  <2>1. \E a \in {"made", "refused"} : wizardMaking' = [wizardMaking EXCEPT ![c].at = a]
    BY <1>13 DEF TheChannelWizard!create_channel
  <2>2. wizardMaking' \in [Channels -> WizardCall]
    BY ONLY <1>99, <2>1
  <2>3. endpoint' \in [Bots -> Channels \cup {NoName}]
    BY <1>13 DEF TheChannelWizard!create_channel
  <2>4. wizardFaults' \in 0 .. MaxFaults
    BY <1>0, <1>13 DEF TheChannelWizard!create_channel
  <2> QED
    BY <1>13, <2>2, <2>3, <2>4 DEF TheChannelWizard!create_channel, WizardCall
<1>14. ASSUME NEW c \in Channels, TheChannelWizard!HearCreate(c) PROVE TheChannelWizard!TypeOK'
  <2>1. TheChannelWizard!NotMade \in WizardCall
    BY DEF TheChannelWizard!NotMade, WizardCall
  <2>2. \/ wizardMaking' = [wizardMaking EXCEPT ![c] = TheChannelWizard!NotMade]
        \/ \E a \in {"over", "register"} : wizardMaking' = [wizardMaking EXCEPT ![c].at = a]
    BY <1>14 DEF TheChannelWizard!HearCreate
  <2>5. ASSUME wizardMaking' = [wizardMaking EXCEPT ![c] = TheChannelWizard!NotMade]
        PROVE wizardMaking' \in [Channels -> WizardCall]
    BY ONLY <1>98, <2>1, <2>5
  <2>6. ASSUME \E a \in {"over", "register"} : wizardMaking' = [wizardMaking EXCEPT ![c].at = a]
        PROVE wizardMaking' \in [Channels -> WizardCall]
    BY ONLY <1>99, <2>6
  <2>3. wizardMaking' \in [Channels -> WizardCall]
    BY ONLY <2>2, <2>5, <2>6
  <2>4. \/ wizard' = wizard \/ wizard' = [wizard EXCEPT !.created = c]
        \/ wizard' = [wizard EXCEPT !.created = c, !.step = 3]
    BY <1>14 DEF TheChannelWizard!HearCreate
  <2>7. wizard' \in WizardSheet
    <3>1. wizard \in WizardSheet /\ c \in Channels
      BY DEF WizardSheet
    <3>2. wizard' = [wizard EXCEPT !.created = c] => wizard' \in WizardSheet
      BY ONLY <3>1 DEF WizardSheet
    <3>3. wizard' = [wizard EXCEPT !.created = c, !.step = 3] => wizard' \in WizardSheet
      <4>1. [wizard EXCEPT !.created = c] \in WizardSheet
        BY ONLY <3>1 DEF WizardSheet
      <4>2. [wizard EXCEPT !.created = c, !.step = 3] = [[wizard EXCEPT !.created = c] EXCEPT !.step = 3]
        OBVIOUS
      <4>3. 3 \in 0 .. 3
        OBVIOUS
      <4>4. \A w \in WizardSheet : [w EXCEPT !.step = 3] \in WizardSheet
        BY ONLY <4>3 DEF WizardSheet
      <4> QED
        BY ONLY <4>1, <4>2, <4>4
    <3> QED
      BY ONLY <2>4, <3>1, <3>2, <3>3
  <2> QED
    BY <1>14, <2>3, <2>7 DEF TheChannelWizard!HearCreate, WizardCall, WizardSheet
<1>15. ASSUME NEW c \in Channels, TheChannelWizard!AutoRegister(c) PROVE TheChannelWizard!TypeOK'
  <2>1. \E a \in {"set", "unset"} : wizardMaking' = [wizardMaking EXCEPT ![c].at = a]
    BY <1>15 DEF TheChannelWizard!AutoRegister
  <2>2. wizardMaking' \in [Channels -> WizardCall]
    BY ONLY <1>99, <2>1
  <2>3. endpoint' \in [Bots -> Channels \cup {NoName}]
    BY <1>15 DEF TheChannelWizard!AutoRegister
  <2>4. wizardFaults' \in 0 .. MaxFaults
    BY <1>0, <1>15 DEF TheChannelWizard!AutoRegister
  <2> QED
    BY <1>15, <2>2, <2>3, <2>4 DEF TheChannelWizard!AutoRegister, WizardCall
<1>16. ASSUME NEW c \in Channels, TheChannelWizard!HearRegister(c) PROVE TheChannelWizard!TypeOK'
  <2>1. wizardMaking' \in [Channels -> WizardCall]
    BY <1>16, <1>99, MakingMoves DEF TheChannelWizard!HearRegister
  <2>2. \E b \in BOOLEAN : discord' = [discord EXCEPT !.set = b]
    BY <1>16 DEF TheChannelWizard!HearRegister
  <2> QED
    BY <1>16, <2>1, <2>2 DEF TheChannelWizard!HearRegister, WizardCall
<1> QED
  BY <1>1, <1>2, <1>3, <1>4, <1>5, <1>6, <1>7, <1>8, <1>9, <1>10, <1>11, <1>12, <1>13, <1>14,
     <1>15, <1>16 DEF TheChannelWizard!Next

LEMMA WizardTokens ==
    ASSUME TheChannelWizard!WizardAssumption, TheChannelWizard!TypeOK, TokenIsTyped, TheChannelWizard!Next
    PROVE  TokenIsTyped'
<1> USE DEF TheChannelWizard!TypeOK, TokenIsTyped, TheChannelWizard!OnItsWay, TheChannelWizard!NoPlatform
<1>1. ASSUME NEW pf \in {"discord", "telegram", "slack"}, TheChannelWizard!ChoosePlatform(pf) PROVE TokenIsTyped'
  BY <1>1 DEF TheChannelWizard!ChoosePlatform
<1>2. ASSUME NEW t \in Bots, TheChannelWizard!TypeToken(t) PROVE TokenIsTyped'
  BY <1>2 DEF TheChannelWizard!TypeToken, TheChannelWizard!Click, TheChannelWizard!Unverified
<1>3. CASE TheChannelWizard!Fill
  BY <1>3 DEF TheChannelWizard!Fill
<1>4. CASE TheChannelWizard!Invite
  BY <1>4 DEF TheChannelWizard!Invite
<1>5. CASE TheChannelWizard!ChooseAgent
  BY <1>5 DEF TheChannelWizard!ChooseAgent
<1>6. CASE TheChannelWizard!StepForward
  <2>1. CASE wizard.step = 0
    <3>1. wizard'.step = 1 /\ wizard'.token = wizard.token /\ wizard'.ids = wizard.ids
      BY <1>6, <2>1 DEF TheChannelWizard!StepForward
    <3> QED
      BY <1>6, <3>1 DEF TheChannelWizard!StepForward
  <2>2. CASE wizard.step = 1
    <3>1. wizard.token # NoName /\ (wizard.platform = "discord" => discord.verified)
      BY <1>6, <2>2 DEF TheChannelWizard!StepForward, TheChannelWizard!canProceed
    <3>2. /\ wizard'.step = 2 /\ wizard'.token = wizard.token /\ wizard'.ids = wizard.ids
          /\ wizard'.platform = wizard.platform
      BY <1>6, <2>2 DEF TheChannelWizard!StepForward
    <3> QED
      BY <1>6, <3>1, <3>2 DEF TheChannelWizard!StepForward
  <2> QED
    BY <1>6, <2>1, <2>2 DEF TheChannelWizard!StepForward
<1>7. CASE TheChannelWizard!StepBack
  BY <1>7 DEF TheChannelWizard!StepBack, TheChannelWizard!Click
<1>8. CASE TheChannelWizard!handleClose
  BY <1>8 DEF TheChannelWizard!handleClose, TheChannelWizard!Click, TheChannelWizard!Blank, TheChannelWizard!Unverified
<1>9. ASSUME NEW c \in Checks, TheChannelWizard!handleDiscordVerify(c) PROVE TokenIsTyped'
  BY <1>9 DEF TheChannelWizard!handleDiscordVerify, TheChannelWizard!Click
<1>10. ASSUME NEW c \in Checks, TheChannelWizard!AutoSetup(c) PROVE TokenIsTyped'
  BY <1>10 DEF TheChannelWizard!AutoSetup, TheChannelWizard!Fault
<1>11. ASSUME NEW c \in Checks, TheChannelWizard!HearVerify(c) PROVE TokenIsTyped'
  BY <1>11 DEF TheChannelWizard!HearVerify, TheChannelWizard!Unverified
<1>12. ASSUME NEW c \in Channels, TheChannelWizard!handleSubmit(c) PROVE TokenIsTyped'
  BY <1>12 DEF TheChannelWizard!handleSubmit, TheChannelWizard!Click, TheChannelWizard!canProceed
<1>13. ASSUME NEW c \in Channels, TheChannelWizard!create_channel(c) PROVE TokenIsTyped'
  BY <1>13 DEF TheChannelWizard!create_channel, TheChannelWizard!Fault
<1>14. ASSUME NEW c \in Channels, TheChannelWizard!HearCreate(c) PROVE TokenIsTyped'
  <2>1. CASE wizardMaking[c].at = "refused"
    BY <1>14, <2>1 DEF TheChannelWizard!HearCreate, TheChannelWizard!NotMade
  <2>2. CASE wizardMaking[c].at = "made"
    <3>1. \A d \in Channels : wizardMaking'[d].platform = wizardMaking[d].platform
      BY <1>14, <2>2 DEF TheChannelWizard!HearCreate
    <3>2. \A d \in Channels : /\ wizardMaking'[d].token = wizardMaking[d].token
                              /\ wizardMaking'[d].ids = wizardMaking[d].ids
      BY <1>14, <2>2 DEF TheChannelWizard!HearCreate
    <3>3. \A d \in Channels : d # c => wizardMaking'[d].at = wizardMaking[d].at
      BY <1>14, <2>2 DEF TheChannelWizard!HearCreate
    <3>4. /\ wizard'.token = wizard.token /\ wizard'.ids = wizard.ids
          /\ wizard'.platform = wizard.platform /\ wizard'.step \in {wizard.step, 3}
      BY <1>14, <2>2 DEF TheChannelWizard!HearCreate
    <3> QED
      BY <1>14, <2>2, <3>1, <3>2, <3>3, <3>4 DEF TheChannelWizard!HearCreate
  <2> QED
    BY <1>14, <2>1, <2>2 DEF TheChannelWizard!HearCreate
<1>15. ASSUME NEW c \in Channels, TheChannelWizard!AutoRegister(c) PROVE TokenIsTyped'
  BY <1>15 DEF TheChannelWizard!AutoRegister, TheChannelWizard!Fault
<1>16. ASSUME NEW c \in Channels, TheChannelWizard!HearRegister(c) PROVE TokenIsTyped'
  BY <1>16 DEF TheChannelWizard!HearRegister
<1> QED
  BY <1>1, <1>2, <1>3, <1>4, <1>5, <1>6, <1>7, <1>8, <1>9, <1>10, <1>11, <1>12, <1>13, <1>14, <1>15, <1>16 DEF TheChannelWizard!Next

LEMMA WizardIds ==
    ASSUME TheChannelWizard!WizardAssumption, TheChannelWizard!TypeOK, IdsMatch, TheChannelWizard!Next
    PROVE  IdsMatch'
<1> USE DEF TheChannelWizard!TypeOK, IdsMatch, TheChannelWizard!Checking, TheChannelWizard!NoPlatform
<1>1. ASSUME NEW pf \in {"discord", "telegram", "slack"}, TheChannelWizard!ChoosePlatform(pf) PROVE IdsMatch'
  BY <1>1 DEF TheChannelWizard!ChoosePlatform
<1>2. ASSUME NEW t \in Bots, TheChannelWizard!TypeToken(t) PROVE IdsMatch'
  BY <1>2 DEF TheChannelWizard!TypeToken, TheChannelWizard!Click, TheChannelWizard!Unverified
<1>3. CASE TheChannelWizard!Fill
  BY <1>3 DEF TheChannelWizard!Fill
<1>4. CASE TheChannelWizard!Invite
  BY <1>4 DEF TheChannelWizard!Invite
<1>5. CASE TheChannelWizard!ChooseAgent
  BY <1>5 DEF TheChannelWizard!ChooseAgent
<1>6. CASE TheChannelWizard!StepForward
  <2>1. CASE wizard.step = 0
    <3>1. wizard'.step = 1 /\ wizard'.token = wizard.token /\ wizard'.ids = wizard.ids
      BY <1>6, <2>1 DEF TheChannelWizard!StepForward
    <3> QED
      BY <1>6, <3>1 DEF TheChannelWizard!StepForward
  <2>2. CASE wizard.step = 1
    <3>1. wizard.token # NoName /\ (wizard.platform = "discord" => discord.verified)
      BY <1>6, <2>2 DEF TheChannelWizard!StepForward, TheChannelWizard!canProceed
    <3>2. /\ wizard'.step = 2 /\ wizard'.token = wizard.token /\ wizard'.ids = wizard.ids
          /\ wizard'.platform = wizard.platform
      BY <1>6, <2>2 DEF TheChannelWizard!StepForward
    <3> QED
      BY <1>6, <3>1, <3>2 DEF TheChannelWizard!StepForward
  <2> QED
    BY <1>6, <2>1, <2>2 DEF TheChannelWizard!StepForward
<1>7. CASE TheChannelWizard!StepBack
  BY <1>7 DEF TheChannelWizard!StepBack, TheChannelWizard!Click
<1>8. CASE TheChannelWizard!handleClose
  BY <1>8 DEF TheChannelWizard!handleClose, TheChannelWizard!Click, TheChannelWizard!Blank, TheChannelWizard!Unverified
<1>9. ASSUME NEW c \in Checks, TheChannelWizard!handleDiscordVerify(c) PROVE IdsMatch'
  BY <1>9 DEF TheChannelWizard!handleDiscordVerify, TheChannelWizard!Click
<1>10. ASSUME NEW c \in Checks, TheChannelWizard!AutoSetup(c) PROVE IdsMatch'
  BY <1>10 DEF TheChannelWizard!AutoSetup, TheChannelWizard!Fault
<1>11. ASSUME NEW c \in Checks, TheChannelWizard!HearVerify(c) PROVE IdsMatch'
  BY <1>11 DEF TheChannelWizard!HearVerify, TheChannelWizard!Unverified
<1>12. ASSUME NEW c \in Channels, TheChannelWizard!handleSubmit(c) PROVE IdsMatch'
  BY <1>12 DEF TheChannelWizard!handleSubmit, TheChannelWizard!Click, TheChannelWizard!canProceed
<1>13. ASSUME NEW c \in Channels, TheChannelWizard!create_channel(c) PROVE IdsMatch'
  BY <1>13 DEF TheChannelWizard!create_channel, TheChannelWizard!Fault
<1>14. ASSUME NEW c \in Channels, TheChannelWizard!HearCreate(c) PROVE IdsMatch'
  <2>1. CASE wizardMaking[c].at = "refused"
    BY <1>14, <2>1 DEF TheChannelWizard!HearCreate, TheChannelWizard!NotMade
  <2>2. CASE wizardMaking[c].at = "made"
    <3>1. \A d \in Channels : wizardMaking'[d].platform = wizardMaking[d].platform
      BY <1>14, <2>2 DEF TheChannelWizard!HearCreate
    <3>2. \A d \in Channels : /\ wizardMaking'[d].token = wizardMaking[d].token
                              /\ wizardMaking'[d].ids = wizardMaking[d].ids
      BY <1>14, <2>2 DEF TheChannelWizard!HearCreate
    <3>3. \A d \in Channels : d # c => wizardMaking'[d].at = wizardMaking[d].at
      BY <1>14, <2>2 DEF TheChannelWizard!HearCreate
    <3>4. /\ wizard'.token = wizard.token /\ wizard'.ids = wizard.ids
          /\ wizard'.platform = wizard.platform /\ wizard'.step \in {wizard.step, 3}
      BY <1>14, <2>2 DEF TheChannelWizard!HearCreate
    <3> QED
      BY <1>14, <2>2, <3>1, <3>2, <3>3, <3>4 DEF TheChannelWizard!HearCreate
  <2> QED
    BY <1>14, <2>1, <2>2 DEF TheChannelWizard!HearCreate
<1>15. ASSUME NEW c \in Channels, TheChannelWizard!AutoRegister(c) PROVE IdsMatch'
  BY <1>15 DEF TheChannelWizard!AutoRegister, TheChannelWizard!Fault
<1>16. ASSUME NEW c \in Channels, TheChannelWizard!HearRegister(c) PROVE IdsMatch'
  BY <1>16 DEF TheChannelWizard!HearRegister
<1> QED
  BY <1>1, <1>2, <1>3, <1>4, <1>5, <1>6, <1>7, <1>8, <1>9, <1>10, <1>11, <1>12, <1>13, <1>14, <1>15, <1>16 DEF TheChannelWizard!Next

LEMMA WizardMakes ==
    ASSUME TheChannelWizard!WizardAssumption, TheChannelWizard!TypeOK, TokenIsTyped, OneIsMade, TheChannelWizard!Next
    PROVE  OneIsMade'
<1> USE DEF TheChannelWizard!TypeOK, TokenIsTyped, OneIsMade, TheChannelWizard!OnItsWay, TheChannelWizard!NoPlatform
<1>1. ASSUME NEW pf \in {"discord", "telegram", "slack"}, TheChannelWizard!ChoosePlatform(pf) PROVE OneIsMade'
  BY <1>1 DEF TheChannelWizard!ChoosePlatform
<1>2. ASSUME NEW t \in Bots, TheChannelWizard!TypeToken(t) PROVE OneIsMade'
  BY <1>2 DEF TheChannelWizard!TypeToken, TheChannelWizard!Click, TheChannelWizard!Unverified
<1>3. CASE TheChannelWizard!Fill
  BY <1>3 DEF TheChannelWizard!Fill
<1>4. CASE TheChannelWizard!Invite
  BY <1>4 DEF TheChannelWizard!Invite
<1>5. CASE TheChannelWizard!ChooseAgent
  BY <1>5 DEF TheChannelWizard!ChooseAgent
<1>6. CASE TheChannelWizard!StepForward
  BY <1>6 DEF TheChannelWizard!StepForward, TheChannelWizard!canProceed
<1>7. CASE TheChannelWizard!StepBack
  BY <1>7 DEF TheChannelWizard!StepBack, TheChannelWizard!Click
<1>8. CASE TheChannelWizard!handleClose
  BY <1>8 DEF TheChannelWizard!handleClose, TheChannelWizard!Click, TheChannelWizard!Blank, TheChannelWizard!Unverified
<1>9. ASSUME NEW c \in Checks, TheChannelWizard!handleDiscordVerify(c) PROVE OneIsMade'
  BY <1>9 DEF TheChannelWizard!handleDiscordVerify, TheChannelWizard!Click
<1>10. ASSUME NEW c \in Checks, TheChannelWizard!AutoSetup(c) PROVE OneIsMade'
  BY <1>10 DEF TheChannelWizard!AutoSetup, TheChannelWizard!Fault
<1>11. ASSUME NEW c \in Checks, TheChannelWizard!HearVerify(c) PROVE OneIsMade'
  BY <1>11 DEF TheChannelWizard!HearVerify, TheChannelWizard!Unverified
<1>12. ASSUME NEW c \in Channels, TheChannelWizard!handleSubmit(c) PROVE OneIsMade'
  <2>1. wizard.step = 2 /\ UNCHANGED <<wizard, discord, endpoint>>
    BY <1>12 DEF TheChannelWizard!handleSubmit
  <2>2. \A d \in Channels : d # c => wizardMaking'[d] = wizardMaking[d]
    BY <1>12 DEF TheChannelWizard!handleSubmit
  <2>3. wizardMaking'[c].at = "sent"
    BY <1>12 DEF TheChannelWizard!handleSubmit
  <2>4. \/ "twice" \in wizardPast'
        \/ wizardPast' = wizardPast /\ \A d \in Channels : ~ TheChannelWizard!OnItsWay(d)
    BY <1>12 DEF TheChannelWizard!handleSubmit
  <2> QED
    BY <2>1, <2>2, <2>3, <2>4
<1>13. ASSUME NEW c \in Channels, TheChannelWizard!create_channel(c) PROVE OneIsMade'
  BY <1>13 DEF TheChannelWizard!create_channel, TheChannelWizard!Fault
<1>14. ASSUME NEW c \in Channels, TheChannelWizard!HearCreate(c) PROVE OneIsMade'
  BY <1>14 DEF TheChannelWizard!HearCreate, TheChannelWizard!NotMade
<1>15. ASSUME NEW c \in Channels, TheChannelWizard!AutoRegister(c) PROVE OneIsMade'
  BY <1>15 DEF TheChannelWizard!AutoRegister, TheChannelWizard!Fault
<1>16. ASSUME NEW c \in Channels, TheChannelWizard!HearRegister(c) PROVE OneIsMade'
  BY <1>16 DEF TheChannelWizard!HearRegister
<1> QED
  BY <1>1, <1>2, <1>3, <1>4, <1>5, <1>6, <1>7, <1>8, <1>9, <1>10, <1>11, <1>12, <1>13, <1>14, <1>15, <1>16 DEF TheChannelWizard!Next

LEMMA NextKeepsWizard ==
    ASSUME TheChannelWizard!WizardAssumption, WizardInv, TheChannelWizard!Next \/ UNCHANGED wizardVars
    PROVE  WizardInv'
<1>1. CASE TheChannelWizard!Next
  BY <1>1, WizardTypes, WizardTokens, WizardIds, WizardMakes DEF WizardInv
<1>2. CASE UNCHANGED wizardVars
  <2> USE <1>2 DEF wizardVars, WizardInv
  <2>1. TheChannelWizard!TypeOK'
    BY DEF TheChannelWizard!TypeOK
  <2>2. TokenIsTyped' /\ IdsMatch'
    BY DEF TokenIsTyped, IdsMatch, TheChannelWizard!Checking, TheChannelWizard!OnItsWay
  <2>3. OneIsMade'
    BY DEF OneIsMade, TheChannelWizard!OnItsWay
  <2> QED
    BY <2>1, <2>2, <2>3
<1> QED
  BY <1>1, <1>2

LEMMA WizardShows ==
    ASSUME TheChannelWizard!WizardAssumption, WizardInv PROVE TheChannelWizard!IdsAreOfToken /\ TheChannelWizard!LiveIsLive
<1>1. TheChannelWizard!IdsAreOfToken
  BY DEF WizardInv, IdsMatch, TheChannelWizard!IdsAreOfToken
<1>2. TheChannelWizard!LiveIsLive
  BY DEF WizardInv, OneIsMade, TheChannelWizard!LiveIsLive, TheChannelWizard!WizardAssumption
<1> QED
  BY <1>1, <1>2

-----------------------------------------------------------------------------
(***************************************************************************)
(* Registering an agent.  An agent that is being added is in the registry  *)
(* as it was sent (SentIsAdded); in the flow no settings are changed       *)
(* (FlowOnlyAdds), and what is sent is what is under review, as long as    *)
(* nothing happens meanwhile (SentIsReviewed).  Who registers beside it    *)
(* and the monitor leave its name and endpoint alone.                      *)
(***************************************************************************)

SentIsAdded ==
    /\ formsCreate.at \in {"none", "sent"} => formsCreate.entry = NoName
    /\ formsView = "flow" /\ formsCreate.entry # NoName =>
          /\ agent[formsCreate.entry].at # "none"
          /\ agent[formsCreate.entry].name = formsCreate.name
          /\ agent[formsCreate.entry].endpoint = formsCreate.endpoint

FlowOnlyAdds == formsView = "flow" => formsChange.at = "none"

SentIsReviewed ==
    formsView = "flow" /\ "meanwhile" \notin formsPast =>
        /\ formsCreate.at # "none" => step = "review" /\ formsCreate.name = formsForm.name
                                       /\ formsCreate.endpoint = detected
        /\ step = "success" => /\ registered \in Registry /\ agent[registered].at # "none"
                               /\ agent[registered].name = formsForm.name
                               /\ agent[registered].endpoint = detected

FormsForm == [endpoint : Endpoints \cup {NoName}, name : TheAgentForms!Names, confirmed : BOOLEAN]
FormsCreate == [at : {"none", "sent", "embedding", "answered"}, entry : Registry \cup {NoName},
                endpoint : Endpoints \cup {NoName}, name : TheAgentForms!Names, tries : 0 .. MaxTries]
FormsChange == [at : {"none", "sent", "done"}, kind : {"none", "save", "deactivate", "delete"},
                endpoint : Endpoints \cup {NoName}, name : TheAgentForms!Names]
FormsEntry == [at : {"none", "embedding", "gone", "active", "inactive", "unavailable", "suspended"},
               endpoint : Endpoints \cup {NoName}, name : TheAgentForms!Names]

RegistrationTyped ==
    /\ formsView \in {"flow", "wizard", "settings", "left"}
    /\ step \in {"paste", "review", "success", "basic", "skills", "pricing"} /\ formsUser \in BOOLEAN
    /\ formsForm \in FormsForm
    /\ detected \in Endpoints \cup {NoName} /\ registered \in Registry \cup {NoName}
    /\ formsLook \in [Looks -> Endpoints \cup {NoName}]
    /\ formsCreate \in FormsCreate /\ formsChange \in FormsChange
    /\ agent \in [Registry -> FormsEntry]
    /\ probe \in [Registry -> {"none", "active", "unavailable"}]
    /\ formsPast \subseteq {"overlap", "down", "edited", "meanwhile"}
    /\ formsClicks \in 0 .. MaxClicks["forms"] /\ formsFaults \in 0 .. MaxFaults

FormsInv == TheAgentForms!TypeOK /\ SentIsAdded /\ FlowOnlyAdds /\ SentIsReviewed

LEMMA FormsAreTyped ==
    /\ TheAgentForms!TypeOK <=> RegistrationTyped
    /\ TheAgentForms!TypeOK' <=> RegistrationTyped'
  BY DEF TheAgentForms!TypeOK, TheAgentForms!Listed, TheAgentForms!OnMarket, TheAgentForms!Monitored, RegistrationTyped, FormsForm, FormsCreate, FormsChange, FormsEntry

LEMMA InitForms == ASSUME TheAgentForms!FormsAssumption, TheAgentForms!Init PROVE FormsInv
<1> USE DEF TheAgentForms!Init, TheAgentForms!NoCreate, TheAgentForms!NoChange, TheAgentForms!NoEntry
<1>1. RegistrationTyped
  <2>1. formsClicks \in 0 .. MaxClicks["forms"] /\ formsFaults \in 0 .. MaxFaults
    BY DEF TheAgentForms!FormsAssumption
  <2>2. /\ formsView \in {"flow", "wizard", "settings", "left"} /\ formsUser \in BOOLEAN
        /\ step \in {"paste", "review", "success", "basic", "skills", "pricing"}
        /\ detected \in Endpoints \cup {NoName} /\ registered \in Registry \cup {NoName}
        /\ formsLook \in [Looks -> Endpoints \cup {NoName}]
        /\ probe \in [Registry -> {"none", "active", "unavailable"}]
    OBVIOUS
  <2>3. formsForm \in FormsForm
    BY DEF FormsForm, TheAgentForms!Names
  <2>4. formsCreate \in FormsCreate /\ formsChange \in FormsChange
    BY DEF FormsCreate, FormsChange, TheAgentForms!Names, TheAgentForms!FormsAssumption
  <2>5. agent \in [Registry -> FormsEntry]
    BY DEF FormsEntry, TheAgentForms!Names
  <2> QED
    BY <2>1, <2>2, <2>3, <2>4, <2>5 DEF RegistrationTyped
<1>2. SentIsAdded /\ FlowOnlyAdds /\ SentIsReviewed
  BY DEF SentIsAdded, FlowOnlyAdds, SentIsReviewed
<1> QED
  BY <1>1, <1>2, FormsAreTyped DEF FormsInv

LEMMA FormsAdded ==
    ASSUME TheAgentForms!FormsAssumption, RegistrationTyped, SentIsAdded, FlowOnlyAdds, TheAgentForms!Next
    PROVE  (SentIsAdded /\ FlowOnlyAdds)'
<1> USE DEF SentIsAdded, FlowOnlyAdds, RegistrationTyped, FormsCreate, FormsEntry, TheAgentForms!FormsAssumption
<1>1. ASSUME NEW e \in Endpoints, TheAgentForms!TypeEndpoint(e) PROVE (SentIsAdded /\ FlowOnlyAdds)'
  BY <1>1 DEF TheAgentForms!TypeEndpoint, TheAgentForms!Click, TheAgentForms!Detecting
<1>2. CASE TheAgentForms!TypeName
  BY <1>2 DEF TheAgentForms!TypeName, TheAgentForms!Click, TheAgentForms!Registering
<1>3. CASE TheAgentForms!Back
  BY <1>3 DEF TheAgentForms!Back, TheAgentForms!Registering
<1>4. CASE TheAgentForms!handleSignIn
  BY <1>4 DEF TheAgentForms!handleSignIn
<1>5. ASSUME NEW i \in 1 .. 4, NEW j \in 1 .. 4, TheAgentForms!GoTo(i, j) PROVE (SentIsAdded /\ FlowOnlyAdds)'
  BY <1>5 DEF TheAgentForms!GoTo, TheAgentForms!Steps
<1>6. ASSUME NEW d \in Looks, TheAgentForms!handleDetect(d) PROVE (SentIsAdded /\ FlowOnlyAdds)'
  BY <1>6 DEF TheAgentForms!handleDetect, TheAgentForms!Click, TheAgentForms!page
<1>7. ASSUME NEW d \in Looks, TheAgentForms!handleRedetect(d) PROVE (SentIsAdded /\ FlowOnlyAdds)'
  BY <1>7 DEF TheAgentForms!handleRedetect, TheAgentForms!Click, TheAgentForms!page, TheAgentForms!Detecting
<1>8. ASSUME NEW d \in Looks, TheAgentForms!HearDetect(d) PROVE (SentIsAdded /\ FlowOnlyAdds)'
  BY <1>8 DEF TheAgentForms!HearDetect, TheAgentForms!Fault, TheAgentForms!Registering
<1>9. ASSUME NEW g \in Registry, TheAgentForms!register_agent(g) PROVE (SentIsAdded /\ FlowOnlyAdds)'
  <2>1. formsCreate.at = "sent" /\ agent[g].at = "none" /\ formsView' = formsView /\ formsChange' = formsChange
    BY <1>9 DEF TheAgentForms!register_agent, TheAgentForms!Unused, TheAgentForms!page
  <2>2. formsCreate \in FormsCreate /\ formsCreate.entry = NoName
    BY <2>1
  <2>3. \/ formsCreate' = [formsCreate EXCEPT !.at = "answered"] /\ agent' = agent
        \/ /\ formsCreate' = [formsCreate EXCEPT !.at = "embedding", !.entry = g]
           /\ agent' = [agent EXCEPT ![g] = [at |-> "embedding", endpoint |-> formsCreate.endpoint,
                                             name |-> formsCreate.name]]
    BY <1>9 DEF TheAgentForms!register_agent, TheAgentForms!Add
  <2>4. CASE formsCreate' = [formsCreate EXCEPT !.at = "answered"]
    <3>1. formsCreate'.at = "answered" /\ formsCreate'.entry = NoName
      BY <2>2, <2>4
    <3> QED
      BY <2>1, <3>1
  <2>5. CASE /\ formsCreate' = [formsCreate EXCEPT !.at = "embedding", !.entry = g]
             /\ agent' = [agent EXCEPT ![g] = [at |-> "embedding", endpoint |-> formsCreate.endpoint,
                                               name |-> formsCreate.name]]
    <3>1. /\ formsCreate'.at = "embedding" /\ formsCreate'.entry = g
          /\ formsCreate'.name = formsCreate.name /\ formsCreate'.endpoint = formsCreate.endpoint
      BY <2>2, <2>5
    <3>2. agent'[g] = [at |-> "embedding", endpoint |-> formsCreate.endpoint, name |-> formsCreate.name]
      BY <2>5
    <3> QED
      BY <2>1, <3>1, <3>2
  <2> QED
    BY <2>3, <2>4, <2>5
<1>10. ASSUME NEW g \in Registry, TheAgentForms!Embedded(g) PROVE (SentIsAdded /\ FlowOnlyAdds)'
  BY <1>10 DEF TheAgentForms!Embedded, TheAgentForms!page
<1>11. CASE TheAgentForms!handleRegister
  BY <1>11 DEF TheAgentForms!handleRegister, TheAgentForms!Click, TheAgentForms!Registering, TheAgentForms!page, TheAgentForms!NoCreate
<1>12. CASE TheAgentForms!LoseAnswer
  BY <1>12 DEF TheAgentForms!LoseAnswer, TheAgentForms!Fault, TheAgentForms!page
<1>13. CASE TheAgentForms!HearRegister
  BY <1>13 DEF TheAgentForms!HearRegister, TheAgentForms!NoCreate
<1>14. CASE TheAgentForms!Leave
  BY <1>14 DEF TheAgentForms!Leave
<1>15. CASE TheAgentForms!handleSave
  BY <1>15 DEF TheAgentForms!handleSave, TheAgentForms!Ask, TheAgentForms!Click, TheAgentForms!page
<1>16. CASE TheAgentForms!handleDeactivate
  BY <1>16 DEF TheAgentForms!handleDeactivate, TheAgentForms!Ask, TheAgentForms!Click, TheAgentForms!page
<1>17. CASE TheAgentForms!handleDelete
  BY <1>17 DEF TheAgentForms!handleDelete, TheAgentForms!Ask, TheAgentForms!Click, TheAgentForms!page
<1>18. CASE TheAgentForms!Confirm
  BY <1>18 DEF TheAgentForms!Confirm
<1>19. CASE TheAgentForms!ServeChange
  BY <1>19 DEF TheAgentForms!ServeChange, TheAgentForms!page
<1>20. CASE TheAgentForms!LoseChange
  BY <1>20 DEF TheAgentForms!LoseChange, TheAgentForms!Fault, TheAgentForms!page, TheAgentForms!NoChange
<1>21. CASE TheAgentForms!HearChange
  BY <1>21 DEF TheAgentForms!HearChange, TheAgentForms!NoChange
<1>22. ASSUME NEW g \in Registry, NEW e \in Endpoints, TheAgentForms!RegisterBeside(g, e) PROVE (SentIsAdded /\ FlowOnlyAdds)'
  BY <1>22 DEF TheAgentForms!RegisterBeside, TheAgentForms!Add, TheAgentForms!Unused, TheAgentForms!Click, TheAgentForms!page
<1>23. ASSUME NEW g \in Registry, TheAgentForms!Probe(g) PROVE (SentIsAdded /\ FlowOnlyAdds)'
  BY <1>23 DEF TheAgentForms!Probe, TheAgentForms!Click, TheAgentForms!Monitored, TheAgentForms!page
<1>24. ASSUME NEW g \in Registry, TheAgentForms!MarkUnavailable(g) \/ TheAgentForms!Recover(g) PROVE (SentIsAdded /\ FlowOnlyAdds)'
  BY <1>24 DEF TheAgentForms!MarkUnavailable, TheAgentForms!Recover, TheAgentForms!Mark, TheAgentForms!Fault, TheAgentForms!page
<1>25. ASSUME NEW g \in Registry, NEW to \in {"active", "suspended"}, TheAgentForms!update_agent_status(g, to)
       PROVE (SentIsAdded /\ FlowOnlyAdds)'
  BY <1>25 DEF TheAgentForms!update_agent_status, TheAgentForms!OnMarket, TheAgentForms!Listed, TheAgentForms!Fault, TheAgentForms!page
<1> QED
  BY <1>1, <1>2, <1>3, <1>4, <1>5, <1>6, <1>7, <1>8, <1>9, <1>10, <1>11, <1>12, <1>13, <1>14, <1>15, <1>16, <1>17, <1>18, <1>19, <1>20, <1>21, <1>22, <1>23, <1>24, <1>25 DEF TheAgentForms!Next

LEMMA FormsReviewed ==
    ASSUME TheAgentForms!FormsAssumption, RegistrationTyped, SentIsAdded, FlowOnlyAdds, SentIsReviewed, TheAgentForms!Next
    PROVE  SentIsReviewed'
<1> USE DEF SentIsAdded, FlowOnlyAdds, SentIsReviewed, RegistrationTyped, FormsCreate, FormsEntry, FormsForm, TheAgentForms!FormsAssumption
<1>1. ASSUME NEW e \in Endpoints, TheAgentForms!TypeEndpoint(e) PROVE SentIsReviewed'
  BY <1>1 DEF TheAgentForms!TypeEndpoint, TheAgentForms!Click, TheAgentForms!Detecting
<1>2. CASE TheAgentForms!TypeName
  BY <1>2 DEF TheAgentForms!TypeName, TheAgentForms!Click, TheAgentForms!Registering
<1>3. CASE TheAgentForms!Back
  BY <1>3 DEF TheAgentForms!Back, TheAgentForms!Registering
<1>4. CASE TheAgentForms!handleSignIn
  BY <1>4 DEF TheAgentForms!handleSignIn
<1>5. ASSUME NEW i \in 1 .. 4, NEW j \in 1 .. 4, TheAgentForms!GoTo(i, j) PROVE SentIsReviewed'
  BY <1>5 DEF TheAgentForms!GoTo, TheAgentForms!Steps
<1>6. ASSUME NEW d \in Looks, TheAgentForms!handleDetect(d) PROVE SentIsReviewed'
  BY <1>6 DEF TheAgentForms!handleDetect, TheAgentForms!Click, TheAgentForms!page
<1>7. ASSUME NEW d \in Looks, TheAgentForms!handleRedetect(d) PROVE SentIsReviewed'
  BY <1>7 DEF TheAgentForms!handleRedetect, TheAgentForms!Click, TheAgentForms!page, TheAgentForms!Detecting
<1>8. ASSUME NEW d \in Looks, TheAgentForms!HearDetect(d) PROVE SentIsReviewed'
  BY <1>8 DEF TheAgentForms!HearDetect, TheAgentForms!Fault, TheAgentForms!Registering
<1>9. ASSUME NEW g \in Registry, TheAgentForms!register_agent(g) PROVE SentIsReviewed'
  BY <1>9 DEF TheAgentForms!register_agent, TheAgentForms!Add, TheAgentForms!Unused, TheAgentForms!page
<1>10. ASSUME NEW g \in Registry, TheAgentForms!Embedded(g) PROVE SentIsReviewed'
  BY <1>10 DEF TheAgentForms!Embedded, TheAgentForms!page
<1>11. CASE TheAgentForms!handleRegister
  BY <1>11 DEF TheAgentForms!handleRegister, TheAgentForms!Click, TheAgentForms!Registering, TheAgentForms!page, TheAgentForms!NoCreate
<1>12. CASE TheAgentForms!LoseAnswer
  BY <1>12 DEF TheAgentForms!LoseAnswer, TheAgentForms!Fault, TheAgentForms!page
<1>13. CASE TheAgentForms!HearRegister
  BY <1>13 DEF TheAgentForms!HearRegister, TheAgentForms!NoCreate
<1>14. CASE TheAgentForms!Leave
  BY <1>14 DEF TheAgentForms!Leave
<1>15. CASE TheAgentForms!handleSave
  BY <1>15 DEF TheAgentForms!handleSave, TheAgentForms!Ask, TheAgentForms!Click, TheAgentForms!page
<1>16. CASE TheAgentForms!handleDeactivate
  BY <1>16 DEF TheAgentForms!handleDeactivate, TheAgentForms!Ask, TheAgentForms!Click, TheAgentForms!page
<1>17. CASE TheAgentForms!handleDelete
  BY <1>17 DEF TheAgentForms!handleDelete, TheAgentForms!Ask, TheAgentForms!Click, TheAgentForms!page
<1>18. CASE TheAgentForms!Confirm
  BY <1>18 DEF TheAgentForms!Confirm
<1>19. CASE TheAgentForms!ServeChange
  BY <1>19 DEF TheAgentForms!ServeChange, TheAgentForms!page
<1>20. CASE TheAgentForms!LoseChange
  BY <1>20 DEF TheAgentForms!LoseChange, TheAgentForms!Fault, TheAgentForms!page, TheAgentForms!NoChange
<1>21. CASE TheAgentForms!HearChange
  BY <1>21 DEF TheAgentForms!HearChange, TheAgentForms!NoChange
<1>22. ASSUME NEW g \in Registry, NEW e \in Endpoints, TheAgentForms!RegisterBeside(g, e) PROVE SentIsReviewed'
  BY <1>22 DEF TheAgentForms!RegisterBeside, TheAgentForms!Add, TheAgentForms!Unused, TheAgentForms!Click, TheAgentForms!page
<1>23. ASSUME NEW g \in Registry, TheAgentForms!Probe(g) PROVE SentIsReviewed'
  BY <1>23 DEF TheAgentForms!Probe, TheAgentForms!Click, TheAgentForms!Monitored, TheAgentForms!page
<1>24. ASSUME NEW g \in Registry, TheAgentForms!MarkUnavailable(g) \/ TheAgentForms!Recover(g) PROVE SentIsReviewed'
  BY <1>24 DEF TheAgentForms!MarkUnavailable, TheAgentForms!Recover, TheAgentForms!Mark, TheAgentForms!Fault, TheAgentForms!page
<1>25. ASSUME NEW g \in Registry, NEW to \in {"active", "suspended"}, TheAgentForms!update_agent_status(g, to)
       PROVE SentIsReviewed'
  BY <1>25 DEF TheAgentForms!update_agent_status, TheAgentForms!OnMarket, TheAgentForms!Listed, TheAgentForms!Fault, TheAgentForms!page
<1> QED
  BY <1>1, <1>2, <1>3, <1>4, <1>5, <1>6, <1>7, <1>8, <1>9, <1>10, <1>11, <1>12, <1>13, <1>14, <1>15, <1>16, <1>17, <1>18, <1>19, <1>20, <1>21, <1>22, <1>23, <1>24, <1>25 DEF TheAgentForms!Next

LEMMA FormsTypes ==
    ASSUME TheAgentForms!FormsAssumption, RegistrationTyped, TheAgentForms!Next
    PROVE  RegistrationTyped'
<1> USE DEF RegistrationTyped, FormsForm, FormsCreate, FormsEntry, FormsChange, TheAgentForms!Names, TheAgentForms!FormsAssumption
<1>1. ASSUME NEW e \in Endpoints, TheAgentForms!TypeEndpoint(e) PROVE RegistrationTyped'
  BY <1>1 DEF TheAgentForms!TypeEndpoint, TheAgentForms!Click, TheAgentForms!Detecting
<1>2. CASE TheAgentForms!TypeName
  BY <1>2 DEF TheAgentForms!TypeName, TheAgentForms!Click, TheAgentForms!Registering
<1>3. CASE TheAgentForms!Back
  BY <1>3 DEF TheAgentForms!Back, TheAgentForms!Registering
<1>4. CASE TheAgentForms!handleSignIn
  BY <1>4 DEF TheAgentForms!handleSignIn
<1>5. ASSUME NEW i \in 1 .. 4, NEW j \in 1 .. 4, TheAgentForms!GoTo(i, j) PROVE RegistrationTyped'
  BY <1>5 DEF TheAgentForms!GoTo, TheAgentForms!Steps
<1>6. ASSUME NEW d \in Looks, TheAgentForms!handleDetect(d) PROVE RegistrationTyped'
  BY <1>6 DEF TheAgentForms!handleDetect, TheAgentForms!Click, TheAgentForms!page
<1>7. ASSUME NEW d \in Looks, TheAgentForms!handleRedetect(d) PROVE RegistrationTyped'
  BY <1>7 DEF TheAgentForms!handleRedetect, TheAgentForms!Click, TheAgentForms!page, TheAgentForms!Detecting
<1>8. ASSUME NEW d \in Looks, TheAgentForms!HearDetect(d) PROVE RegistrationTyped'
  BY <1>8 DEF TheAgentForms!HearDetect, TheAgentForms!Fault, TheAgentForms!Registering
<1>9. ASSUME NEW g \in Registry, TheAgentForms!register_agent(g) PROVE RegistrationTyped'
  <2>1. \A e \in Endpoints \cup {NoName}, n \in TheAgentForms!Names :
           [at |-> "embedding", endpoint |-> e, name |-> n] \in FormsEntry
    OBVIOUS
  <2>2. [at |-> "embedding", endpoint |-> formsCreate.endpoint, name |-> formsCreate.name] \in FormsEntry
    BY <2>1
  <2>3. agent' \in [Registry -> FormsEntry]
    BY <1>9, <2>2 DEF TheAgentForms!register_agent, TheAgentForms!Add
  <2>4. \A m \in FormsCreate : /\ [m EXCEPT !.at = "answered"] \in FormsCreate
                              /\ [m EXCEPT !.at = "embedding", !.entry = g] \in FormsCreate
    OBVIOUS
  <2>5. formsCreate' \in FormsCreate
    BY <1>9, <2>4 DEF TheAgentForms!register_agent
  <2> QED
    BY <1>9, <2>3, <2>5 DEF TheAgentForms!register_agent, TheAgentForms!Add, TheAgentForms!page
<1>10. ASSUME NEW g \in Registry, TheAgentForms!Embedded(g) PROVE RegistrationTyped'
  BY <1>10 DEF TheAgentForms!Embedded, TheAgentForms!page
<1>11. CASE TheAgentForms!handleRegister
  <2>1. \A n \in TheAgentForms!Names, e \in Endpoints \cup {NoName} :
           [TheAgentForms!NoCreate EXCEPT !.at = "sent", !.name = n, !.endpoint = e] \in FormsCreate
    <3>1. TheAgentForms!NoCreate \in FormsCreate
      BY DEF TheAgentForms!NoCreate
    <3>2. \A m \in FormsCreate, n \in TheAgentForms!Names, e \in Endpoints \cup {NoName} :
             [m EXCEPT !.at = "sent", !.name = n, !.endpoint = e] \in FormsCreate
      OBVIOUS
    <3> QED
      BY <3>1, <3>2
  <2>2. formsForm.name \in TheAgentForms!Names /\ formsForm.endpoint \in Endpoints \cup {NoName}
    OBVIOUS
  <2>3. formsCreate' \in FormsCreate
    BY <1>11, <2>1, <2>2 DEF TheAgentForms!handleRegister
  <2> QED
    BY <1>11, <2>3 DEF TheAgentForms!handleRegister, TheAgentForms!Click, TheAgentForms!page
<1>12. CASE TheAgentForms!LoseAnswer
  <2>1. \A m \in FormsCreate, n \in 0 .. MaxTries :
           [m EXCEPT !.at = "sent", !.entry = NoName, !.tries = n] \in FormsCreate
    OBVIOUS
  <2>2. \A m \in FormsCreate : [m EXCEPT !.at = "answered", !.entry = NoName] \in FormsCreate
    OBVIOUS
  <2>3. CASE formsCreate.tries < MaxTries
    <3>1. formsCreate.tries + 1 \in 0 .. MaxTries
      BY <2>3
    <3>2. formsCreate' = [formsCreate EXCEPT !.at = "sent", !.entry = NoName, !.tries = formsCreate.tries + 1]
      BY <1>12, <2>3 DEF TheAgentForms!LoseAnswer
    <3>3. formsCreate' \in FormsCreate
      BY <2>1, <3>1, <3>2
    <3> QED
      BY <1>12, <3>3 DEF TheAgentForms!LoseAnswer, TheAgentForms!Fault, TheAgentForms!page
  <2>4. CASE ~ formsCreate.tries < MaxTries
    <3>1. formsCreate' \in FormsCreate
      BY <1>12, <2>2, <2>4 DEF TheAgentForms!LoseAnswer
    <3> QED
      BY <1>12, <3>1 DEF TheAgentForms!LoseAnswer, TheAgentForms!Fault, TheAgentForms!page
  <2> QED
    BY <2>3, <2>4
<1>13. CASE TheAgentForms!HearRegister
  BY <1>13 DEF TheAgentForms!HearRegister, TheAgentForms!NoCreate
<1>14. CASE TheAgentForms!Leave
  BY <1>14 DEF TheAgentForms!Leave
<1>15. CASE TheAgentForms!handleSave
  BY <1>15 DEF TheAgentForms!handleSave, TheAgentForms!Ask, TheAgentForms!Click, TheAgentForms!page
<1>16. CASE TheAgentForms!handleDeactivate
  BY <1>16 DEF TheAgentForms!handleDeactivate, TheAgentForms!Ask, TheAgentForms!Click, TheAgentForms!page
<1>17. CASE TheAgentForms!handleDelete
  BY <1>17 DEF TheAgentForms!handleDelete, TheAgentForms!Ask, TheAgentForms!Click, TheAgentForms!page
<1>18. CASE TheAgentForms!Confirm
  <2>1. \A m \in FormsForm : [m EXCEPT !.confirmed = TRUE] \in FormsForm
    OBVIOUS
  <2>2. formsForm' \in FormsForm
    BY <1>18, <2>1 DEF TheAgentForms!Confirm
  <2> QED
    BY <1>18, <2>2 DEF TheAgentForms!Confirm
<1>19. CASE TheAgentForms!ServeChange
  BY <1>19 DEF TheAgentForms!ServeChange, TheAgentForms!page
<1>20. CASE TheAgentForms!LoseChange
  BY <1>20 DEF TheAgentForms!LoseChange, TheAgentForms!Fault, TheAgentForms!page, TheAgentForms!NoChange
<1>21. CASE TheAgentForms!HearChange
  BY <1>21 DEF TheAgentForms!HearChange, TheAgentForms!NoChange
<1>22. ASSUME NEW g \in Registry, NEW e \in Endpoints, TheAgentForms!RegisterBeside(g, e) PROVE RegistrationTyped'
  BY <1>22 DEF TheAgentForms!RegisterBeside, TheAgentForms!Add, TheAgentForms!Unused, TheAgentForms!Click, TheAgentForms!page
<1>23. ASSUME NEW g \in Registry, TheAgentForms!Probe(g) PROVE RegistrationTyped'
  BY <1>23 DEF TheAgentForms!Probe, TheAgentForms!Click, TheAgentForms!Monitored, TheAgentForms!page
<1>24. ASSUME NEW g \in Registry, TheAgentForms!MarkUnavailable(g) \/ TheAgentForms!Recover(g) PROVE RegistrationTyped'
  BY <1>24 DEF TheAgentForms!MarkUnavailable, TheAgentForms!Recover, TheAgentForms!Mark, TheAgentForms!Fault, TheAgentForms!page
<1>25. ASSUME NEW g \in Registry, NEW to \in {"active", "suspended"}, TheAgentForms!update_agent_status(g, to)
       PROVE RegistrationTyped'
  BY <1>25 DEF TheAgentForms!update_agent_status, TheAgentForms!OnMarket, TheAgentForms!Listed, TheAgentForms!Fault, TheAgentForms!page
<1> QED
  BY <1>1, <1>2, <1>3, <1>4, <1>5, <1>6, <1>7, <1>8, <1>9, <1>10, <1>11, <1>12, <1>13, <1>14, <1>15, <1>16, <1>17, <1>18, <1>19, <1>20, <1>21, <1>22, <1>23, <1>24, <1>25 DEF TheAgentForms!Next

LEMMA NextKeepsForms ==
    ASSUME TheAgentForms!FormsAssumption, FormsInv, TheAgentForms!Next \/ UNCHANGED formsVars
    PROVE  FormsInv'
<1>1. CASE TheAgentForms!Next
  BY <1>1, FormsAreTyped, FormsAdded, FormsReviewed, FormsTypes DEF FormsInv
<1>2. CASE UNCHANGED formsVars
  <2> USE <1>2 DEF formsVars, FormsInv
  <2>1. TheAgentForms!TypeOK'
    BY DEF TheAgentForms!TypeOK
  <2>2. SentIsAdded' /\ FlowOnlyAdds' /\ SentIsReviewed'
    BY DEF SentIsAdded, FlowOnlyAdds, SentIsReviewed
  <2> QED
    BY <2>1, <2>2
<1> QED
  BY <1>1, <1>2

LEMMA FormsShow == ASSUME FormsInv PROVE TheAgentForms!AnnouncesWhatIs
  BY DEF FormsInv, SentIsReviewed, TheAgentForms!AnnouncesWhatIs

-----------------------------------------------------------------------------
(***************************************************************************)
(* A crew's report.  As long as no second run is started over one that is  *)
(* being started, one run at a time is asked for, with nothing on display  *)
(* (OneRunIsAsked); only a crew's page shows a report (OthersShowNone).    *)
(***************************************************************************)

ReportTyped ==
    /\ ask \in [Runs -> {"none", "sent", "answered", "heard"}]
    /\ editorShown \in [Agents -> [run : Runs \cup {NoName}, ended : BOOLEAN]]
    /\ editorResult \in Runs \cup {NoName}

Empty == \A a \in Agents : editorShown[a].run = NoName

OneRunIsAsked ==
    editorPage = "crew" /\ "overlap" \notin editorPast =>
        \A r \in Runs : ask[r] \in {"sent", "answered"} =>
            /\ editorResult = NoName /\ Empty
            /\ \A s \in Runs : ask[s] \in {"sent", "answered"} => s = r

OthersShowNone == editorPage # "crew" => Empty

ReportInv == ReportTyped /\ OneRunIsAsked /\ OthersShowNone /\ TheEditor!ReportIsOfRun

LEMMA InitReport == ASSUME TheEditor!Init PROVE ReportInv
  BY DEF TheEditor!Init, TheEditor!NoRuns, TheEditor!NoReport, ReportInv, ReportTyped, OneRunIsAsked,
         OthersShowNone, Empty, TheEditor!ReportIsOfRun

LEMMA ReportNext ==
    ASSUME ReportInv, TheEditor!Next
    PROVE  ReportInv'
<1> USE DEF ReportInv, ReportTyped, OneRunIsAsked, OthersShowNone, Empty, TheEditor!ReportIsOfRun
<1>1. CASE TheEditor!StartEditing
  BY <1>1 DEF TheEditor!StartEditing, TheEditor!Click, TheEditor!NoReport
<1>2. CASE TheEditor!CancelEditing
  BY <1>2 DEF TheEditor!CancelEditing
<1>3. CASE TheEditor!Type
  BY <1>3 DEF TheEditor!Type, TheEditor!Edit
<1>4. CASE TheEditor!OpenPicker
  BY <1>4 DEF TheEditor!OpenPicker
<1>5. ASSUME NEW a \in Agents, TheEditor!PickAgent(a) PROVE ReportInv'
  BY <1>5 DEF TheEditor!PickAgent, TheEditor!Edit
<1>6. ASSUME NEW a \in Agents, TheEditor!PollTask(a) PROVE ReportInv'
  BY <1>6 DEF TheEditor!PollTask, TheEditor!Shows
<1>7. ASSUME NEW i \in 1 .. MaxSteps, TheEditor!RemoveStep(i) PROVE ReportInv'
  BY <1>7 DEF TheEditor!RemoveStep, TheEditor!Edit
<1>8. ASSUME NEW i \in 1 .. MaxSteps, TheEditor!SwitchType(i) PROVE ReportInv'
  BY <1>8 DEF TheEditor!SwitchType, TheEditor!Edit
<1>9. ASSUME NEW i \in 1 .. MaxSteps, TheEditor!PickWorkflow(i) PROVE ReportInv'
  BY <1>9 DEF TheEditor!PickWorkflow, TheEditor!Edit
<1>10. ASSUME NEW i \in 1 .. MaxSteps, TheEditor!MoveUp(i) PROVE ReportInv'
  BY <1>10 DEF TheEditor!MoveUp, TheEditor!Edit
<1>11. ASSUME NEW v \in Saves, TheEditor!Save(v) PROVE ReportInv'
  BY <1>11 DEF TheEditor!Save
<1>12. ASSUME NEW v \in Saves, TheEditor!ServeSave(v) PROVE ReportInv'
  BY <1>12 DEF TheEditor!ServeSave
<1>13. ASSUME NEW v \in Saves, TheEditor!LoseSave(v) PROVE ReportInv'
  BY <1>13 DEF TheEditor!LoseSave
<1>14. ASSUME NEW v \in Saves, TheEditor!HearSave(v) PROVE ReportInv'
  BY <1>14 DEF TheEditor!HearSave
<1>15. ASSUME NEW v \in Saves, TheEditor!Close(v) PROVE ReportInv'
  BY <1>15 DEF TheEditor!Close
<1>16. CASE TheEditor!AnswerGet
  BY <1>16 DEF TheEditor!AnswerGet
<1>17. CASE TheEditor!LoseGet
  BY <1>17 DEF TheEditor!LoseGet
<1>18. CASE TheEditor!Elsewhere
  BY <1>18 DEF TheEditor!Elsewhere
<1>19. CASE TheEditor!AskToLeave
  BY <1>19 DEF TheEditor!AskToLeave
<1>20. CASE TheEditor!Leave
  <2>1. ask' = ask /\ editorPast' = editorPast
    BY <1>20 DEF TheEditor!Leave
  <2>2. CASE editorPage' = "left" /\ editorResult' = NoName /\ editorShown' = TheEditor!NoReport
    <3>1. editorShown' \in [Agents -> [run : Runs \cup {NoName}, ended : BOOLEAN]] /\ Empty'
      BY <2>2 DEF TheEditor!NoReport
    <3> QED
      BY <2>1, <2>2, <3>1
  <2>3. CASE editorPage' = editorPage /\ editorResult' = editorResult /\ editorShown' = editorShown
    BY <2>1, <2>3
  <2> QED
    BY <1>20, <2>2, <2>3 DEF TheEditor!Leave
<1>21. ASSUME NEW r \in Runs, TheEditor!Execute(r) PROVE ReportInv'
  BY <1>21 DEF TheEditor!Execute, TheEditor!Shows
<1>22. ASSUME NEW r \in Runs, TheEditor!RunCrew(r) PROVE ReportInv'
  BY <1>22 DEF TheEditor!RunCrew, TheEditor!Shows, TheEditor!Asking, TheEditor!NoReport
<1>23. ASSUME NEW r \in Runs, TheEditor!ServeRun(r) PROVE ReportInv'
  BY <1>23 DEF TheEditor!ServeRun
<1>24. ASSUME NEW r \in Runs, TheEditor!LoseRun(r) PROVE ReportInv'
  BY <1>24 DEF TheEditor!LoseRun
<1>25. ASSUME NEW r \in Runs, TheEditor!HearRun(r) PROVE ReportInv'
  BY <1>25 DEF TheEditor!HearRun
<1>26. ASSUME NEW r \in Runs, TheEditor!RunGoes(r) PROVE ReportInv'
  BY <1>26 DEF TheEditor!RunGoes
<1>27. CASE TheEditor!Poll
  BY <1>27 DEF TheEditor!Poll
<1>28. CASE TheEditor!AnswerLook
  BY <1>28 DEF TheEditor!AnswerLook
<1>29. CASE TheEditor!LoseLook
  BY <1>29 DEF TheEditor!LoseLook
<1>30. CASE TheEditor!CancelStep
  BY <1>30 DEF TheEditor!CancelStep
<1>31. CASE TheEditor!HearCancel
  BY <1>31 DEF TheEditor!HearCancel
<1>32. CASE TheEditor!NewRun
  BY <1>32 DEF TheEditor!NewRun, TheEditor!NoReport, TheEditor!Shows
<1> QED
  BY <1>1, <1>2, <1>3, <1>4, <1>5, <1>6, <1>7, <1>8, <1>9, <1>10, <1>11, <1>12, <1>13, <1>14, <1>15, <1>16, <1>17, <1>18, <1>19, <1>20, <1>21, <1>22, <1>23, <1>24, <1>25, <1>26, <1>27, <1>28, <1>29, <1>30, <1>31, <1>32 DEF TheEditor!Next

LEMMA NextKeepsReport ==
    ASSUME ReportInv, TheEditor!Next \/ UNCHANGED editorVars PROVE ReportInv'
<1>1. CASE TheEditor!Next
  BY <1>1, ReportNext
<1>2. CASE UNCHANGED editorVars
  BY <1>2 DEF editorVars, ReportInv, ReportTyped, OneRunIsAsked, OthersShowNone, Empty, TheEditor!ReportIsOfRun
<1> QED
  BY <1>1, <1>2

-----------------------------------------------------------------------------
(***************************************************************************)
(* A task on the client.  A call on its way is what the screen made it     *)
(* (CallsFit); the form has a skill of its agent, unless a link put it     *)
(* there (SkillsFit); the stream is the current task's (StreamFits); one   *)
(* query for a task is heard at a time, so that none that was answered     *)
(* before the task ended comes in after one that was answered later        *)
(* (OneGet); and a cancel that was told of is on its way, done or cut      *)
(* (CancelsAreDone).                                                       *)
(***************************************************************************)

ConsoleSelection == [agent : Agents \cup {NoName}, skill : TheTaskConsole!AllSkills]
ConsoleCall == [kind : {"none", "create", "get", "cancel", "confirm"},
                task : Tasks \cup {NoName}, with : ConsoleSelection, tries : 0 .. MaxResends,
                at : {"none", "sent", "answered"}, answer : TheTaskConsole!Statuses \cup {"error"},
                heard : BOOLEAN]

CallFits(m) ==
    /\ m.kind = "none" <=> m.at = "none"
    /\ m.kind \in {"get", "cancel", "confirm"} => m.task \in Tasks
    /\ m.kind = "create" /\ m.at = "answered" /\ m.answer # "error" => m.task \in Tasks
    /\ m.at = "answered" => m.heard

CallsFit == \A c \in Calls : CallFits(consoleCall[c])

ScreenFits ==
    /\ screen = "form" => current = NoName
    /\ screen = "page" => current \in Tasks
    /\ toast.visit # {} => screen = "form"
    /\ consoleForm.loaded => consoleForm.agent # NoName

Fits(m) == m.agent # NoName => m.skill \in Skills[m.agent] \/ m = Link

SkillsFit ==
    /\ consoleForm.skill # NoName => Fits([agent |-> consoleForm.agent, skill |-> consoleForm.skill])
    /\ \A c \in Calls : Fits(consoleCall[c].with)
    /\ \A t \in Tasks : Fits(madeFor[t])

StreamFits ==
    /\ stream.on \/ stream.done => screen = "streamed" /\ stream.of = current
    /\ stream.on => stream.of \in Tasks
    /\ stream.done => stream.ended = current

OneGet ==
    /\ \A t \in Tasks, c, d \in Calls : TheTaskConsole!Gets(c, t) /\ TheTaskConsole!Gets(d, t) => c = d
    /\ \A t \in Tasks : consoleCache[t].status \in TheTaskConsole!Ended
                          => /\ task[t] = consoleCache[t].status
                             /\ \A c \in Calls : TheTaskConsole!Gets(c, t) /\ consoleCall[c].at = "answered"
                                                   => consoleCall[c].answer \in {"error", task[t]}
    /\ \A t \in Tasks, c \in Calls :
          /\ TheTaskConsole!Gets(c, t) /\ consoleCall[c].at = "answered"
          /\ consoleCall[c].answer \in TheTaskConsole!Ended
          => task[t] = consoleCall[c].answer

CancelsAreDone ==
    consoleFaults = 0 =>
        /\ \A c \in Calls : consoleCall[c].kind = "cancel" =>
              /\ consoleCall[c].at = "answered" => task[consoleCall[c].task] \in TheTaskConsole!Ended
              /\ ~ consoleCall[c].heard => consoleCall[c].task \in cut
        /\ TheTaskConsole!SaidIsSo

ConsoleInv ==
    /\ TheTaskConsole!TypeOK /\ CallsFit /\ ScreenFits /\ SkillsFit /\ StreamFits
    /\ OneGet /\ CancelsAreDone

(* A call does to the tasks what its kind says, and an ended task stays as *)
(* it ended.                                                               *)
LEMMA EffectIs ==
    ASSUME TheTaskConsole!ConsoleAssumption, TheTaskConsole!TypeOK, CallsFit,
           NEW c \in Calls, NEW t \in Tasks, consoleCall[c].at = "sent", TheTaskConsole!Effect(c, t)
    PROVE  /\ task' \in [Tasks -> TheTaskConsole!Statuses]
           /\ madeFor' \in [Tasks -> ConsoleSelection]
           /\ \A u \in Tasks : task[u] \in TheTaskConsole!Ended => task'[u] = task[u]
           /\ \A u \in Tasks : madeFor'[u] \in {madeFor[u], consoleCall[c].with}
           /\ consoleCall[c].kind \in {"get", "cancel", "confirm"} => t = consoleCall[c].task
           /\ consoleCall[c].kind = "cancel" => task'[t] \in TheTaskConsole!Ended
<1> USE DEF TheTaskConsole!TypeOK, TheTaskConsole!Ended, TheTaskConsole!Statuses
<1>0. consoleCall[c].kind \in {"create", "get", "cancel", "confirm"}
  BY DEF CallsFit, CallFits
<1>1. CASE consoleCall[c].kind = "create"
  <2>1. /\ task[t] = "none"
        /\ \E new \in {"submitted", "pending_approval"} : task' = [task EXCEPT ![t] = new]
        /\ madeFor' = [madeFor EXCEPT ![t] = consoleCall[c].with]
    BY <1>1 DEF TheTaskConsole!Effect
  <2>2. madeFor' \in [Tasks -> ConsoleSelection]
    BY <2>1 DEF ConsoleSelection, TheTaskConsole!Selections
  <2> QED
    BY <1>1, <2>1, <2>2
<1>2. CASE consoleCall[c].kind = "get"
  BY <1>2 DEF TheTaskConsole!Effect, TheTaskConsole!server, ConsoleSelection, TheTaskConsole!Selections
<1>3. CASE consoleCall[c].kind = "cancel"
  <2>1. /\ t = consoleCall[c].task
        /\ task' = IF task[t] \in TheTaskConsole!Ended THEN task ELSE [task EXCEPT ![t] = "canceled"]
        /\ madeFor' = madeFor
    BY <1>3 DEF TheTaskConsole!Effect
  <2> QED
    BY <1>3, <2>1 DEF ConsoleSelection, TheTaskConsole!Selections
<1>4. CASE consoleCall[c].kind = "confirm"
  <2>1. /\ t = consoleCall[c].task
        /\ task' = IF task[t] = "pending_approval" THEN [task EXCEPT ![t] = "submitted"] ELSE task
        /\ madeFor' = madeFor
    BY <1>4 DEF TheTaskConsole!Effect
  <2> QED
    BY <1>4, <2>1 DEF ConsoleSelection, TheTaskConsole!Selections
<1> QED
  BY <1>0, <1>1, <1>2, <1>3, <1>4

LEMMA ServeIs ==
    ASSUME TheTaskConsole!ConsoleAssumption, TheTaskConsole!TypeOK, NEW c \in Calls, NEW t \in Tasks, TheTaskConsole!Serve(c, t),
           task' \in [Tasks -> TheTaskConsole!Statuses]
    PROVE  /\ \A x \in Calls \ {c} : consoleCall'[x] = consoleCall[x]
           /\ ~ consoleCall[c].heard => consoleCall'[c] = TheTaskConsole!NoCall
           /\ consoleCall[c].heard =>
                 /\ consoleCall'[c].kind = consoleCall[c].kind /\ consoleCall'[c].with = consoleCall[c].with
                 /\ consoleCall'[c].task = t /\ consoleCall'[c].at = "answered" /\ consoleCall'[c].heard
                 /\ consoleCall'[c].answer \in {"error", task'[t]}
           /\ consoleCall' \in [Calls -> ConsoleCall]
<1> DEFINE new == [consoleCall[c] EXCEPT !.at = "answered", !.task = t,
                   !.answer = IF TheTaskConsole!Refused(c, t) THEN "error" ELSE task'[t]]
<1>1. consoleCall \in [Calls -> ConsoleCall]
  BY DEF TheTaskConsole!TypeOK, ConsoleCall, ConsoleSelection, TheTaskConsole!Selections
<1>2. /\ consoleCall[c].heard => consoleCall' = [consoleCall EXCEPT ![c] = new]
      /\ ~ consoleCall[c].heard => consoleCall' = [consoleCall EXCEPT ![c] = TheTaskConsole!NoCall]
  BY DEF TheTaskConsole!Serve, TheTaskConsole!SetCall
<1>3. /\ new \in ConsoleCall
      /\ new.kind = consoleCall[c].kind /\ new.with = consoleCall[c].with
      /\ new.task = t /\ new.at = "answered" /\ new.answer \in {"error", task'[t]}
      /\ new.heard = consoleCall[c].heard
  BY <1>1 DEF ConsoleCall
<1>4. TheTaskConsole!NoCall \in ConsoleCall
  BY DEF TheTaskConsole!NoCall, TheTaskConsole!Nothing, ConsoleCall, ConsoleSelection,
         TheTaskConsole!AllSkills, TheTaskConsole!Statuses, TheTaskConsole!ConsoleAssumption
<1> HIDE DEF new
<1> QED
  BY <1>1, <1>2, <1>3, <1>4

LEMMA LoseIs ==
    ASSUME TheTaskConsole!ConsoleAssumption, TheTaskConsole!TypeOK, NEW c \in Calls,
           TheTaskConsole!LoseAnswer(c)
    PROVE  /\ \A x \in Calls \ {c} : consoleCall'[x] = consoleCall[x]
           /\ ~ consoleCall[c].heard => consoleCall'[c] = TheTaskConsole!NoCall
           /\ consoleCall[c].heard =>
                 /\ consoleCall'[c].kind = consoleCall[c].kind /\ consoleCall'[c].with = consoleCall[c].with
                 /\ consoleCall'[c].task = consoleCall[c].task /\ consoleCall'[c].heard
                 /\ \/ consoleCall'[c].at = "sent"
                    \/ consoleCall'[c].at = "answered" /\ consoleCall'[c].answer = "error"
           /\ consoleCall' \in [Calls -> ConsoleCall]
<1> DEFINE retry == [consoleCall[c] EXCEPT !.tries = @ + 1]
           over == [consoleCall[c] EXCEPT !.at = "answered", !.answer = "error"]
<1>1. consoleCall \in [Calls -> ConsoleCall] /\ MaxResends \in Nat
  BY DEF TheTaskConsole!TypeOK, ConsoleCall, ConsoleSelection, TheTaskConsole!Selections,
         TheTaskConsole!ConsoleAssumption
<1>2. CASE ~ consoleCall[c].heard
  <2>1. consoleCall' = [consoleCall EXCEPT ![c] = TheTaskConsole!NoCall]
    BY <1>2 DEF TheTaskConsole!LoseAnswer, TheTaskConsole!SetCall
  <2>2. TheTaskConsole!NoCall \in ConsoleCall
    BY DEF TheTaskConsole!NoCall, TheTaskConsole!Nothing, ConsoleCall, ConsoleSelection,
           TheTaskConsole!AllSkills, TheTaskConsole!Statuses, TheTaskConsole!ConsoleAssumption
  <2> QED
    BY <1>1, <1>2, <2>1, <2>2
<1>3. CASE consoleCall[c].heard /\ consoleCall[c].tries < MaxResends
  <2>1. consoleCall' = [consoleCall EXCEPT ![c] = retry]
    BY <1>3 DEF TheTaskConsole!LoseAnswer, TheTaskConsole!SetCall
  <2>2. /\ retry \in ConsoleCall /\ retry.kind = consoleCall[c].kind /\ retry.with = consoleCall[c].with
        /\ retry.task = consoleCall[c].task /\ retry.heard = consoleCall[c].heard
        /\ retry.at = consoleCall[c].at
    <3>1. consoleCall[c] \in ConsoleCall
      BY <1>1
    <3>2. consoleCall[c].tries \in 0 .. MaxResends
      BY <3>1 DEF ConsoleCall
    <3>3. consoleCall[c].tries + 1 \in 0 .. MaxResends
      BY <1>1, <1>3, <3>2
    <3>4. \A m \in ConsoleCall, n \in 0 .. MaxResends : [m EXCEPT !.tries = n] \in ConsoleCall
      BY DEF ConsoleCall
    <3>5. retry \in ConsoleCall
      BY ONLY <3>1, <3>3, <3>4
    <3> QED
      BY <3>1, <3>5 DEF ConsoleCall
  <2>3. consoleCall[c].at = "sent"
    BY DEF TheTaskConsole!LoseAnswer
  <2> HIDE DEF retry
  <2> QED
    BY <1>1, <1>3, <2>1, <2>2, <2>3
<1>4. CASE consoleCall[c].heard /\ ~ consoleCall[c].tries < MaxResends
  <2>1. consoleCall' = [consoleCall EXCEPT ![c] = over]
    BY <1>4 DEF TheTaskConsole!LoseAnswer, TheTaskConsole!SetCall
  <2>2. /\ over \in ConsoleCall /\ over.kind = consoleCall[c].kind /\ over.with = consoleCall[c].with
        /\ over.task = consoleCall[c].task /\ over.heard = consoleCall[c].heard
        /\ over.at = "answered" /\ over.answer = "error"
    BY <1>1, <1>4 DEF ConsoleCall
  <2> HIDE DEF over
  <2> QED
    BY <1>1, <1>4, <2>1, <2>2
<1> QED
  BY <1>2, <1>3, <1>4

(* One query stays one, and fresh, if each that is heard after a step was  *)
(* heard before it, with the answer it had or one of now, or is the only   *)
(* one of its task; and what is shown of a task's end was shown.           *)
LEMMA GetsStay ==
    ASSUME OneGet,
           \A x \in Calls, t \in Tasks : TheTaskConsole!Gets(x, t)' =>
              \/ /\ TheTaskConsole!Gets(x, t)
                 /\ consoleCall'[x].at = "answered" =>
                       \/ consoleCall[x].at = "answered" /\ consoleCall'[x].answer = consoleCall[x].answer
                       \/ consoleCall'[x].answer \in {"error", task'[t]}
              \/ consoleCall'[x].at = "sent" /\ \A d \in Calls : TheTaskConsole!Gets(d, t)' => d = x,
           \A t \in Tasks : consoleCache'[t].status \in TheTaskConsole!Ended =>
                               consoleCache'[t].status = consoleCache[t].status,
           \A t \in Tasks : task[t] \in TheTaskConsole!Ended => task'[t] = task[t]
    PROVE  OneGet'
<1>1. ASSUME NEW t \in Tasks, NEW c \in Calls, NEW d \in Calls,
             TheTaskConsole!Gets(c, t)', TheTaskConsole!Gets(d, t)'
      PROVE  c = d
  BY <1>1 DEF OneGet
<1>2. ASSUME NEW t \in Tasks, consoleCache'[t].status \in TheTaskConsole!Ended
      PROVE  task'[t] = consoleCache'[t].status
  BY <1>2 DEF OneGet
<1>3. ASSUME NEW t \in Tasks, consoleCache'[t].status \in TheTaskConsole!Ended,
             NEW c \in Calls, TheTaskConsole!Gets(c, t)', consoleCall'[c].at = "answered"
      PROVE  consoleCall'[c].answer \in {"error", task'[t]}
  BY <1>3 DEF OneGet
<1>4. ASSUME NEW t \in Tasks, NEW c \in Calls, TheTaskConsole!Gets(c, t)',
             consoleCall'[c].at = "answered", consoleCall'[c].answer \in TheTaskConsole!Ended
      PROVE  task'[t] = consoleCall'[c].answer
  BY <1>4 DEF OneGet, TheTaskConsole!Ended
<1> QED
  BY <1>1, <1>2, <1>3, <1>4 DEF OneGet, TheTaskConsole!Ended

(* What was told stays true, if a cancel goes only when its task has ended *)
(* or its page was left.                                                   *)
LEMMA CancelsStay ==
    ASSUME CancelsAreDone, consoleFaults' = 0 => consoleFaults = 0,
           \A x \in Calls : consoleCall'[x].kind = "cancel" =>
              /\ \/ /\ consoleCall[x].kind = "cancel" /\ consoleCall'[x].task = consoleCall[x].task
                    /\ \/ consoleCall'[x].at = consoleCall[x].at
                       \/ task'[consoleCall[x].task] \in TheTaskConsole!Ended
                    /\ ~ consoleCall'[x].heard => ~ consoleCall[x].heard \/ consoleCall[x].task \in cut'
                 \/ consoleCall'[x].at = "sent" /\ consoleCall'[x].heard,
           \A x \in Calls : consoleCall[x].kind = "cancel" /\ consoleFaults' = 0 =>
              \/ task'[consoleCall[x].task] \in TheTaskConsole!Ended \/ consoleCall[x].task \in cut'
              \/ consoleCall'[x].kind = "cancel" /\ consoleCall'[x].task = consoleCall[x].task,
           \A t \in said' \ cut' :
              \/ t \in said \ cut
              \/ \E x \in Calls : consoleCall'[x].kind = "cancel" /\ consoleCall'[x].task = t,
           cut \subseteq cut', said \subseteq Tasks,
           \A x \in Calls : consoleCall[x].kind = "cancel" => consoleCall[x].task \in Tasks,
           \A t \in Tasks : task[t] \in TheTaskConsole!Ended => task'[t] = task[t]
    PROVE  CancelsAreDone'
<1> SUFFICES ASSUME consoleFaults' = 0
             PROVE  /\ \A c \in Calls : consoleCall'[c].kind = "cancel" =>
                          /\ consoleCall'[c].at = "answered" => task'[consoleCall'[c].task] \in TheTaskConsole!Ended
                          /\ ~ consoleCall'[c].heard => consoleCall'[c].task \in cut'
                    /\ TheTaskConsole!SaidIsSo'
  BY DEF CancelsAreDone, TheTaskConsole!Ended
<1>1. ASSUME NEW c \in Calls, consoleCall'[c].kind = "cancel"
      PROVE  /\ consoleCall'[c].at = "answered" => task'[consoleCall'[c].task] \in TheTaskConsole!Ended
             /\ ~ consoleCall'[c].heard => consoleCall'[c].task \in cut'
  BY <1>1 DEF CancelsAreDone
<1>2. ASSUME NEW t \in said' \ cut'
      PROVE  \/ task'[t] \in TheTaskConsole!Ended
             \/ \E x \in Calls : consoleCall'[x].kind = "cancel" /\ consoleCall'[x].task = t
  <2>1. CASE t \in said \ cut
    BY <1>2, <2>1 DEF CancelsAreDone, TheTaskConsole!SaidIsSo
  <2> QED
    BY <1>2, <2>1
<1> QED
  BY <1>1, <1>2 DEF TheTaskConsole!SaidIsSo, TheTaskConsole!Ended

ConsoleForm == [agent : Agents \cup {NoName}, skill : TheTaskConsole!AllSkills, loaded : BOOLEAN]
ConsoleShown == [status : TheTaskConsole!Statuses, failed : BOOLEAN]
ConsoleStream == [of : Tasks \cup {NoName}, on : BOOLEAN, done : BOOLEAN, text : SUBSET Tasks,
                  ended : Tasks \cup {NoName}]
ConsoleToast == [undo : Tasks \cup {NoName}, visit : SUBSET Tasks]

ServerTyped == task \in [Tasks -> TheTaskConsole!Statuses] /\ madeFor \in [Tasks -> ConsoleSelection]
CallsTyped == consoleCall \in [Calls -> ConsoleCall]
ScreenTyped ==
    /\ screen \in {"form", "page", "polled", "streamed"} /\ consoleForm \in ConsoleForm
    /\ current \in Tasks \cup {NoName} /\ consoleCache \in [Tasks -> ConsoleShown]
    /\ stream \in ConsoleStream /\ toast \in ConsoleToast
    /\ said \in SUBSET Tasks /\ cut \in SUBSET Tasks
CountsTyped == consoleClicks \in Nat /\ consoleFaults \in 0 .. MaxFaults

LEMMA TypedIsTyped ==
    /\ TheTaskConsole!TypeOK <=> ServerTyped /\ CallsTyped /\ ScreenTyped /\ CountsTyped
    /\ TheTaskConsole!TypeOK' <=> ServerTyped' /\ CallsTyped' /\ ScreenTyped' /\ CountsTyped'
  BY DEF TheTaskConsole!TypeOK, ServerTyped, CallsTyped, ScreenTyped, CountsTyped, ConsoleForm,
         ConsoleShown, ConsoleStream, ConsoleToast, ConsoleCall, ConsoleSelection,
         TheTaskConsole!Selections

LEMMA NewCallsTyped ==
    ASSUME TheTaskConsole!ConsoleAssumption
    PROVE  /\ TheTaskConsole!NoCall \in ConsoleCall
           /\ \A k \in {"create", "get", "cancel", "confirm"}, t \in Tasks \cup {NoName} :
                 TheTaskConsole!NewCall(k, t) \in ConsoleCall
           /\ \A m \in ConsoleCall, w \in ConsoleSelection : [m EXCEPT !.with = w] \in ConsoleCall
           /\ \A m \in ConsoleCall : [m EXCEPT !.heard = FALSE] \in ConsoleCall
           /\ \A m \in ConsoleCall : m.task \in Tasks \cup {NoName} /\ m.answer \in TheTaskConsole!Statuses \cup {"error"}
<1>1. TheTaskConsole!NoCall \in ConsoleCall
  BY DEF ConsoleCall, ConsoleSelection, TheTaskConsole!NoCall, TheTaskConsole!Nothing,
         TheTaskConsole!ConsoleAssumption, TheTaskConsole!AllSkills, TheTaskConsole!Statuses
<1>2. ASSUME NEW k \in {"create", "get", "cancel", "confirm"}, NEW t \in Tasks \cup {NoName}
      PROVE  TheTaskConsole!NewCall(k, t) \in ConsoleCall
  <2>1. \A m \in ConsoleCall : [m EXCEPT !.kind = k] \in ConsoleCall
    BY DEF ConsoleCall
  <2>2. \A m \in ConsoleCall : [m EXCEPT !.task = t] \in ConsoleCall
    BY DEF ConsoleCall
  <2>3. \A m \in ConsoleCall : [m EXCEPT !.at = "sent"] \in ConsoleCall
    BY DEF ConsoleCall
  <2>4. \A m \in ConsoleCall : [m EXCEPT !.heard = TRUE] \in ConsoleCall
    BY DEF ConsoleCall
  <2>5. TheTaskConsole!NewCall(k, t)
        = [[[[TheTaskConsole!NoCall EXCEPT !.kind = k] EXCEPT !.task = t] EXCEPT !.at = "sent"] EXCEPT !.heard = TRUE]
    BY DEF TheTaskConsole!NewCall
  <2> QED
    BY ONLY <1>1, <2>1, <2>2, <2>3, <2>4, <2>5
<1>3. \A m \in ConsoleCall, w \in ConsoleSelection : [m EXCEPT !.with = w] \in ConsoleCall
  BY DEF ConsoleCall
<1>4. \A m \in ConsoleCall : [m EXCEPT !.heard = FALSE] \in ConsoleCall
  BY DEF ConsoleCall
<1>5. \A m \in ConsoleCall : m.task \in Tasks \cup {NoName} /\ m.answer \in TheTaskConsole!Statuses \cup {"error"}
  BY DEF ConsoleCall
<1> QED
  BY <1>1, <1>2, <1>3, <1>4, <1>5

LEMMA FormsTyped ==
    ASSUME TheTaskConsole!ConsoleAssumption
    PROVE  /\ TheTaskConsole!NoForm \in ConsoleForm
           /\ \A a \in Agents \cup {NoName} : TheTaskConsole!Reselect(a) \in ConsoleForm
           /\ \A m \in ConsoleForm, s \in TheTaskConsole!AllSkills :
                 [m EXCEPT !.skill = s] \in ConsoleForm /\ [m EXCEPT !.loaded = TRUE, !.skill = s] \in ConsoleForm
           /\ \A m \in ConsoleForm : m.agent \in Agents \cup {NoName} /\ m.skill \in TheTaskConsole!AllSkills
           /\ \A a \in Agents : Skills[a] \subseteq TheTaskConsole!AllSkills
           /\ \A a \in Agents \cup {NoName}, s \in TheTaskConsole!AllSkills :
                 [agent |-> a, skill |-> s] \in ConsoleSelection
  BY DEF ConsoleForm, ConsoleSelection, TheTaskConsole!NoForm, TheTaskConsole!Reselect,
         TheTaskConsole!AllSkills

LEMMA ShownTyped ==
    /\ TheTaskConsole!NoCache \in [Tasks -> ConsoleShown]
    /\ \A m \in [Tasks -> ConsoleShown], t \in Tasks, s \in TheTaskConsole!Statuses :
          [m EXCEPT ![t] = [status |-> s, failed |-> FALSE]] \in [Tasks -> ConsoleShown]
    /\ \A m \in [Tasks -> ConsoleShown], t \in Tasks : [m EXCEPT ![t].failed = TRUE] \in [Tasks -> ConsoleShown]
    /\ TheTaskConsole!NoToast \in ConsoleToast
    /\ \A m \in ConsoleToast, t \in Tasks : [undo |-> t, visit |-> m.visit \cup {t}] \in ConsoleToast
    /\ \A m \in ConsoleToast : [m EXCEPT !.undo = NoName] \in ConsoleToast
    /\ \A m \in ConsoleToast : m.undo \in Tasks \cup {NoName} /\ m.visit \subseteq Tasks
<1>1. TheTaskConsole!NoCache \in [Tasks -> ConsoleShown]
  BY DEF TheTaskConsole!NoCache, ConsoleShown, TheTaskConsole!Statuses
<1> QED
  BY <1>1 DEF ConsoleShown, ConsoleToast, TheTaskConsole!NoToast

LEMMA StreamTyped ==
    /\ TheTaskConsole!NoStream \in ConsoleStream
    /\ \A m \in ConsoleStream : m.of \in Tasks \cup {NoName}
    /\ \A m \in ConsoleStream, t \in Tasks : [m EXCEPT !.of = t, !.on = TRUE, !.done = FALSE] \in ConsoleStream
    /\ \A m \in ConsoleStream, t \in Tasks : [m EXCEPT !.text = @ \cup {t}] \in ConsoleStream
    /\ \A m \in ConsoleStream, t \in Tasks : [m EXCEPT !.on = FALSE, !.done = TRUE, !.ended = t] \in ConsoleStream
<1>1. \A m \in ConsoleStream, t \in Tasks : [m EXCEPT !.of = t] \in ConsoleStream
  BY DEF ConsoleStream
<1>2. \A m \in ConsoleStream, o, d \in BOOLEAN : [m EXCEPT !.on = o, !.done = d] \in ConsoleStream
  BY DEF ConsoleStream
<1>3. \A m \in ConsoleStream, t \in Tasks : [m EXCEPT !.ended = t] \in ConsoleStream
  BY DEF ConsoleStream
<1>4. ASSUME NEW m \in ConsoleStream, NEW t \in Tasks
      PROVE  [m EXCEPT !.of = t, !.on = TRUE, !.done = FALSE] \in ConsoleStream
  <2>1. [m EXCEPT !.of = t, !.on = TRUE, !.done = FALSE] = [[m EXCEPT !.of = t] EXCEPT !.on = TRUE, !.done = FALSE]
    OBVIOUS
  <2> QED
    BY ONLY <1>1, <1>2, <2>1, m \in ConsoleStream, t \in Tasks
<1>5. ASSUME NEW m \in ConsoleStream, NEW t \in Tasks
      PROVE  [m EXCEPT !.on = FALSE, !.done = TRUE, !.ended = t] \in ConsoleStream
  <2>1. [m EXCEPT !.on = FALSE, !.done = TRUE, !.ended = t] = [[m EXCEPT !.on = FALSE, !.done = TRUE] EXCEPT !.ended = t]
    OBVIOUS
  <2> QED
    BY ONLY <1>2, <1>3, <2>1, m \in ConsoleStream, t \in Tasks
<1>6. \A m \in ConsoleStream, t \in Tasks : [m EXCEPT !.text = @ \cup {t}] \in ConsoleStream
  BY DEF ConsoleStream
<1>7. TheTaskConsole!NoStream \in ConsoleStream
  BY DEF ConsoleStream, TheTaskConsole!NoStream
<1> QED
  BY <1>4, <1>5, <1>6, <1>7 DEF ConsoleStream

LEMMA ConsoleCounts ==
    ASSUME TheTaskConsole!ConsoleAssumption, CountsTyped
    PROVE  /\ TheTaskConsole!Click => consoleClicks' \in Nat
           /\ TheTaskConsole!Fault => consoleFaults' \in 0 .. MaxFaults
  BY DEF TheTaskConsole!ConsoleAssumption, CountsTyped, TheTaskConsole!Click, TheTaskConsole!Fault

LEMMA LeaveTypes ==
    ASSUME CallsFit, ScreenTyped, NEW t \in Tasks, TheTaskConsole!Leave(t)
    PROVE  ScreenTyped'
<1>1. /\ screen' = "page" /\ current' = t /\ said' = said
      /\ consoleForm' = TheTaskConsole!NoForm /\ consoleCache' = TheTaskConsole!NoCache
      /\ stream' = TheTaskConsole!NoStream /\ toast' = TheTaskConsole!NoToast
      /\ cut' = cut \cup {consoleCall[c].task : c \in {x \in Calls : consoleCall[x].kind = "cancel"}}
  BY DEF TheTaskConsole!Leave
<1>2. cut' \in SUBSET Tasks
  BY <1>1 DEF ScreenTyped, CallsFit, CallFits
<1>3. consoleForm' \in ConsoleForm
  BY <1>1 DEF TheTaskConsole!NoForm, ConsoleForm, TheTaskConsole!AllSkills
<1> QED
  BY <1>1, <1>2, <1>3, ShownTyped, StreamTyped DEF ScreenTyped

LEMMA ConsoleCalls ==
    ASSUME TheTaskConsole!ConsoleAssumption, TheTaskConsole!TypeOK, CallsFit, ScreenFits, TheTaskConsole!Next
    PROVE  CallsFit'
<1> USE DEF TheTaskConsole!SetCall, TheTaskConsole!NoCall, TheTaskConsole!Nothing, TheTaskConsole!NoForm, TheTaskConsole!NoCache, TheTaskConsole!NoStream, TheTaskConsole!NoToast, TheTaskConsole!server, TheTaskConsole!client, TheTaskConsole!TypeOK, CallsFit, CallFits, ScreenFits
<1>1. ASSUME NEW c \in Calls, NEW t \in Tasks, TheTaskConsole!Serve(c, t) PROVE CallsFit'
  <2>1. consoleCall[c].at = "sent" /\ TheTaskConsole!Effect(c, t)
    BY <1>1 DEF TheTaskConsole!Serve
  <2>2. /\ task' \in [Tasks -> TheTaskConsole!Statuses]
        /\ \A u \in Tasks : task[u] \in TheTaskConsole!Ended => task'[u] = task[u]
        /\ \A u \in Tasks : madeFor'[u] \in {madeFor[u], consoleCall[c].with}
        /\ consoleCall[c].kind \in {"get", "cancel", "confirm"} => t = consoleCall[c].task
        /\ consoleCall[c].kind = "cancel" => task'[t] \in TheTaskConsole!Ended
    BY <2>1, EffectIs
  <2>3. /\ \A x \in Calls \ {c} : consoleCall'[x] = consoleCall[x]
        /\ ~ consoleCall[c].heard => consoleCall'[c] = TheTaskConsole!NoCall
        /\ consoleCall[c].heard =>
              /\ consoleCall'[c].kind = consoleCall[c].kind /\ consoleCall'[c].with = consoleCall[c].with
              /\ consoleCall'[c].task = t /\ consoleCall'[c].at = "answered" /\ consoleCall'[c].heard
              /\ consoleCall'[c].answer \in {"error", task'[t]}
    BY <1>1, <2>2, ServeIs
  <2>4. /\ consoleForm' = consoleForm /\ consoleCache' = consoleCache /\ said' = said /\ cut' = cut
        /\ consoleFaults' = consoleFaults
    BY <1>1 DEF TheTaskConsole!Serve
  <2> QED
    BY <2>1, <2>2, <2>3, <2>4
<1>2. ASSUME NEW c \in Calls, TheTaskConsole!LoseAnswer(c) PROVE CallsFit'
  BY <1>2 DEF TheTaskConsole!LoseAnswer, TheTaskConsole!Fault
<1>3. ASSUME NEW c \in Calls, TheTaskConsole!Aborted(c) PROVE CallsFit'
  BY <1>3 DEF TheTaskConsole!Aborted, TheTaskConsole!Idle
<1>4. ASSUME NEW c \in Calls, TheTaskConsole!Submit(c) PROVE CallsFit'
  BY <1>4 DEF TheTaskConsole!Submit, TheTaskConsole!Click, TheTaskConsole!Idle, TheTaskConsole!NewCall
<1>5. ASSUME NEW c \in Calls, TheTaskConsole!Undo(c) PROVE CallsFit'
  BY <1>5 DEF TheTaskConsole!Undo, TheTaskConsole!Idle, TheTaskConsole!NewCall
<1>6. ASSUME NEW c \in Calls, TheTaskConsole!Poll(c) PROVE CallsFit'
  BY <1>6 DEF TheTaskConsole!Poll, TheTaskConsole!Idle, TheTaskConsole!NewCall
<1>7. ASSUME NEW c \in Calls, TheTaskConsole!Reconnect(c) PROVE CallsFit'
  BY <1>7 DEF TheTaskConsole!Reconnect, TheTaskConsole!Idle, TheTaskConsole!NewCall
<1>8. ASSUME NEW c \in Calls, TheTaskConsole!CancelTask(c) PROVE CallsFit'
  BY <1>8 DEF TheTaskConsole!CancelTask, TheTaskConsole!Click, TheTaskConsole!Idle, TheTaskConsole!NewCall, TheTaskConsole!Offers
<1>9. ASSUME NEW c \in Calls, TheTaskConsole!ConfirmTask(c) PROVE CallsFit'
  BY <1>9 DEF TheTaskConsole!ConfirmTask, TheTaskConsole!Click, TheTaskConsole!Idle, TheTaskConsole!NewCall, TheTaskConsole!Offers
<1>10. ASSUME NEW c \in Calls, TheTaskConsole!Try(c) PROVE CallsFit'
  BY <1>10 DEF TheTaskConsole!Try, TheTaskConsole!Click, TheTaskConsole!Idle, TheTaskConsole!NewCall
<1>11. ASSUME NEW c \in Calls, TheTaskConsole!HearGet(c) PROVE CallsFit'
  BY <1>11 DEF TheTaskConsole!HearGet
<1>12. ASSUME NEW c \in Calls, TheTaskConsole!HearMutation(c) PROVE CallsFit'
  BY <1>12 DEF TheTaskConsole!HearMutation, TheTaskConsole!Invalidated, TheTaskConsole!NewCall
<1>13. ASSUME NEW c \in Calls, TheTaskConsole!HearCreate(c) PROVE CallsFit'
  <2>1. consoleCall[c].kind = "create" /\ consoleCall[c].at = "answered"
    BY <1>13 DEF TheTaskConsole!HearCreate
  <2>2. CASE consoleCall[c].answer = "error"
    BY <1>13, <2>1, <2>2 DEF TheTaskConsole!HearCreate, TheTaskConsole!Panel
  <2>3. CASE consoleCall[c].answer # "error" /\ screen = "form" /\ TheTaskConsole!Leave(consoleCall[c].task)
    BY <1>13, <2>1, <2>3 DEF TheTaskConsole!HearCreate, TheTaskConsole!Panel, TheTaskConsole!Leave
  <2>4. CASE consoleCall[c].answer # "error" /\ screen = "form" /\ ~ TheTaskConsole!Leave(consoleCall[c].task)
    BY <1>13, <2>1, <2>4 DEF TheTaskConsole!HearCreate, TheTaskConsole!Panel
  <2>5. CASE consoleCall[c].answer # "error" /\ screen # "form"
    BY <1>13, <2>1, <2>5 DEF TheTaskConsole!HearCreate, TheTaskConsole!Panel
  <2> QED
    BY <2>2, <2>3, <2>4, <2>5
<1>14. ASSUME NEW t \in Tasks, TheTaskConsole!TaskRuns(t) PROVE CallsFit'
  BY <1>14 DEF TheTaskConsole!TaskRuns
<1>15. ASSUME NEW t \in Tasks, TheTaskConsole!Visit(t) PROVE CallsFit'
  BY <1>15 DEF TheTaskConsole!Visit, TheTaskConsole!Leave
<1>16. ASSUME NEW a \in Agents, TheTaskConsole!SelectAgent(a) PROVE CallsFit'
  BY <1>16 DEF TheTaskConsole!SelectAgent, TheTaskConsole!Reselect
<1>17. CASE TheTaskConsole!ClearAgent
  BY <1>17 DEF TheTaskConsole!ClearAgent, TheTaskConsole!Reselect
<1>18. CASE TheTaskConsole!AgentLoads
  BY <1>18 DEF TheTaskConsole!AgentLoads
<1>19. CASE TheTaskConsole!SelectSkill
  BY <1>19 DEF TheTaskConsole!SelectSkill
<1>20. CASE TheTaskConsole!Chunk
  BY <1>20 DEF TheTaskConsole!Chunk
<1>21. CASE TheTaskConsole!StreamEnds
  BY <1>21 DEF TheTaskConsole!StreamEnds, TheTaskConsole!Fault
<1> QED
  BY <1>1, <1>2, <1>3, <1>4, <1>5, <1>6, <1>7, <1>8, <1>9, <1>10, <1>11, <1>12, <1>13, <1>14, <1>15, <1>16, <1>17, <1>18, <1>19, <1>20, <1>21 DEF TheTaskConsole!Next, TheTaskConsole!Network

LEMMA ConsoleScreens ==
    ASSUME TheTaskConsole!ConsoleAssumption, TheTaskConsole!TypeOK, CallsFit, ScreenFits, TheTaskConsole!Next
    PROVE  ScreenFits'
<1> USE DEF TheTaskConsole!SetCall, TheTaskConsole!NoCall, TheTaskConsole!Nothing, TheTaskConsole!NoForm, TheTaskConsole!NoCache, TheTaskConsole!NoStream, TheTaskConsole!NoToast, TheTaskConsole!server, TheTaskConsole!client, TheTaskConsole!TypeOK, ScreenFits, CallsFit, CallFits
<1>1. ASSUME NEW c \in Calls, NEW t \in Tasks, TheTaskConsole!Serve(c, t) PROVE ScreenFits'
  BY <1>1 DEF TheTaskConsole!Serve
<1>2. ASSUME NEW c \in Calls, TheTaskConsole!LoseAnswer(c) PROVE ScreenFits'
  BY <1>2 DEF TheTaskConsole!LoseAnswer, TheTaskConsole!Fault
<1>3. ASSUME NEW c \in Calls, TheTaskConsole!Aborted(c) PROVE ScreenFits'
  BY <1>3 DEF TheTaskConsole!Aborted, TheTaskConsole!Idle
<1>4. ASSUME NEW c \in Calls, TheTaskConsole!Submit(c) PROVE ScreenFits'
  BY <1>4 DEF TheTaskConsole!Submit, TheTaskConsole!Click, TheTaskConsole!Idle, TheTaskConsole!NewCall
<1>5. ASSUME NEW c \in Calls, TheTaskConsole!Undo(c) PROVE ScreenFits'
  BY <1>5 DEF TheTaskConsole!Undo, TheTaskConsole!Idle, TheTaskConsole!NewCall
<1>6. ASSUME NEW c \in Calls, TheTaskConsole!Poll(c) PROVE ScreenFits'
  BY <1>6 DEF TheTaskConsole!Poll, TheTaskConsole!Idle, TheTaskConsole!NewCall
<1>7. ASSUME NEW c \in Calls, TheTaskConsole!Reconnect(c) PROVE ScreenFits'
  BY <1>7 DEF TheTaskConsole!Reconnect, TheTaskConsole!Idle, TheTaskConsole!NewCall
<1>8. ASSUME NEW c \in Calls, TheTaskConsole!CancelTask(c) PROVE ScreenFits'
  BY <1>8 DEF TheTaskConsole!CancelTask, TheTaskConsole!Click, TheTaskConsole!Idle, TheTaskConsole!NewCall, TheTaskConsole!Offers
<1>9. ASSUME NEW c \in Calls, TheTaskConsole!ConfirmTask(c) PROVE ScreenFits'
  BY <1>9 DEF TheTaskConsole!ConfirmTask, TheTaskConsole!Click, TheTaskConsole!Idle, TheTaskConsole!NewCall, TheTaskConsole!Offers
<1>10. ASSUME NEW c \in Calls, TheTaskConsole!Try(c) PROVE ScreenFits'
  BY <1>10 DEF TheTaskConsole!Try, TheTaskConsole!Click, TheTaskConsole!Idle, TheTaskConsole!NewCall
<1>11. ASSUME NEW c \in Calls, TheTaskConsole!HearGet(c) PROVE ScreenFits'
  BY <1>11 DEF TheTaskConsole!HearGet
<1>12. ASSUME NEW c \in Calls, TheTaskConsole!HearMutation(c) PROVE ScreenFits'
  BY <1>12 DEF TheTaskConsole!HearMutation, TheTaskConsole!Invalidated, TheTaskConsole!NewCall
<1>13. ASSUME NEW c \in Calls, TheTaskConsole!HearCreate(c) PROVE ScreenFits'
  <2>1. consoleCall[c].kind = "create" /\ consoleCall[c].at = "answered"
    BY <1>13 DEF TheTaskConsole!HearCreate
  <2>2. CASE consoleCall[c].answer = "error"
    BY <1>13, <2>1, <2>2 DEF TheTaskConsole!HearCreate, TheTaskConsole!Panel
  <2>3. CASE consoleCall[c].answer # "error" /\ screen = "form" /\ TheTaskConsole!Leave(consoleCall[c].task)
    BY <1>13, <2>1, <2>3 DEF TheTaskConsole!HearCreate, TheTaskConsole!Panel, TheTaskConsole!Leave
  <2>4. CASE consoleCall[c].answer # "error" /\ screen = "form" /\ ~ TheTaskConsole!Leave(consoleCall[c].task)
    BY <1>13, <2>1, <2>4 DEF TheTaskConsole!HearCreate, TheTaskConsole!Panel
  <2>5. CASE consoleCall[c].answer # "error" /\ screen # "form"
    BY <1>13, <2>1, <2>5 DEF TheTaskConsole!HearCreate, TheTaskConsole!Panel
  <2> QED
    BY <2>2, <2>3, <2>4, <2>5
<1>14. ASSUME NEW t \in Tasks, TheTaskConsole!TaskRuns(t) PROVE ScreenFits'
  BY <1>14 DEF TheTaskConsole!TaskRuns
<1>15. ASSUME NEW t \in Tasks, TheTaskConsole!Visit(t) PROVE ScreenFits'
  BY <1>15 DEF TheTaskConsole!Visit, TheTaskConsole!Leave
<1>16. ASSUME NEW a \in Agents, TheTaskConsole!SelectAgent(a) PROVE ScreenFits'
  BY <1>16 DEF TheTaskConsole!SelectAgent, TheTaskConsole!Reselect
<1>17. CASE TheTaskConsole!ClearAgent
  BY <1>17 DEF TheTaskConsole!ClearAgent, TheTaskConsole!Reselect
<1>18. CASE TheTaskConsole!AgentLoads
  BY <1>18 DEF TheTaskConsole!AgentLoads
<1>19. CASE TheTaskConsole!SelectSkill
  BY <1>19 DEF TheTaskConsole!SelectSkill
<1>20. CASE TheTaskConsole!Chunk
  BY <1>20 DEF TheTaskConsole!Chunk
<1>21. CASE TheTaskConsole!StreamEnds
  BY <1>21 DEF TheTaskConsole!StreamEnds, TheTaskConsole!Fault
<1> QED
  BY <1>1, <1>2, <1>3, <1>4, <1>5, <1>6, <1>7, <1>8, <1>9, <1>10, <1>11, <1>12, <1>13, <1>14, <1>15, <1>16, <1>17, <1>18, <1>19, <1>20, <1>21 DEF TheTaskConsole!Next, TheTaskConsole!Network

LEMMA ConsoleStreams ==
    ASSUME TheTaskConsole!ConsoleAssumption, TheTaskConsole!TypeOK, CallsFit, ScreenFits, StreamFits, TheTaskConsole!Next
    PROVE  StreamFits'
<1> USE DEF TheTaskConsole!SetCall, TheTaskConsole!NoCall, TheTaskConsole!Nothing, TheTaskConsole!NoForm, TheTaskConsole!NoCache, TheTaskConsole!NoStream, TheTaskConsole!NoToast, TheTaskConsole!server, TheTaskConsole!client, TheTaskConsole!TypeOK, ScreenFits, StreamFits, CallsFit, CallFits
<1>1. ASSUME NEW c \in Calls, NEW t \in Tasks, TheTaskConsole!Serve(c, t) PROVE StreamFits'
  BY <1>1 DEF TheTaskConsole!Serve
<1>2. ASSUME NEW c \in Calls, TheTaskConsole!LoseAnswer(c) PROVE StreamFits'
  BY <1>2 DEF TheTaskConsole!LoseAnswer, TheTaskConsole!Fault
<1>3. ASSUME NEW c \in Calls, TheTaskConsole!Aborted(c) PROVE StreamFits'
  BY <1>3 DEF TheTaskConsole!Aborted, TheTaskConsole!Idle
<1>4. ASSUME NEW c \in Calls, TheTaskConsole!Submit(c) PROVE StreamFits'
  BY <1>4 DEF TheTaskConsole!Submit, TheTaskConsole!Click, TheTaskConsole!Idle, TheTaskConsole!NewCall
<1>5. ASSUME NEW c \in Calls, TheTaskConsole!Undo(c) PROVE StreamFits'
  BY <1>5 DEF TheTaskConsole!Undo, TheTaskConsole!Idle, TheTaskConsole!NewCall
<1>6. ASSUME NEW c \in Calls, TheTaskConsole!Poll(c) PROVE StreamFits'
  BY <1>6 DEF TheTaskConsole!Poll, TheTaskConsole!Idle, TheTaskConsole!NewCall
<1>7. ASSUME NEW c \in Calls, TheTaskConsole!Reconnect(c) PROVE StreamFits'
  BY <1>7 DEF TheTaskConsole!Reconnect, TheTaskConsole!Idle, TheTaskConsole!NewCall
<1>8. ASSUME NEW c \in Calls, TheTaskConsole!CancelTask(c) PROVE StreamFits'
  BY <1>8 DEF TheTaskConsole!CancelTask, TheTaskConsole!Click, TheTaskConsole!Idle, TheTaskConsole!NewCall, TheTaskConsole!Offers
<1>9. ASSUME NEW c \in Calls, TheTaskConsole!ConfirmTask(c) PROVE StreamFits'
  BY <1>9 DEF TheTaskConsole!ConfirmTask, TheTaskConsole!Click, TheTaskConsole!Idle, TheTaskConsole!NewCall, TheTaskConsole!Offers
<1>10. ASSUME NEW c \in Calls, TheTaskConsole!Try(c) PROVE StreamFits'
  BY <1>10 DEF TheTaskConsole!Try, TheTaskConsole!Click, TheTaskConsole!Idle, TheTaskConsole!NewCall
<1>11. ASSUME NEW c \in Calls, TheTaskConsole!HearGet(c) PROVE StreamFits'
  BY <1>11 DEF TheTaskConsole!HearGet
<1>12. ASSUME NEW c \in Calls, TheTaskConsole!HearMutation(c) PROVE StreamFits'
  BY <1>12 DEF TheTaskConsole!HearMutation, TheTaskConsole!Invalidated, TheTaskConsole!NewCall
<1>13. ASSUME NEW c \in Calls, TheTaskConsole!HearCreate(c) PROVE StreamFits'
  <2>1. consoleCall[c].kind = "create" /\ consoleCall[c].at = "answered"
    BY <1>13 DEF TheTaskConsole!HearCreate
  <2>2. CASE consoleCall[c].answer = "error"
    BY <1>13, <2>1, <2>2 DEF TheTaskConsole!HearCreate, TheTaskConsole!Panel
  <2>3. CASE consoleCall[c].answer # "error" /\ screen = "form" /\ TheTaskConsole!Leave(consoleCall[c].task)
    BY <1>13, <2>1, <2>3 DEF TheTaskConsole!HearCreate, TheTaskConsole!Panel, TheTaskConsole!Leave
  <2>4. CASE consoleCall[c].answer # "error" /\ screen = "form" /\ ~ TheTaskConsole!Leave(consoleCall[c].task)
    BY <1>13, <2>1, <2>4 DEF TheTaskConsole!HearCreate, TheTaskConsole!Panel
  <2>5. CASE consoleCall[c].answer # "error" /\ screen # "form"
    BY <1>13, <2>1, <2>5 DEF TheTaskConsole!HearCreate, TheTaskConsole!Panel
  <2> QED
    BY <2>2, <2>3, <2>4, <2>5
<1>14. ASSUME NEW t \in Tasks, TheTaskConsole!TaskRuns(t) PROVE StreamFits'
  BY <1>14 DEF TheTaskConsole!TaskRuns
<1>15. ASSUME NEW t \in Tasks, TheTaskConsole!Visit(t) PROVE StreamFits'
  BY <1>15 DEF TheTaskConsole!Visit, TheTaskConsole!Leave
<1>16. ASSUME NEW a \in Agents, TheTaskConsole!SelectAgent(a) PROVE StreamFits'
  BY <1>16 DEF TheTaskConsole!SelectAgent, TheTaskConsole!Reselect
<1>17. CASE TheTaskConsole!ClearAgent
  BY <1>17 DEF TheTaskConsole!ClearAgent, TheTaskConsole!Reselect
<1>18. CASE TheTaskConsole!AgentLoads
  BY <1>18 DEF TheTaskConsole!AgentLoads
<1>19. CASE TheTaskConsole!SelectSkill
  BY <1>19 DEF TheTaskConsole!SelectSkill
<1>20. CASE TheTaskConsole!Chunk
  BY <1>20 DEF TheTaskConsole!Chunk
<1>21. CASE TheTaskConsole!StreamEnds
  BY <1>21 DEF TheTaskConsole!StreamEnds, TheTaskConsole!Fault
<1> QED
  BY <1>1, <1>2, <1>3, <1>4, <1>5, <1>6, <1>7, <1>8, <1>9, <1>10, <1>11, <1>12, <1>13, <1>14, <1>15, <1>16, <1>17, <1>18, <1>19, <1>20, <1>21 DEF TheTaskConsole!Next, TheTaskConsole!Network

LEMMA ConsoleSkills ==
    ASSUME TheTaskConsole!ConsoleAssumption, TheTaskConsole!TypeOK, CallsFit, ScreenFits, SkillsFit, TheTaskConsole!Next
    PROVE  SkillsFit'
<1> USE DEF TheTaskConsole!SetCall, TheTaskConsole!NoCall, TheTaskConsole!Nothing, TheTaskConsole!NoForm, TheTaskConsole!NoCache, TheTaskConsole!NoStream, TheTaskConsole!NoToast, TheTaskConsole!server, TheTaskConsole!client, TheTaskConsole!TypeOK, SkillsFit, Fits, ScreenFits
<1>1. ASSUME NEW c \in Calls, NEW t \in Tasks, TheTaskConsole!Serve(c, t) PROVE SkillsFit'
  <2>1. consoleCall[c].at = "sent" /\ TheTaskConsole!Effect(c, t)
    BY <1>1 DEF TheTaskConsole!Serve
  <2>2. /\ task' \in [Tasks -> TheTaskConsole!Statuses]
        /\ \A u \in Tasks : task[u] \in TheTaskConsole!Ended => task'[u] = task[u]
        /\ \A u \in Tasks : madeFor'[u] \in {madeFor[u], consoleCall[c].with}
        /\ consoleCall[c].kind \in {"get", "cancel", "confirm"} => t = consoleCall[c].task
        /\ consoleCall[c].kind = "cancel" => task'[t] \in TheTaskConsole!Ended
    BY <2>1, EffectIs
  <2>3. /\ \A x \in Calls \ {c} : consoleCall'[x] = consoleCall[x]
        /\ ~ consoleCall[c].heard => consoleCall'[c] = TheTaskConsole!NoCall
        /\ consoleCall[c].heard =>
              /\ consoleCall'[c].kind = consoleCall[c].kind /\ consoleCall'[c].with = consoleCall[c].with
              /\ consoleCall'[c].task = t /\ consoleCall'[c].at = "answered" /\ consoleCall'[c].heard
              /\ consoleCall'[c].answer \in {"error", task'[t]}
    BY <1>1, <2>2, ServeIs
  <2>4. /\ consoleForm' = consoleForm /\ consoleCache' = consoleCache /\ said' = said /\ cut' = cut
        /\ consoleFaults' = consoleFaults
    BY <1>1 DEF TheTaskConsole!Serve
  <2>5. \A x \in Calls : Fits(consoleCall'[x].with)
    BY <2>3 DEF SkillsFit, Fits
  <2>6. \A u \in Tasks : Fits(madeFor'[u])
    BY <2>2 DEF SkillsFit
  <2> QED
    BY <2>4, <2>5, <2>6 DEF SkillsFit
<1>2. ASSUME NEW c \in Calls, TheTaskConsole!LoseAnswer(c) PROVE SkillsFit'
  <2>1. consoleCall[c].at = "sent" /\ consoleFaults' = consoleFaults + 1
    BY <1>2 DEF TheTaskConsole!LoseAnswer, TheTaskConsole!Fault
  <2>2. UNCHANGED TheTaskConsole!server \/ \E t \in Tasks : TheTaskConsole!Effect(c, t)
    BY <1>2 DEF TheTaskConsole!LoseAnswer
  <2>3. /\ \A u \in Tasks : task[u] \in TheTaskConsole!Ended => task'[u] = task[u]
        /\ \A u \in Tasks : madeFor'[u] \in {madeFor[u], consoleCall[c].with}
    BY <2>1, <2>2, EffectIs
  <2>4. /\ \A x \in Calls \ {c} : consoleCall'[x] = consoleCall[x]
        /\ ~ consoleCall[c].heard => consoleCall'[c] = TheTaskConsole!NoCall
        /\ consoleCall[c].heard =>
              /\ consoleCall'[c].kind = consoleCall[c].kind /\ consoleCall'[c].with = consoleCall[c].with
              /\ consoleCall'[c].task = consoleCall[c].task /\ consoleCall'[c].heard
              /\ \/ consoleCall'[c].at = "sent"
                 \/ consoleCall'[c].at = "answered" /\ consoleCall'[c].answer = "error"
    BY <1>2, LoseIs
  <2>5. consoleForm' = consoleForm /\ consoleCache' = consoleCache
    BY <1>2 DEF TheTaskConsole!LoseAnswer
  <2>6. \A x \in Calls : Fits(consoleCall'[x].with)
    BY <2>4 DEF SkillsFit, Fits
  <2>7. \A u \in Tasks : Fits(madeFor'[u])
    BY <2>3 DEF SkillsFit
  <2> QED
    BY <2>5, <2>6, <2>7 DEF SkillsFit
<1>3. ASSUME NEW c \in Calls, TheTaskConsole!Aborted(c) PROVE SkillsFit'
  BY <1>3 DEF TheTaskConsole!Aborted, TheTaskConsole!Idle
<1>4. ASSUME NEW c \in Calls, TheTaskConsole!Submit(c) PROVE SkillsFit'
  BY <1>4 DEF TheTaskConsole!Submit, TheTaskConsole!Click, TheTaskConsole!Idle, TheTaskConsole!NewCall
<1>5. ASSUME NEW c \in Calls, TheTaskConsole!Undo(c) PROVE SkillsFit'
  BY <1>5 DEF TheTaskConsole!Undo, TheTaskConsole!Idle, TheTaskConsole!NewCall
<1>6. ASSUME NEW c \in Calls, TheTaskConsole!Poll(c) PROVE SkillsFit'
  BY <1>6 DEF TheTaskConsole!Poll, TheTaskConsole!Idle, TheTaskConsole!NewCall
<1>7. ASSUME NEW c \in Calls, TheTaskConsole!Reconnect(c) PROVE SkillsFit'
  BY <1>7 DEF TheTaskConsole!Reconnect, TheTaskConsole!Idle, TheTaskConsole!NewCall
<1>8. ASSUME NEW c \in Calls, TheTaskConsole!CancelTask(c) PROVE SkillsFit'
  BY <1>8 DEF TheTaskConsole!CancelTask, TheTaskConsole!Click, TheTaskConsole!Idle, TheTaskConsole!NewCall, TheTaskConsole!Offers
<1>9. ASSUME NEW c \in Calls, TheTaskConsole!ConfirmTask(c) PROVE SkillsFit'
  BY <1>9 DEF TheTaskConsole!ConfirmTask, TheTaskConsole!Click, TheTaskConsole!Idle, TheTaskConsole!NewCall, TheTaskConsole!Offers
<1>10. ASSUME NEW c \in Calls, TheTaskConsole!Try(c) PROVE SkillsFit'
  BY <1>10 DEF TheTaskConsole!Try, TheTaskConsole!Click, TheTaskConsole!Idle, TheTaskConsole!NewCall
<1>11. ASSUME NEW c \in Calls, TheTaskConsole!HearGet(c) PROVE SkillsFit'
  BY <1>11 DEF TheTaskConsole!HearGet
<1>12. ASSUME NEW c \in Calls, TheTaskConsole!HearMutation(c) PROVE SkillsFit'
  BY <1>12 DEF TheTaskConsole!HearMutation, TheTaskConsole!Invalidated, TheTaskConsole!NewCall
<1>13. ASSUME NEW c \in Calls, TheTaskConsole!HearCreate(c) PROVE SkillsFit'
  <2>1. consoleCall[c].kind = "create" /\ consoleCall[c].at = "answered"
    BY <1>13 DEF TheTaskConsole!HearCreate
  <2>2. CASE consoleCall[c].answer = "error"
    BY <1>13, <2>1, <2>2 DEF TheTaskConsole!HearCreate, TheTaskConsole!Panel
  <2>3. CASE consoleCall[c].answer # "error" /\ screen = "form" /\ TheTaskConsole!Leave(consoleCall[c].task)
    BY <1>13, <2>1, <2>3 DEF TheTaskConsole!HearCreate, TheTaskConsole!Panel, TheTaskConsole!Leave
  <2>4. CASE consoleCall[c].answer # "error" /\ screen = "form" /\ ~ TheTaskConsole!Leave(consoleCall[c].task)
    BY <1>13, <2>1, <2>4 DEF TheTaskConsole!HearCreate, TheTaskConsole!Panel
  <2>5. CASE consoleCall[c].answer # "error" /\ screen # "form"
    BY <1>13, <2>1, <2>5 DEF TheTaskConsole!HearCreate, TheTaskConsole!Panel
  <2> QED
    BY <2>2, <2>3, <2>4, <2>5
<1>14. ASSUME NEW t \in Tasks, TheTaskConsole!TaskRuns(t) PROVE SkillsFit'
  BY <1>14 DEF TheTaskConsole!TaskRuns
<1>15. ASSUME NEW t \in Tasks, TheTaskConsole!Visit(t) PROVE SkillsFit'
  BY <1>15 DEF TheTaskConsole!Visit, TheTaskConsole!Leave
<1>16. ASSUME NEW a \in Agents, TheTaskConsole!SelectAgent(a) PROVE SkillsFit'
  BY <1>16 DEF TheTaskConsole!SelectAgent, TheTaskConsole!Reselect
<1>17. CASE TheTaskConsole!ClearAgent
  BY <1>17 DEF TheTaskConsole!ClearAgent, TheTaskConsole!Reselect
<1>18. CASE TheTaskConsole!AgentLoads
  BY <1>18 DEF TheTaskConsole!AgentLoads
<1>19. CASE TheTaskConsole!SelectSkill
  BY <1>19 DEF TheTaskConsole!SelectSkill
<1>20. CASE TheTaskConsole!Chunk
  BY <1>20 DEF TheTaskConsole!Chunk
<1>21. CASE TheTaskConsole!StreamEnds
  BY <1>21 DEF TheTaskConsole!StreamEnds, TheTaskConsole!Fault
<1> QED
  BY <1>1, <1>2, <1>3, <1>4, <1>5, <1>6, <1>7, <1>8, <1>9, <1>10, <1>11, <1>12, <1>13, <1>14, <1>15, <1>16, <1>17, <1>18, <1>19, <1>20, <1>21 DEF TheTaskConsole!Next, TheTaskConsole!Network

LEMMA ConsoleGets ==
    ASSUME TheTaskConsole!ConsoleAssumption, TheTaskConsole!TypeOK, CallsFit, OneGet, TheTaskConsole!Next
    PROVE  OneGet'
<1> USE DEF TheTaskConsole!SetCall, TheTaskConsole!NoCall, TheTaskConsole!Nothing, TheTaskConsole!NoForm, TheTaskConsole!NoCache, TheTaskConsole!NoStream, TheTaskConsole!NoToast, TheTaskConsole!server, TheTaskConsole!client, TheTaskConsole!TypeOK, OneGet, TheTaskConsole!Gets
<1>1. ASSUME NEW c \in Calls, NEW t \in Tasks, TheTaskConsole!Serve(c, t) PROVE OneGet'
  <2>1. consoleCall[c].at = "sent" /\ TheTaskConsole!Effect(c, t)
    BY <1>1 DEF TheTaskConsole!Serve
  <2>2. /\ task' \in [Tasks -> TheTaskConsole!Statuses]
        /\ \A u \in Tasks : task[u] \in TheTaskConsole!Ended => task'[u] = task[u]
        /\ \A u \in Tasks : madeFor'[u] \in {madeFor[u], consoleCall[c].with}
        /\ consoleCall[c].kind \in {"get", "cancel", "confirm"} => t = consoleCall[c].task
        /\ consoleCall[c].kind = "cancel" => task'[t] \in TheTaskConsole!Ended
    BY <2>1, EffectIs
  <2>3. /\ \A x \in Calls \ {c} : consoleCall'[x] = consoleCall[x]
        /\ ~ consoleCall[c].heard => consoleCall'[c] = TheTaskConsole!NoCall
        /\ consoleCall[c].heard =>
              /\ consoleCall'[c].kind = consoleCall[c].kind /\ consoleCall'[c].with = consoleCall[c].with
              /\ consoleCall'[c].task = t /\ consoleCall'[c].at = "answered" /\ consoleCall'[c].heard
              /\ consoleCall'[c].answer \in {"error", task'[t]}
    BY <1>1, <2>2, ServeIs
  <2>4. /\ consoleForm' = consoleForm /\ consoleCache' = consoleCache /\ said' = said /\ cut' = cut
        /\ consoleFaults' = consoleFaults
    BY <1>1 DEF TheTaskConsole!Serve
  <2>5. \A x \in Calls, u \in Tasks : TheTaskConsole!Gets(x, u)' =>
              \/ /\ TheTaskConsole!Gets(x, u)
                 /\ consoleCall'[x].at = "answered" =>
                       \/ consoleCall[x].at = "answered" /\ consoleCall'[x].answer = consoleCall[x].answer
                       \/ consoleCall'[x].answer \in {"error", task'[u]}
              \/ consoleCall'[x].at = "sent" /\ \A d \in Calls : TheTaskConsole!Gets(d, u)' => d = x
    BY <2>2, <2>3 DEF TheTaskConsole!Gets, TheTaskConsole!NoCall
  <2> QED
    BY <2>2, <2>4, <2>5, GetsStay
<1>2. ASSUME NEW c \in Calls, TheTaskConsole!LoseAnswer(c) PROVE OneGet'
  <2>1. consoleCall[c].at = "sent" /\ consoleFaults' = consoleFaults + 1
    BY <1>2 DEF TheTaskConsole!LoseAnswer, TheTaskConsole!Fault
  <2>2. UNCHANGED TheTaskConsole!server \/ \E t \in Tasks : TheTaskConsole!Effect(c, t)
    BY <1>2 DEF TheTaskConsole!LoseAnswer
  <2>3. /\ \A u \in Tasks : task[u] \in TheTaskConsole!Ended => task'[u] = task[u]
        /\ \A u \in Tasks : madeFor'[u] \in {madeFor[u], consoleCall[c].with}
    BY <2>1, <2>2, EffectIs
  <2>4. /\ \A x \in Calls \ {c} : consoleCall'[x] = consoleCall[x]
        /\ ~ consoleCall[c].heard => consoleCall'[c] = TheTaskConsole!NoCall
        /\ consoleCall[c].heard =>
              /\ consoleCall'[c].kind = consoleCall[c].kind /\ consoleCall'[c].with = consoleCall[c].with
              /\ consoleCall'[c].task = consoleCall[c].task /\ consoleCall'[c].heard
              /\ \/ consoleCall'[c].at = "sent"
                 \/ consoleCall'[c].at = "answered" /\ consoleCall'[c].answer = "error"
    BY <1>2, LoseIs
  <2>5. consoleForm' = consoleForm /\ consoleCache' = consoleCache
    BY <1>2 DEF TheTaskConsole!LoseAnswer
  <2>6. \A x \in Calls, u \in Tasks : TheTaskConsole!Gets(x, u)' =>
              \/ /\ TheTaskConsole!Gets(x, u)
                 /\ consoleCall'[x].at = "answered" =>
                       \/ consoleCall[x].at = "answered" /\ consoleCall'[x].answer = consoleCall[x].answer
                       \/ consoleCall'[x].answer \in {"error", task'[u]}
              \/ consoleCall'[x].at = "sent" /\ \A d \in Calls : TheTaskConsole!Gets(d, u)' => d = x
    BY <2>3, <2>4 DEF TheTaskConsole!Gets, TheTaskConsole!NoCall
  <2> QED
    BY <2>3, <2>5, <2>6, GetsStay
<1>3. ASSUME NEW c \in Calls, TheTaskConsole!Aborted(c) PROVE OneGet'
  BY <1>3 DEF TheTaskConsole!Aborted, TheTaskConsole!Idle
<1>4. ASSUME NEW c \in Calls, TheTaskConsole!Submit(c) PROVE OneGet'
  BY <1>4 DEF TheTaskConsole!Submit, TheTaskConsole!Click, TheTaskConsole!Idle, TheTaskConsole!NewCall
<1>5. ASSUME NEW c \in Calls, TheTaskConsole!Undo(c) PROVE OneGet'
  BY <1>5 DEF TheTaskConsole!Undo, TheTaskConsole!Idle, TheTaskConsole!NewCall
<1>6. ASSUME NEW c \in Calls, TheTaskConsole!Poll(c) PROVE OneGet'
  BY <1>6 DEF TheTaskConsole!Poll, TheTaskConsole!Idle, TheTaskConsole!NewCall
<1>7. ASSUME NEW c \in Calls, TheTaskConsole!Reconnect(c) PROVE OneGet'
  BY <1>7 DEF TheTaskConsole!Reconnect, TheTaskConsole!Idle, TheTaskConsole!NewCall
<1>8. ASSUME NEW c \in Calls, TheTaskConsole!CancelTask(c) PROVE OneGet'
  BY <1>8 DEF TheTaskConsole!CancelTask, TheTaskConsole!Click, TheTaskConsole!Idle, TheTaskConsole!NewCall, TheTaskConsole!Offers
<1>9. ASSUME NEW c \in Calls, TheTaskConsole!ConfirmTask(c) PROVE OneGet'
  BY <1>9 DEF TheTaskConsole!ConfirmTask, TheTaskConsole!Click, TheTaskConsole!Idle, TheTaskConsole!NewCall, TheTaskConsole!Offers
<1>10. ASSUME NEW c \in Calls, TheTaskConsole!Try(c) PROVE OneGet'
  BY <1>10 DEF TheTaskConsole!Try, TheTaskConsole!Click, TheTaskConsole!Idle, TheTaskConsole!NewCall
<1>11. ASSUME NEW c \in Calls, TheTaskConsole!HearGet(c) PROVE OneGet'
  <2>0. consoleCall[c].task \in Tasks
    BY <1>11 DEF TheTaskConsole!HearGet, CallsFit, CallFits
  <2> SUFFICES ASSUME NEW u \in Tasks, u = consoleCall[c].task PROVE OneGet'
    BY <2>0
  <2>1. TheTaskConsole!Gets(c, u) /\ u \in Tasks /\ consoleCall[c].at = "answered"
    BY <1>11 DEF TheTaskConsole!HearGet, TheTaskConsole!Gets, CallsFit, CallFits
  <2>2. /\ \A x \in Calls \ {c} : consoleCall'[x] = consoleCall[x]
        /\ consoleCall'[c] = TheTaskConsole!NoCall /\ task' = task
    BY <1>11 DEF TheTaskConsole!HearGet, TheTaskConsole!SetCall, TheTaskConsole!TypeOK, TheTaskConsole!server
  <2>3. /\ \A t \in Tasks \ {u} : consoleCache'[t] = consoleCache[t]
        /\ \/ consoleCache'[u].status = consoleCache[u].status
           \/ consoleCache'[u].status = consoleCall[c].answer
    BY <1>11, <2>1 DEF TheTaskConsole!HearGet, TheTaskConsole!TypeOK
  <2>4. \A x \in Calls, t \in Tasks : TheTaskConsole!Gets(x, t)' =>
           TheTaskConsole!Gets(x, t) /\ x # c /\ consoleCall'[x] = consoleCall[x]
    BY <2>2 DEF TheTaskConsole!Gets, TheTaskConsole!NoCall
  <2>5. \A x \in Calls : ~ TheTaskConsole!Gets(x, u)'
    <3>1. OneGet
      OBVIOUS
    <3>2. c \in Calls
      OBVIOUS
    <3> QED
      BY ONLY <2>1, <2>4, <3>1, <3>2 DEF OneGet
  <2>6. OneGet /\ c \in Calls
    OBVIOUS
  <2>7. \A t \in Tasks, x, d \in Calls : TheTaskConsole!Gets(x, t)' /\ TheTaskConsole!Gets(d, t)' => x = d
    BY ONLY <2>4, <2>6 DEF OneGet
  <2>8. \A t \in Tasks : consoleCache'[t].status \in TheTaskConsole!Ended =>
           /\ task'[t] = consoleCache'[t].status
           /\ \A x \in Calls : TheTaskConsole!Gets(x, t)' /\ consoleCall'[x].at = "answered"
                               => consoleCall'[x].answer \in {"error", task'[t]}
    BY ONLY <2>1, <2>2, <2>3, <2>4, <2>5, <2>6 DEF OneGet
  <2>9. \A t \in Tasks, x \in Calls :
           /\ TheTaskConsole!Gets(x, t)' /\ consoleCall'[x].at = "answered"
           /\ consoleCall'[x].answer \in TheTaskConsole!Ended
           => task'[t] = consoleCall'[x].answer
    BY ONLY <2>2, <2>4, <2>6 DEF OneGet
  <2> QED
    BY ONLY <2>7, <2>8, <2>9 DEF OneGet, TheTaskConsole!Ended
<1>12. ASSUME NEW c \in Calls, TheTaskConsole!HearMutation(c) PROVE OneGet'
  BY <1>12 DEF TheTaskConsole!HearMutation, TheTaskConsole!Invalidated, TheTaskConsole!NewCall
<1>13. ASSUME NEW c \in Calls, TheTaskConsole!HearCreate(c) PROVE OneGet'
  <2>1. consoleCall[c].kind = "create" /\ consoleCall[c].at = "answered" /\ task' = task
        /\ consoleFaults' = consoleFaults /\ c \in Calls
    BY <1>13 DEF TheTaskConsole!HearCreate, TheTaskConsole!server
  <2>2. CASE TheTaskConsole!Leave(consoleCall[c].task)
    <3>1. \A x \in Calls : ~ consoleCall'[x].heard
      BY <2>2 DEF TheTaskConsole!Leave, TheTaskConsole!NoCall, TheTaskConsole!TypeOK
    <3>2. consoleCache' = TheTaskConsole!NoCache
      BY <2>2 DEF TheTaskConsole!Leave
    <3> QED
      BY <2>1, <3>1, <3>2 DEF OneGet, TheTaskConsole!Gets, TheTaskConsole!NoCache, TheTaskConsole!Ended
  <2>3. CASE ~ TheTaskConsole!Leave(consoleCall[c].task)
    <3>1. consoleCall' = [consoleCall EXCEPT ![c] = TheTaskConsole!NoCall] /\ consoleCache' = consoleCache
      BY <1>13, <2>1, <2>3 DEF TheTaskConsole!HearCreate, TheTaskConsole!SetCall, TheTaskConsole!client
    <3>2. \A x \in Calls, t \in Tasks : TheTaskConsole!Gets(x, t)' =>
             TheTaskConsole!Gets(x, t) /\ consoleCall'[x] = consoleCall[x]
      BY <2>1, <3>1 DEF TheTaskConsole!Gets, TheTaskConsole!NoCall, TheTaskConsole!TypeOK
    <3> QED
      BY <2>1, <3>1, <3>2, GetsStay
  <2> QED
    BY <2>2, <2>3
<1>14. ASSUME NEW t \in Tasks, TheTaskConsole!TaskRuns(t) PROVE OneGet'
  <2>1. \A u \in Tasks : task[u] \in TheTaskConsole!Ended => task'[u] = task[u]
    BY <1>14 DEF TheTaskConsole!TaskRuns, TheTaskConsole!TypeOK, TheTaskConsole!Ended
  <2>2. consoleCall' = consoleCall /\ consoleCache' = consoleCache /\ said' = said /\ cut' = cut
        /\ consoleFaults' = consoleFaults
    BY <1>14 DEF TheTaskConsole!TaskRuns
  <2>3. \A x \in Calls, u \in Tasks : TheTaskConsole!Gets(x, u)' =>
              \/ /\ TheTaskConsole!Gets(x, u)
                 /\ consoleCall'[x].at = "answered" =>
                       \/ consoleCall[x].at = "answered" /\ consoleCall'[x].answer = consoleCall[x].answer
                       \/ consoleCall'[x].answer \in {"error", task'[u]}
              \/ consoleCall'[x].at = "sent" /\ \A d \in Calls : TheTaskConsole!Gets(d, u)' => d = x
    BY <2>2 DEF TheTaskConsole!Gets
  <2> QED
    BY <2>1, <2>2, <2>3, GetsStay
<1>15. ASSUME NEW t \in Tasks, TheTaskConsole!Visit(t) PROVE OneGet'
  <2>1. \A x \in Calls : ~ consoleCall'[x].heard
    BY <1>15 DEF TheTaskConsole!Visit, TheTaskConsole!Leave, TheTaskConsole!NoCall, TheTaskConsole!TypeOK
  <2>2. consoleCache' = TheTaskConsole!NoCache /\ task' = task
    BY <1>15 DEF TheTaskConsole!Visit, TheTaskConsole!Leave, TheTaskConsole!server
  <2> QED
    BY <2>1, <2>2 DEF OneGet, TheTaskConsole!Gets, TheTaskConsole!NoCache, TheTaskConsole!Ended
<1>16. ASSUME NEW a \in Agents, TheTaskConsole!SelectAgent(a) PROVE OneGet'
  BY <1>16 DEF TheTaskConsole!SelectAgent, TheTaskConsole!Reselect
<1>17. CASE TheTaskConsole!ClearAgent
  BY <1>17 DEF TheTaskConsole!ClearAgent, TheTaskConsole!Reselect
<1>18. CASE TheTaskConsole!AgentLoads
  BY <1>18 DEF TheTaskConsole!AgentLoads
<1>19. CASE TheTaskConsole!SelectSkill
  BY <1>19 DEF TheTaskConsole!SelectSkill
<1>20. CASE TheTaskConsole!Chunk
  BY <1>20 DEF TheTaskConsole!Chunk
<1>21. CASE TheTaskConsole!StreamEnds
  BY <1>21 DEF TheTaskConsole!StreamEnds, TheTaskConsole!Fault
<1> QED
  BY <1>1, <1>2, <1>3, <1>4, <1>5, <1>6, <1>7, <1>8, <1>9, <1>10, <1>11, <1>12, <1>13, <1>14, <1>15, <1>16, <1>17, <1>18, <1>19, <1>20, <1>21 DEF TheTaskConsole!Next, TheTaskConsole!Network

LEMMA ConsoleCancels ==
    ASSUME TheTaskConsole!ConsoleAssumption, TheTaskConsole!TypeOK, CallsFit, CancelsAreDone, TheTaskConsole!Next
    PROVE  CancelsAreDone'
<1> USE DEF TheTaskConsole!SetCall, TheTaskConsole!NoCall, TheTaskConsole!Nothing, TheTaskConsole!NoForm, TheTaskConsole!NoCache, TheTaskConsole!NoStream, TheTaskConsole!NoToast, TheTaskConsole!server, TheTaskConsole!client, TheTaskConsole!TypeOK, CancelsAreDone, TheTaskConsole!SaidIsSo
<1>1. ASSUME NEW c \in Calls, NEW t \in Tasks, TheTaskConsole!Serve(c, t) PROVE CancelsAreDone'
  <2>1. consoleCall[c].at = "sent" /\ TheTaskConsole!Effect(c, t)
    BY <1>1 DEF TheTaskConsole!Serve
  <2>2. /\ task' \in [Tasks -> TheTaskConsole!Statuses]
        /\ \A u \in Tasks : task[u] \in TheTaskConsole!Ended => task'[u] = task[u]
        /\ \A u \in Tasks : madeFor'[u] \in {madeFor[u], consoleCall[c].with}
        /\ consoleCall[c].kind \in {"get", "cancel", "confirm"} => t = consoleCall[c].task
        /\ consoleCall[c].kind = "cancel" => task'[t] \in TheTaskConsole!Ended
    BY <2>1, EffectIs
  <2>3. /\ \A x \in Calls \ {c} : consoleCall'[x] = consoleCall[x]
        /\ ~ consoleCall[c].heard => consoleCall'[c] = TheTaskConsole!NoCall
        /\ consoleCall[c].heard =>
              /\ consoleCall'[c].kind = consoleCall[c].kind /\ consoleCall'[c].with = consoleCall[c].with
              /\ consoleCall'[c].task = t /\ consoleCall'[c].at = "answered" /\ consoleCall'[c].heard
              /\ consoleCall'[c].answer \in {"error", task'[t]}
    BY <1>1, <2>2, ServeIs
  <2>4. /\ consoleForm' = consoleForm /\ consoleCache' = consoleCache /\ said' = said /\ cut' = cut
        /\ consoleFaults' = consoleFaults
    BY <1>1 DEF TheTaskConsole!Serve
  <2>5. \A x \in Calls : consoleCall'[x].kind = "cancel" =>
              /\ consoleCall[x].kind = "cancel" /\ consoleCall'[x].task = consoleCall[x].task
              /\ \/ consoleCall'[x].at = consoleCall[x].at
                 \/ task'[consoleCall[x].task] \in TheTaskConsole!Ended
              /\ ~ consoleCall'[x].heard => ~ consoleCall[x].heard
    BY <2>1, <2>2, <2>3 DEF TheTaskConsole!NoCall, CancelsAreDone
  <2>6. \A x \in Calls : consoleCall[x].kind = "cancel" =>
              \/ task'[consoleCall[x].task] \in TheTaskConsole!Ended
              \/ consoleCall'[x].kind = "cancel" /\ consoleCall'[x].task = consoleCall[x].task
    BY <2>2, <2>3
  <2>7. \A x \in Calls : consoleCall[x].kind = "cancel" => consoleCall[x].task \in Tasks
    BY DEF CallsFit, CallFits
  <2>8. said \subseteq Tasks
    BY DEF TheTaskConsole!TypeOK
  <2> QED
    BY <2>2, <2>4, <2>5, <2>6, <2>7, <2>8, CancelsStay
<1>2. ASSUME NEW c \in Calls, TheTaskConsole!LoseAnswer(c) PROVE CancelsAreDone'
  BY <1>2 DEF TheTaskConsole!LoseAnswer, TheTaskConsole!Fault
<1>3. ASSUME NEW c \in Calls, TheTaskConsole!Aborted(c) PROVE CancelsAreDone'
  BY <1>3 DEF TheTaskConsole!Aborted, TheTaskConsole!Idle
<1>4. ASSUME NEW c \in Calls, TheTaskConsole!Submit(c) PROVE CancelsAreDone'
  BY <1>4 DEF TheTaskConsole!Submit, TheTaskConsole!Click, TheTaskConsole!Idle, TheTaskConsole!NewCall
<1>5. ASSUME NEW c \in Calls, TheTaskConsole!Undo(c) PROVE CancelsAreDone'
  BY <1>5 DEF TheTaskConsole!Undo, TheTaskConsole!Idle, TheTaskConsole!NewCall
<1>6. ASSUME NEW c \in Calls, TheTaskConsole!Poll(c) PROVE CancelsAreDone'
  BY <1>6 DEF TheTaskConsole!Poll, TheTaskConsole!Idle, TheTaskConsole!NewCall
<1>7. ASSUME NEW c \in Calls, TheTaskConsole!Reconnect(c) PROVE CancelsAreDone'
  BY <1>7 DEF TheTaskConsole!Reconnect, TheTaskConsole!Idle, TheTaskConsole!NewCall
<1>8. ASSUME NEW c \in Calls, TheTaskConsole!CancelTask(c) PROVE CancelsAreDone'
  BY <1>8 DEF TheTaskConsole!CancelTask, TheTaskConsole!Click, TheTaskConsole!Idle, TheTaskConsole!NewCall, TheTaskConsole!Offers
<1>9. ASSUME NEW c \in Calls, TheTaskConsole!ConfirmTask(c) PROVE CancelsAreDone'
  BY <1>9 DEF TheTaskConsole!ConfirmTask, TheTaskConsole!Click, TheTaskConsole!Idle, TheTaskConsole!NewCall, TheTaskConsole!Offers
<1>10. ASSUME NEW c \in Calls, TheTaskConsole!Try(c) PROVE CancelsAreDone'
  BY <1>10 DEF TheTaskConsole!Try, TheTaskConsole!Click, TheTaskConsole!Idle, TheTaskConsole!NewCall
<1>11. ASSUME NEW c \in Calls, TheTaskConsole!HearGet(c) PROVE CancelsAreDone'
  BY <1>11 DEF TheTaskConsole!HearGet
<1>12. ASSUME NEW c \in Calls, TheTaskConsole!HearMutation(c) PROVE CancelsAreDone'
  <2>1. /\ consoleCall[c].kind \in {"cancel", "confirm"} /\ consoleCall[c].at = "answered"
        /\ task' = task /\ said' = said /\ cut' = cut /\ consoleFaults' = consoleFaults
    BY <1>12 DEF TheTaskConsole!HearMutation, TheTaskConsole!server, TheTaskConsole!client
  <2>2. /\ \A x \in Calls \ {c} :
              consoleCall'[x] = consoleCall[x]
                \/ (consoleCall[x].kind = "get" /\ consoleCall'[x].kind = "none")
        /\ consoleCall'[c].kind \in {"none", "get"}
    BY <1>12, <2>1 DEF TheTaskConsole!HearMutation, TheTaskConsole!Invalidated, TheTaskConsole!NewCall,
           TheTaskConsole!NoCall, TheTaskConsole!Gets, TheTaskConsole!TypeOK
  <2>3. consoleFaults = 0 /\ consoleCall[c].kind = "cancel"
           => task[consoleCall[c].task] \in TheTaskConsole!Ended
    BY <2>1 DEF CancelsAreDone
  <2>7. \A x \in Calls : consoleCall[x].kind = "cancel" => consoleCall[x].task \in Tasks
    BY DEF CallsFit, CallFits
  <2>8. said \subseteq Tasks
    BY DEF TheTaskConsole!TypeOK
  <2> QED
    BY <2>1, <2>2, <2>3, <2>7, <2>8, CancelsStay
<1>13. ASSUME NEW c \in Calls, TheTaskConsole!HearCreate(c) PROVE CancelsAreDone'
  <2>1. consoleCall[c].kind = "create" /\ consoleCall[c].at = "answered" /\ task' = task
        /\ consoleFaults' = consoleFaults /\ c \in Calls
    BY <1>13 DEF TheTaskConsole!HearCreate, TheTaskConsole!server
  <2>2. CASE TheTaskConsole!Leave(consoleCall[c].task)
    BY <2>1, <2>2 DEF TheTaskConsole!Leave, CallsFit, CallFits
  <2>3. CASE ~ TheTaskConsole!Leave(consoleCall[c].task)
    <3>1. consoleCall' = [consoleCall EXCEPT ![c] = TheTaskConsole!NoCall] /\ said' = said /\ cut' = cut
      BY <1>13, <2>1, <2>3 DEF TheTaskConsole!HearCreate, TheTaskConsole!SetCall, TheTaskConsole!client
    <3>2. \A x \in Calls :
             consoleCall'[x] = consoleCall[x]
               \/ (consoleCall[x].kind = "create" /\ consoleCall'[x].kind = "none")
      BY <2>1, <3>1 DEF TheTaskConsole!NoCall, TheTaskConsole!TypeOK
    <3>3. \A x \in Calls : consoleCall[x].kind = "cancel" => consoleCall[x].task \in Tasks
      BY DEF CallsFit, CallFits
    <3>4. said \subseteq Tasks
      BY DEF TheTaskConsole!TypeOK
    <3> QED
      BY <2>1, <3>1, <3>2, <3>3, <3>4, CancelsStay
  <2> QED
    BY <2>2, <2>3
<1>14. ASSUME NEW t \in Tasks, TheTaskConsole!TaskRuns(t) PROVE CancelsAreDone'
  <2>1. \A u \in Tasks : task[u] \in TheTaskConsole!Ended => task'[u] = task[u]
    BY <1>14 DEF TheTaskConsole!TaskRuns, TheTaskConsole!TypeOK, TheTaskConsole!Ended
  <2>2. consoleCall' = consoleCall /\ consoleCache' = consoleCache /\ said' = said /\ cut' = cut
        /\ consoleFaults' = consoleFaults
    BY <1>14 DEF TheTaskConsole!TaskRuns
  <2>7. \A x \in Calls : consoleCall[x].kind = "cancel" => consoleCall[x].task \in Tasks
    BY DEF CallsFit, CallFits
  <2>8. said \subseteq Tasks
    BY DEF TheTaskConsole!TypeOK
  <2> QED
    BY <2>1, <2>2, <2>7, <2>8, CancelsStay
<1>15. ASSUME NEW t \in Tasks, TheTaskConsole!Visit(t) PROVE CancelsAreDone'
  BY <1>15 DEF TheTaskConsole!Visit, TheTaskConsole!Leave
<1>16. ASSUME NEW a \in Agents, TheTaskConsole!SelectAgent(a) PROVE CancelsAreDone'
  BY <1>16 DEF TheTaskConsole!SelectAgent, TheTaskConsole!Reselect
<1>17. CASE TheTaskConsole!ClearAgent
  BY <1>17 DEF TheTaskConsole!ClearAgent, TheTaskConsole!Reselect
<1>18. CASE TheTaskConsole!AgentLoads
  BY <1>18 DEF TheTaskConsole!AgentLoads
<1>19. CASE TheTaskConsole!SelectSkill
  BY <1>19 DEF TheTaskConsole!SelectSkill
<1>20. CASE TheTaskConsole!Chunk
  BY <1>20 DEF TheTaskConsole!Chunk
<1>21. CASE TheTaskConsole!StreamEnds
  BY <1>21 DEF TheTaskConsole!StreamEnds, TheTaskConsole!Fault
<1> QED
  BY <1>1, <1>2, <1>3, <1>4, <1>5, <1>6, <1>7, <1>8, <1>9, <1>10, <1>11, <1>12, <1>13, <1>14, <1>15, <1>16, <1>17, <1>18, <1>19, <1>20, <1>21 DEF TheTaskConsole!Next, TheTaskConsole!Network

LEMMA ServerTypes ==
    ASSUME TheTaskConsole!ConsoleAssumption, TheTaskConsole!TypeOK, CallsFit, ScreenFits, StreamFits, TheTaskConsole!Next
    PROVE  ServerTyped'
<1> USE DEF TheTaskConsole!SetCall, TheTaskConsole!server, TheTaskConsole!client, TheTaskConsole!Idle, ServerTyped, TheTaskConsole!Statuses, TheTaskConsole!Ended
<1>0. ServerTyped /\ CallsTyped /\ ScreenTyped /\ CountsTyped
  BY TypedIsTyped
<1>1. ASSUME NEW c \in Calls, NEW t \in Tasks, TheTaskConsole!Serve(c, t) PROVE ServerTyped'
  <2>1. consoleCall[c].at = "sent" /\ TheTaskConsole!Effect(c, t)
    BY <1>1 DEF TheTaskConsole!Serve
  <2>2. /\ task' \in [Tasks -> TheTaskConsole!Statuses]
        /\ \A u \in Tasks : task[u] \in TheTaskConsole!Ended => task'[u] = task[u]
        /\ \A u \in Tasks : madeFor'[u] \in {madeFor[u], consoleCall[c].with}
        /\ consoleCall[c].kind \in {"get", "cancel", "confirm"} => t = consoleCall[c].task
        /\ consoleCall[c].kind = "cancel" => task'[t] \in TheTaskConsole!Ended
    BY <2>1, EffectIs
  <2>3. /\ \A x \in Calls \ {c} : consoleCall'[x] = consoleCall[x]
        /\ ~ consoleCall[c].heard => consoleCall'[c] = TheTaskConsole!NoCall
        /\ consoleCall[c].heard =>
              /\ consoleCall'[c].kind = consoleCall[c].kind /\ consoleCall'[c].with = consoleCall[c].with
              /\ consoleCall'[c].task = t /\ consoleCall'[c].at = "answered" /\ consoleCall'[c].heard
              /\ consoleCall'[c].answer \in {"error", task'[t]}
    BY <1>1, <2>2, ServeIs
  <2>4. /\ consoleForm' = consoleForm /\ consoleCache' = consoleCache /\ said' = said /\ cut' = cut
        /\ consoleFaults' = consoleFaults
    BY <1>1 DEF TheTaskConsole!Serve
  <2>5. consoleCall' \in [Calls -> ConsoleCall] /\ madeFor' \in [Tasks -> ConsoleSelection]
    BY <1>1, <2>1, <2>2, ServeIs, EffectIs
  <2>6. UNCHANGED <<screen, consoleForm, current, consoleCache, stream, toast, said, cut,
                    consoleClicks, consoleFaults>>
    BY <1>1 DEF TheTaskConsole!Serve
  <2> QED
    BY <1>0, <2>2, <2>4, <2>5, <2>6 DEF ServerTyped
<1>2. ASSUME NEW c \in Calls, TheTaskConsole!LoseAnswer(c) PROVE ServerTyped'
  <2>1. consoleCall[c].at = "sent" /\ consoleFaults' = consoleFaults + 1
    BY <1>2 DEF TheTaskConsole!LoseAnswer, TheTaskConsole!Fault
  <2>2. UNCHANGED TheTaskConsole!server \/ \E t \in Tasks : TheTaskConsole!Effect(c, t)
    BY <1>2 DEF TheTaskConsole!LoseAnswer
  <2>3. /\ \A u \in Tasks : task[u] \in TheTaskConsole!Ended => task'[u] = task[u]
        /\ \A u \in Tasks : madeFor'[u] \in {madeFor[u], consoleCall[c].with}
    BY <2>1, <2>2, EffectIs
  <2>4. /\ \A x \in Calls \ {c} : consoleCall'[x] = consoleCall[x]
        /\ ~ consoleCall[c].heard => consoleCall'[c] = TheTaskConsole!NoCall
        /\ consoleCall[c].heard =>
              /\ consoleCall'[c].kind = consoleCall[c].kind /\ consoleCall'[c].with = consoleCall[c].with
              /\ consoleCall'[c].task = consoleCall[c].task /\ consoleCall'[c].heard
              /\ \/ consoleCall'[c].at = "sent"
                 \/ consoleCall'[c].at = "answered" /\ consoleCall'[c].answer = "error"
    BY <1>2, LoseIs
  <2>5. consoleForm' = consoleForm /\ consoleCache' = consoleCache
    BY <1>2 DEF TheTaskConsole!LoseAnswer
  <2>6. consoleCall' \in [Calls -> ConsoleCall]
    BY <1>2, LoseIs
  <2>7. task' \in [Tasks -> TheTaskConsole!Statuses] /\ madeFor' \in [Tasks -> ConsoleSelection]
    <3>1. CASE UNCHANGED TheTaskConsole!server
      BY <1>0, <3>1 DEF ServerTyped
    <3>2. CASE \E t \in Tasks : TheTaskConsole!Effect(c, t)
      BY <2>1, <3>2, EffectIs
    <3> QED
      BY <2>2, <3>1, <3>2
  <2>8. /\ UNCHANGED <<screen, consoleForm, current, consoleCache, stream, toast, said, cut, consoleClicks>>
        /\ TheTaskConsole!Fault
    BY <1>2 DEF TheTaskConsole!LoseAnswer
  <2>9. consoleFaults' \in 0 .. MaxFaults
    BY <1>0, <2>8, ConsoleCounts
  <2> QED
    BY <1>0, <2>6, <2>7, <2>8, <2>9 DEF ServerTyped
<1>3. ASSUME NEW c \in Calls, TheTaskConsole!Aborted(c) PROVE ServerTyped'
  BY <1>0, <1>3 DEF TheTaskConsole!Aborted, TheTaskConsole!Idle
<1>4. ASSUME NEW c \in Calls, TheTaskConsole!Submit(c) PROVE ServerTyped'
  BY <1>0, <1>4 DEF TheTaskConsole!Submit, TheTaskConsole!Idle
<1>5. ASSUME NEW c \in Calls, TheTaskConsole!Undo(c) PROVE ServerTyped'
  BY <1>0, <1>5 DEF TheTaskConsole!Undo, TheTaskConsole!Idle
<1>6. ASSUME NEW c \in Calls, TheTaskConsole!Poll(c) PROVE ServerTyped'
  BY <1>0, <1>6 DEF TheTaskConsole!Poll, TheTaskConsole!Idle
<1>7. ASSUME NEW c \in Calls, TheTaskConsole!Reconnect(c) PROVE ServerTyped'
  BY <1>0, <1>7 DEF TheTaskConsole!Reconnect, TheTaskConsole!Idle
<1>8. ASSUME NEW c \in Calls, TheTaskConsole!CancelTask(c) PROVE ServerTyped'
  BY <1>0, <1>8 DEF TheTaskConsole!CancelTask, TheTaskConsole!Idle, TheTaskConsole!Offers
<1>9. ASSUME NEW c \in Calls, TheTaskConsole!ConfirmTask(c) PROVE ServerTyped'
  BY <1>0, <1>9 DEF TheTaskConsole!ConfirmTask, TheTaskConsole!Idle, TheTaskConsole!Offers
<1>10. ASSUME NEW c \in Calls, TheTaskConsole!Try(c) PROVE ServerTyped'
  BY <1>0, <1>10 DEF TheTaskConsole!Try, TheTaskConsole!Idle
<1>11. ASSUME NEW c \in Calls, TheTaskConsole!HearGet(c) PROVE ServerTyped'
  BY <1>0, <1>11 DEF TheTaskConsole!HearGet
<1>12. ASSUME NEW c \in Calls, TheTaskConsole!HearMutation(c) PROVE ServerTyped'
  BY <1>0, <1>12 DEF TheTaskConsole!HearMutation, TheTaskConsole!Invalidated
<1>13. ASSUME NEW c \in Calls, TheTaskConsole!HearCreate(c) PROVE ServerTyped'
  BY <1>0, <1>13 DEF TheTaskConsole!HearCreate, TheTaskConsole!Leave, TheTaskConsole!Panel
<1>14. ASSUME NEW t \in Tasks, TheTaskConsole!TaskRuns(t) PROVE ServerTyped'
  BY <1>0, <1>14 DEF TheTaskConsole!TaskRuns
<1>15. ASSUME NEW t \in Tasks, TheTaskConsole!Visit(t) PROVE ServerTyped'
  BY <1>0, <1>15 DEF TheTaskConsole!Visit, TheTaskConsole!Leave
<1>16. ASSUME NEW a \in Agents, TheTaskConsole!SelectAgent(a) PROVE ServerTyped'
  BY <1>0, <1>16 DEF TheTaskConsole!SelectAgent
<1>17. CASE TheTaskConsole!ClearAgent
  BY <1>0, <1>17 DEF TheTaskConsole!ClearAgent
<1>18. CASE TheTaskConsole!AgentLoads
  BY <1>0, <1>18 DEF TheTaskConsole!AgentLoads
<1>19. CASE TheTaskConsole!SelectSkill
  BY <1>0, <1>19 DEF TheTaskConsole!SelectSkill
<1>20. CASE TheTaskConsole!Chunk
  BY <1>0, <1>20 DEF TheTaskConsole!Chunk
<1>21. CASE TheTaskConsole!StreamEnds
  BY <1>0, <1>21 DEF TheTaskConsole!StreamEnds
<1> QED
  BY <1>1, <1>2, <1>3, <1>4, <1>5, <1>6, <1>7, <1>8, <1>9, <1>10, <1>11, <1>12, <1>13, <1>14, <1>15, <1>16, <1>17, <1>18, <1>19, <1>20, <1>21 DEF TheTaskConsole!Next, TheTaskConsole!Network

LEMMA CallTypes ==
    ASSUME TheTaskConsole!ConsoleAssumption, TheTaskConsole!TypeOK, CallsFit, ScreenFits, StreamFits, TheTaskConsole!Next
    PROVE  CallsTyped'
<1> USE DEF TheTaskConsole!SetCall, TheTaskConsole!server, TheTaskConsole!client, TheTaskConsole!Idle, CallsTyped, ScreenTyped
<1>0. ServerTyped /\ CallsTyped /\ ScreenTyped /\ CountsTyped
  BY TypedIsTyped
<1>1. ASSUME NEW c \in Calls, NEW t \in Tasks, TheTaskConsole!Serve(c, t) PROVE CallsTyped'
  <2>1. consoleCall[c].at = "sent" /\ TheTaskConsole!Effect(c, t)
    BY <1>1 DEF TheTaskConsole!Serve
  <2>2. /\ task' \in [Tasks -> TheTaskConsole!Statuses]
        /\ \A u \in Tasks : task[u] \in TheTaskConsole!Ended => task'[u] = task[u]
        /\ \A u \in Tasks : madeFor'[u] \in {madeFor[u], consoleCall[c].with}
        /\ consoleCall[c].kind \in {"get", "cancel", "confirm"} => t = consoleCall[c].task
        /\ consoleCall[c].kind = "cancel" => task'[t] \in TheTaskConsole!Ended
    BY <2>1, EffectIs
  <2>3. /\ \A x \in Calls \ {c} : consoleCall'[x] = consoleCall[x]
        /\ ~ consoleCall[c].heard => consoleCall'[c] = TheTaskConsole!NoCall
        /\ consoleCall[c].heard =>
              /\ consoleCall'[c].kind = consoleCall[c].kind /\ consoleCall'[c].with = consoleCall[c].with
              /\ consoleCall'[c].task = t /\ consoleCall'[c].at = "answered" /\ consoleCall'[c].heard
              /\ consoleCall'[c].answer \in {"error", task'[t]}
    BY <1>1, <2>2, ServeIs
  <2>4. /\ consoleForm' = consoleForm /\ consoleCache' = consoleCache /\ said' = said /\ cut' = cut
        /\ consoleFaults' = consoleFaults
    BY <1>1 DEF TheTaskConsole!Serve
  <2>5. consoleCall' \in [Calls -> ConsoleCall] /\ madeFor' \in [Tasks -> ConsoleSelection]
    BY <1>1, <2>1, <2>2, ServeIs, EffectIs
  <2>6. UNCHANGED <<screen, consoleForm, current, consoleCache, stream, toast, said, cut,
                    consoleClicks, consoleFaults>>
    BY <1>1 DEF TheTaskConsole!Serve
  <2> QED
    BY <1>0, <2>2, <2>4, <2>5, <2>6 DEF CallsTyped
<1>2. ASSUME NEW c \in Calls, TheTaskConsole!LoseAnswer(c) PROVE CallsTyped'
  <2>1. consoleCall[c].at = "sent" /\ consoleFaults' = consoleFaults + 1
    BY <1>2 DEF TheTaskConsole!LoseAnswer, TheTaskConsole!Fault
  <2>2. UNCHANGED TheTaskConsole!server \/ \E t \in Tasks : TheTaskConsole!Effect(c, t)
    BY <1>2 DEF TheTaskConsole!LoseAnswer
  <2>3. /\ \A u \in Tasks : task[u] \in TheTaskConsole!Ended => task'[u] = task[u]
        /\ \A u \in Tasks : madeFor'[u] \in {madeFor[u], consoleCall[c].with}
    BY <2>1, <2>2, EffectIs
  <2>4. /\ \A x \in Calls \ {c} : consoleCall'[x] = consoleCall[x]
        /\ ~ consoleCall[c].heard => consoleCall'[c] = TheTaskConsole!NoCall
        /\ consoleCall[c].heard =>
              /\ consoleCall'[c].kind = consoleCall[c].kind /\ consoleCall'[c].with = consoleCall[c].with
              /\ consoleCall'[c].task = consoleCall[c].task /\ consoleCall'[c].heard
              /\ \/ consoleCall'[c].at = "sent"
                 \/ consoleCall'[c].at = "answered" /\ consoleCall'[c].answer = "error"
    BY <1>2, LoseIs
  <2>5. consoleForm' = consoleForm /\ consoleCache' = consoleCache
    BY <1>2 DEF TheTaskConsole!LoseAnswer
  <2>6. consoleCall' \in [Calls -> ConsoleCall]
    BY <1>2, LoseIs
  <2>7. task' \in [Tasks -> TheTaskConsole!Statuses] /\ madeFor' \in [Tasks -> ConsoleSelection]
    <3>1. CASE UNCHANGED TheTaskConsole!server
      BY <1>0, <3>1 DEF ServerTyped
    <3>2. CASE \E t \in Tasks : TheTaskConsole!Effect(c, t)
      BY <2>1, <3>2, EffectIs
    <3> QED
      BY <2>2, <3>1, <3>2
  <2>8. /\ UNCHANGED <<screen, consoleForm, current, consoleCache, stream, toast, said, cut, consoleClicks>>
        /\ TheTaskConsole!Fault
    BY <1>2 DEF TheTaskConsole!LoseAnswer
  <2>9. consoleFaults' \in 0 .. MaxFaults
    BY <1>0, <2>8, ConsoleCounts
  <2> QED
    BY <1>0, <2>6, <2>7, <2>8, <2>9 DEF CallsTyped
<1>3. ASSUME NEW c \in Calls, TheTaskConsole!Aborted(c) PROVE CallsTyped'
  BY <1>0, <1>3, NewCallsTyped, FormsTyped, ShownTyped DEF TheTaskConsole!Aborted, TheTaskConsole!Idle
<1>4. ASSUME NEW c \in Calls, TheTaskConsole!Submit(c) PROVE CallsTyped'
  BY <1>0, <1>4, NewCallsTyped, FormsTyped, ShownTyped DEF TheTaskConsole!Submit, TheTaskConsole!Idle
<1>5. ASSUME NEW c \in Calls, TheTaskConsole!Undo(c) PROVE CallsTyped'
  BY <1>0, <1>5, NewCallsTyped, FormsTyped, ShownTyped DEF TheTaskConsole!Undo, TheTaskConsole!Idle
<1>6. ASSUME NEW c \in Calls, TheTaskConsole!Poll(c) PROVE CallsTyped'
  BY <1>0, <1>6, NewCallsTyped, FormsTyped, ShownTyped DEF TheTaskConsole!Poll, TheTaskConsole!Idle
<1>7. ASSUME NEW c \in Calls, TheTaskConsole!Reconnect(c) PROVE CallsTyped'
  BY <1>0, <1>7, NewCallsTyped, FormsTyped, ShownTyped DEF TheTaskConsole!Reconnect, TheTaskConsole!Idle
<1>8. ASSUME NEW c \in Calls, TheTaskConsole!CancelTask(c) PROVE CallsTyped'
  BY <1>0, <1>8, NewCallsTyped, FormsTyped, ShownTyped DEF TheTaskConsole!CancelTask, TheTaskConsole!Idle, TheTaskConsole!Offers
<1>9. ASSUME NEW c \in Calls, TheTaskConsole!ConfirmTask(c) PROVE CallsTyped'
  BY <1>0, <1>9, NewCallsTyped, FormsTyped, ShownTyped DEF TheTaskConsole!ConfirmTask, TheTaskConsole!Idle, TheTaskConsole!Offers
<1>10. ASSUME NEW c \in Calls, TheTaskConsole!Try(c) PROVE CallsTyped'
  BY <1>0, <1>10, NewCallsTyped, FormsTyped, ShownTyped DEF TheTaskConsole!Try, TheTaskConsole!Idle
<1>11. ASSUME NEW c \in Calls, TheTaskConsole!HearGet(c) PROVE CallsTyped'
  BY <1>0, <1>11, NewCallsTyped, FormsTyped, ShownTyped DEF TheTaskConsole!HearGet
<1>12. ASSUME NEW c \in Calls, TheTaskConsole!HearMutation(c) PROVE CallsTyped'
  BY <1>0, <1>12, NewCallsTyped, FormsTyped, ShownTyped DEF TheTaskConsole!HearMutation, TheTaskConsole!Invalidated
<1>13. ASSUME NEW c \in Calls, TheTaskConsole!HearCreate(c) PROVE CallsTyped'
  <2>1. CASE TheTaskConsole!Leave(consoleCall[c].task)
    BY <1>0, <2>1, NewCallsTyped DEF TheTaskConsole!Leave
  <2>2. CASE ~ TheTaskConsole!Leave(consoleCall[c].task)
    BY <1>0, <1>13, <2>2, NewCallsTyped DEF TheTaskConsole!HearCreate
  <2> QED
    BY <2>1, <2>2
<1>14. ASSUME NEW t \in Tasks, TheTaskConsole!TaskRuns(t) PROVE CallsTyped'
  BY <1>0, <1>14, NewCallsTyped, FormsTyped, ShownTyped DEF TheTaskConsole!TaskRuns
<1>15. ASSUME NEW t \in Tasks, TheTaskConsole!Visit(t) PROVE CallsTyped'
  BY <1>0, <1>15, NewCallsTyped, FormsTyped, ShownTyped DEF TheTaskConsole!Visit, TheTaskConsole!Leave
<1>16. ASSUME NEW a \in Agents, TheTaskConsole!SelectAgent(a) PROVE CallsTyped'
  BY <1>0, <1>16, NewCallsTyped, FormsTyped, ShownTyped DEF TheTaskConsole!SelectAgent
<1>17. CASE TheTaskConsole!ClearAgent
  BY <1>0, <1>17, NewCallsTyped, FormsTyped, ShownTyped DEF TheTaskConsole!ClearAgent
<1>18. CASE TheTaskConsole!AgentLoads
  BY <1>0, <1>18, NewCallsTyped, FormsTyped, ShownTyped DEF TheTaskConsole!AgentLoads
<1>19. CASE TheTaskConsole!SelectSkill
  BY <1>0, <1>19, NewCallsTyped, FormsTyped, ShownTyped DEF TheTaskConsole!SelectSkill
<1>20. CASE TheTaskConsole!Chunk
  BY <1>0, <1>20, NewCallsTyped, FormsTyped, ShownTyped DEF TheTaskConsole!Chunk
<1>21. CASE TheTaskConsole!StreamEnds
  BY <1>0, <1>21, NewCallsTyped, FormsTyped, ShownTyped DEF TheTaskConsole!StreamEnds
<1> QED
  BY <1>1, <1>2, <1>3, <1>4, <1>5, <1>6, <1>7, <1>8, <1>9, <1>10, <1>11, <1>12, <1>13, <1>14, <1>15, <1>16, <1>17, <1>18, <1>19, <1>20, <1>21 DEF TheTaskConsole!Next, TheTaskConsole!Network

LEMMA ScreenTypes ==
    ASSUME TheTaskConsole!ConsoleAssumption, TheTaskConsole!TypeOK, CallsFit, ScreenFits, StreamFits, TheTaskConsole!Next
    PROVE  ScreenTyped'
<1> USE DEF TheTaskConsole!SetCall, TheTaskConsole!server, TheTaskConsole!client, TheTaskConsole!Idle, ScreenTyped, CallsTyped, CallsFit, CallFits, ScreenFits, StreamFits
<1>0. ServerTyped /\ CallsTyped /\ ScreenTyped /\ CountsTyped
  BY TypedIsTyped
<1>1. ASSUME NEW c \in Calls, NEW t \in Tasks, TheTaskConsole!Serve(c, t) PROVE ScreenTyped'
  <2>1. consoleCall[c].at = "sent" /\ TheTaskConsole!Effect(c, t)
    BY <1>1 DEF TheTaskConsole!Serve
  <2>2. /\ task' \in [Tasks -> TheTaskConsole!Statuses]
        /\ \A u \in Tasks : task[u] \in TheTaskConsole!Ended => task'[u] = task[u]
        /\ \A u \in Tasks : madeFor'[u] \in {madeFor[u], consoleCall[c].with}
        /\ consoleCall[c].kind \in {"get", "cancel", "confirm"} => t = consoleCall[c].task
        /\ consoleCall[c].kind = "cancel" => task'[t] \in TheTaskConsole!Ended
    BY <2>1, EffectIs
  <2>3. /\ \A x \in Calls \ {c} : consoleCall'[x] = consoleCall[x]
        /\ ~ consoleCall[c].heard => consoleCall'[c] = TheTaskConsole!NoCall
        /\ consoleCall[c].heard =>
              /\ consoleCall'[c].kind = consoleCall[c].kind /\ consoleCall'[c].with = consoleCall[c].with
              /\ consoleCall'[c].task = t /\ consoleCall'[c].at = "answered" /\ consoleCall'[c].heard
              /\ consoleCall'[c].answer \in {"error", task'[t]}
    BY <1>1, <2>2, ServeIs
  <2>4. /\ consoleForm' = consoleForm /\ consoleCache' = consoleCache /\ said' = said /\ cut' = cut
        /\ consoleFaults' = consoleFaults
    BY <1>1 DEF TheTaskConsole!Serve
  <2>5. consoleCall' \in [Calls -> ConsoleCall] /\ madeFor' \in [Tasks -> ConsoleSelection]
    BY <1>1, <2>1, <2>2, ServeIs, EffectIs
  <2>6. UNCHANGED <<screen, consoleForm, current, consoleCache, stream, toast, said, cut,
                    consoleClicks, consoleFaults>>
    BY <1>1 DEF TheTaskConsole!Serve
  <2> QED
    BY <1>0, <2>2, <2>4, <2>5, <2>6 DEF ScreenTyped
<1>2. ASSUME NEW c \in Calls, TheTaskConsole!LoseAnswer(c) PROVE ScreenTyped'
  <2>1. consoleCall[c].at = "sent" /\ consoleFaults' = consoleFaults + 1
    BY <1>2 DEF TheTaskConsole!LoseAnswer, TheTaskConsole!Fault
  <2>2. UNCHANGED TheTaskConsole!server \/ \E t \in Tasks : TheTaskConsole!Effect(c, t)
    BY <1>2 DEF TheTaskConsole!LoseAnswer
  <2>3. /\ \A u \in Tasks : task[u] \in TheTaskConsole!Ended => task'[u] = task[u]
        /\ \A u \in Tasks : madeFor'[u] \in {madeFor[u], consoleCall[c].with}
    BY <2>1, <2>2, EffectIs
  <2>4. /\ \A x \in Calls \ {c} : consoleCall'[x] = consoleCall[x]
        /\ ~ consoleCall[c].heard => consoleCall'[c] = TheTaskConsole!NoCall
        /\ consoleCall[c].heard =>
              /\ consoleCall'[c].kind = consoleCall[c].kind /\ consoleCall'[c].with = consoleCall[c].with
              /\ consoleCall'[c].task = consoleCall[c].task /\ consoleCall'[c].heard
              /\ \/ consoleCall'[c].at = "sent"
                 \/ consoleCall'[c].at = "answered" /\ consoleCall'[c].answer = "error"
    BY <1>2, LoseIs
  <2>5. consoleForm' = consoleForm /\ consoleCache' = consoleCache
    BY <1>2 DEF TheTaskConsole!LoseAnswer
  <2>6. consoleCall' \in [Calls -> ConsoleCall]
    BY <1>2, LoseIs
  <2>7. task' \in [Tasks -> TheTaskConsole!Statuses] /\ madeFor' \in [Tasks -> ConsoleSelection]
    <3>1. CASE UNCHANGED TheTaskConsole!server
      BY <1>0, <3>1 DEF ServerTyped
    <3>2. CASE \E t \in Tasks : TheTaskConsole!Effect(c, t)
      BY <2>1, <3>2, EffectIs
    <3> QED
      BY <2>2, <3>1, <3>2
  <2>8. /\ UNCHANGED <<screen, consoleForm, current, consoleCache, stream, toast, said, cut, consoleClicks>>
        /\ TheTaskConsole!Fault
    BY <1>2 DEF TheTaskConsole!LoseAnswer
  <2>9. consoleFaults' \in 0 .. MaxFaults
    BY <1>0, <2>8, ConsoleCounts
  <2> QED
    BY <1>0, <2>6, <2>7, <2>8, <2>9 DEF ScreenTyped
<1>3. ASSUME NEW c \in Calls, TheTaskConsole!Aborted(c) PROVE ScreenTyped'
  BY <1>0, <1>3, NewCallsTyped, FormsTyped, ShownTyped, StreamTyped DEF TheTaskConsole!Aborted, TheTaskConsole!Idle
<1>4. ASSUME NEW c \in Calls, TheTaskConsole!Submit(c) PROVE ScreenTyped'
  BY <1>0, <1>4, NewCallsTyped, FormsTyped, ShownTyped, StreamTyped DEF TheTaskConsole!Submit, TheTaskConsole!Idle
<1>5. ASSUME NEW c \in Calls, TheTaskConsole!Undo(c) PROVE ScreenTyped'
  <2>1. /\ UNCHANGED <<screen, consoleForm, current, consoleCache, stream, cut>>
        /\ toast.undo # NoName
        /\ said' = said \cup {toast.undo} /\ toast' = [toast EXCEPT !.undo = NoName]
    BY <1>5 DEF TheTaskConsole!Undo
  <2>2. toast' \in ConsoleToast /\ toast.undo \in Tasks
    BY <1>0, <2>1, ShownTyped
  <2> QED
    BY <1>0, <2>1, <2>2
<1>6. ASSUME NEW c \in Calls, TheTaskConsole!Poll(c) PROVE ScreenTyped'
  BY <1>0, <1>6, NewCallsTyped, FormsTyped, ShownTyped, StreamTyped DEF TheTaskConsole!Poll, TheTaskConsole!Idle
<1>7. ASSUME NEW c \in Calls, TheTaskConsole!Reconnect(c) PROVE ScreenTyped'
  BY <1>0, <1>7, NewCallsTyped, FormsTyped, ShownTyped, StreamTyped DEF TheTaskConsole!Reconnect, TheTaskConsole!Idle
<1>8. ASSUME NEW c \in Calls, TheTaskConsole!CancelTask(c) PROVE ScreenTyped'
  BY <1>0, <1>8, NewCallsTyped, FormsTyped, ShownTyped, StreamTyped DEF TheTaskConsole!CancelTask, TheTaskConsole!Idle, TheTaskConsole!Offers
<1>9. ASSUME NEW c \in Calls, TheTaskConsole!ConfirmTask(c) PROVE ScreenTyped'
  BY <1>0, <1>9, NewCallsTyped, FormsTyped, ShownTyped, StreamTyped DEF TheTaskConsole!ConfirmTask, TheTaskConsole!Idle, TheTaskConsole!Offers
<1>10. ASSUME NEW c \in Calls, TheTaskConsole!Try(c) PROVE ScreenTyped'
  BY <1>0, <1>10, NewCallsTyped, FormsTyped, ShownTyped, StreamTyped DEF TheTaskConsole!Try, TheTaskConsole!Idle
<1>11. ASSUME NEW c \in Calls, TheTaskConsole!HearGet(c) PROVE ScreenTyped'
  BY <1>0, <1>11, NewCallsTyped, FormsTyped, ShownTyped, StreamTyped DEF TheTaskConsole!HearGet
<1>12. ASSUME NEW c \in Calls, TheTaskConsole!HearMutation(c) PROVE ScreenTyped'
  BY <1>0, <1>12, NewCallsTyped, FormsTyped, ShownTyped, StreamTyped DEF TheTaskConsole!HearMutation, TheTaskConsole!Invalidated
<1>13. ASSUME NEW c \in Calls, TheTaskConsole!HearCreate(c) PROVE ScreenTyped'
  <2>1. consoleCall[c].kind = "create" /\ consoleCall[c].at = "answered"
    BY <1>13 DEF TheTaskConsole!HearCreate
  <2>2. CASE consoleCall[c].answer = "error"
    BY <1>0, <1>13, <2>1, <2>2 DEF TheTaskConsole!HearCreate, TheTaskConsole!Panel
  <2>3. consoleCall[c].answer # "error" => consoleCall[c].task \in Tasks
    BY <2>1
  <2>4. CASE consoleCall[c].answer # "error" /\ TheTaskConsole!Leave(consoleCall[c].task)
    BY <1>0, <2>3, <2>4, LeaveTypes
  <2>5. CASE consoleCall[c].answer # "error" /\ screen = "form" /\ ~ TheTaskConsole!Leave(consoleCall[c].task)
    <3>1. /\ UNCHANGED <<screen, consoleForm, current, consoleCache, stream, said, cut>>
          /\ toast' = [undo |-> consoleCall[c].task, visit |-> toast.visit \cup {consoleCall[c].task}]
      BY <1>13, <2>1, <2>5 DEF TheTaskConsole!HearCreate, TheTaskConsole!Panel
    <3>2. toast' \in ConsoleToast
      BY <1>0, <2>3, <2>5, <3>1, ShownTyped
    <3> QED
      BY <1>0, <3>1, <3>2
  <2>6. CASE consoleCall[c].answer # "error" /\ screen # "form" /\ ~ TheTaskConsole!Leave(consoleCall[c].task)
    <3>1. /\ UNCHANGED <<screen, consoleForm, consoleCache, toast, said, cut>>
          /\ current' = consoleCall[c].task
          /\ \/ stream' = stream
             \/ stream' = [stream EXCEPT !.of = consoleCall[c].task, !.on = TRUE, !.done = FALSE]
      BY <1>13, <2>1, <2>6 DEF TheTaskConsole!HearCreate, TheTaskConsole!Panel
    <3>2. stream' \in ConsoleStream
      <4>1. \A m \in ConsoleStream, t \in Tasks :
               [m EXCEPT !.of = t, !.on = TRUE, !.done = FALSE] \in ConsoleStream
        BY StreamTyped
      <4>2. stream \in ConsoleStream /\ consoleCall[c].task \in Tasks
        BY <1>0, <2>3, <2>6
      <4> QED
        BY ONLY <3>1, <4>1, <4>2
    <3> QED
      BY <1>0, <2>3, <2>6, <3>1, <3>2
  <2> QED
    BY <2>2, <2>4, <2>5, <2>6
<1>14. ASSUME NEW t \in Tasks, TheTaskConsole!TaskRuns(t) PROVE ScreenTyped'
  BY <1>0, <1>14, NewCallsTyped, FormsTyped, ShownTyped, StreamTyped DEF TheTaskConsole!TaskRuns
<1>15. ASSUME NEW t \in Tasks, TheTaskConsole!Visit(t) PROVE ScreenTyped'
  <2>1. TheTaskConsole!Leave(t)
    BY <1>15 DEF TheTaskConsole!Visit
  <2> QED
    BY <1>0, <2>1, LeaveTypes
<1>16. ASSUME NEW a \in Agents, TheTaskConsole!SelectAgent(a) PROVE ScreenTyped'
  BY <1>0, <1>16, NewCallsTyped, FormsTyped, ShownTyped, StreamTyped DEF TheTaskConsole!SelectAgent
<1>17. CASE TheTaskConsole!ClearAgent
  BY <1>0, <1>17, NewCallsTyped, FormsTyped, ShownTyped, StreamTyped DEF TheTaskConsole!ClearAgent
<1>18. CASE TheTaskConsole!AgentLoads
  <2>1. /\ UNCHANGED <<screen, current, consoleCache, stream, toast, said, cut>>
        /\ \E s \in TheTaskConsole!AllSkills : consoleForm' = [consoleForm EXCEPT !.loaded = TRUE, !.skill = s]
    BY <1>18 DEF TheTaskConsole!AgentLoads
  <2>2. consoleForm' \in ConsoleForm
    <3>1. PICK s \in TheTaskConsole!AllSkills : consoleForm' = [consoleForm EXCEPT !.loaded = TRUE, !.skill = s]
      BY <2>1
    <3>2. \A m \in ConsoleForm : [m EXCEPT !.loaded = TRUE, !.skill = s] \in ConsoleForm
      BY <3>1, FormsTyped
    <3>3. consoleForm \in ConsoleForm
      BY <1>0
    <3> QED
      BY ONLY <3>1, <3>2, <3>3
  <2> QED
    BY <1>0, <2>1, <2>2
<1>19. CASE TheTaskConsole!SelectSkill
  <2>1. /\ UNCHANGED <<screen, current, consoleCache, stream, toast, said, cut>>
        /\ \E s \in Skills[consoleForm.agent] : consoleForm' = [consoleForm EXCEPT !.skill = s]
        /\ consoleForm.loaded
    BY <1>19 DEF TheTaskConsole!SelectSkill
  <2>2. consoleForm.agent \in Agents
    BY <1>0, <2>1, FormsTyped
  <2>3. consoleForm' \in ConsoleForm
    <3>1. PICK s \in Skills[consoleForm.agent] : consoleForm' = [consoleForm EXCEPT !.skill = s]
      BY <2>1
    <3>2. consoleForm \in ConsoleForm /\ s \in TheTaskConsole!AllSkills
      BY <1>0, <2>2, FormsTyped
    <3>3. \A m \in ConsoleForm : [m EXCEPT !.skill = s] \in ConsoleForm
      BY <3>2, FormsTyped
    <3> QED
      BY ONLY <3>1, <3>2, <3>3
  <2> QED
    BY <1>0, <2>1, <2>3
<1>20. CASE TheTaskConsole!Chunk
  BY <1>0, <1>20, NewCallsTyped, FormsTyped, ShownTyped, StreamTyped DEF TheTaskConsole!Chunk
<1>21. CASE TheTaskConsole!StreamEnds
  BY <1>0, <1>21, NewCallsTyped, FormsTyped, ShownTyped, StreamTyped DEF TheTaskConsole!StreamEnds
<1> QED
  BY <1>1, <1>2, <1>3, <1>4, <1>5, <1>6, <1>7, <1>8, <1>9, <1>10, <1>11, <1>12, <1>13, <1>14, <1>15, <1>16, <1>17, <1>18, <1>19, <1>20, <1>21 DEF TheTaskConsole!Next, TheTaskConsole!Network

LEMMA CountTypes ==
    ASSUME TheTaskConsole!ConsoleAssumption, TheTaskConsole!TypeOK, CallsFit, ScreenFits, StreamFits, TheTaskConsole!Next
    PROVE  CountsTyped'
<1> USE DEF TheTaskConsole!SetCall, TheTaskConsole!server, TheTaskConsole!client, TheTaskConsole!Idle, CountsTyped
<1>0. ServerTyped /\ CallsTyped /\ ScreenTyped /\ CountsTyped
  BY TypedIsTyped
<1>1. ASSUME NEW c \in Calls, NEW t \in Tasks, TheTaskConsole!Serve(c, t) PROVE CountsTyped'
  <2>1. consoleCall[c].at = "sent" /\ TheTaskConsole!Effect(c, t)
    BY <1>1 DEF TheTaskConsole!Serve
  <2>2. /\ task' \in [Tasks -> TheTaskConsole!Statuses]
        /\ \A u \in Tasks : task[u] \in TheTaskConsole!Ended => task'[u] = task[u]
        /\ \A u \in Tasks : madeFor'[u] \in {madeFor[u], consoleCall[c].with}
        /\ consoleCall[c].kind \in {"get", "cancel", "confirm"} => t = consoleCall[c].task
        /\ consoleCall[c].kind = "cancel" => task'[t] \in TheTaskConsole!Ended
    BY <2>1, EffectIs
  <2>3. /\ \A x \in Calls \ {c} : consoleCall'[x] = consoleCall[x]
        /\ ~ consoleCall[c].heard => consoleCall'[c] = TheTaskConsole!NoCall
        /\ consoleCall[c].heard =>
              /\ consoleCall'[c].kind = consoleCall[c].kind /\ consoleCall'[c].with = consoleCall[c].with
              /\ consoleCall'[c].task = t /\ consoleCall'[c].at = "answered" /\ consoleCall'[c].heard
              /\ consoleCall'[c].answer \in {"error", task'[t]}
    BY <1>1, <2>2, ServeIs
  <2>4. /\ consoleForm' = consoleForm /\ consoleCache' = consoleCache /\ said' = said /\ cut' = cut
        /\ consoleFaults' = consoleFaults
    BY <1>1 DEF TheTaskConsole!Serve
  <2>5. consoleCall' \in [Calls -> ConsoleCall] /\ madeFor' \in [Tasks -> ConsoleSelection]
    BY <1>1, <2>1, <2>2, ServeIs, EffectIs
  <2>6. UNCHANGED <<screen, consoleForm, current, consoleCache, stream, toast, said, cut,
                    consoleClicks, consoleFaults>>
    BY <1>1 DEF TheTaskConsole!Serve
  <2> QED
    BY <1>0, <2>2, <2>4, <2>5, <2>6 DEF CountsTyped
<1>2. ASSUME NEW c \in Calls, TheTaskConsole!LoseAnswer(c) PROVE CountsTyped'
  <2>1. consoleCall[c].at = "sent" /\ consoleFaults' = consoleFaults + 1
    BY <1>2 DEF TheTaskConsole!LoseAnswer, TheTaskConsole!Fault
  <2>2. UNCHANGED TheTaskConsole!server \/ \E t \in Tasks : TheTaskConsole!Effect(c, t)
    BY <1>2 DEF TheTaskConsole!LoseAnswer
  <2>3. /\ \A u \in Tasks : task[u] \in TheTaskConsole!Ended => task'[u] = task[u]
        /\ \A u \in Tasks : madeFor'[u] \in {madeFor[u], consoleCall[c].with}
    BY <2>1, <2>2, EffectIs
  <2>4. /\ \A x \in Calls \ {c} : consoleCall'[x] = consoleCall[x]
        /\ ~ consoleCall[c].heard => consoleCall'[c] = TheTaskConsole!NoCall
        /\ consoleCall[c].heard =>
              /\ consoleCall'[c].kind = consoleCall[c].kind /\ consoleCall'[c].with = consoleCall[c].with
              /\ consoleCall'[c].task = consoleCall[c].task /\ consoleCall'[c].heard
              /\ \/ consoleCall'[c].at = "sent"
                 \/ consoleCall'[c].at = "answered" /\ consoleCall'[c].answer = "error"
    BY <1>2, LoseIs
  <2>5. consoleForm' = consoleForm /\ consoleCache' = consoleCache
    BY <1>2 DEF TheTaskConsole!LoseAnswer
  <2>6. consoleCall' \in [Calls -> ConsoleCall]
    BY <1>2, LoseIs
  <2>7. task' \in [Tasks -> TheTaskConsole!Statuses] /\ madeFor' \in [Tasks -> ConsoleSelection]
    <3>1. CASE UNCHANGED TheTaskConsole!server
      BY <1>0, <3>1 DEF ServerTyped
    <3>2. CASE \E t \in Tasks : TheTaskConsole!Effect(c, t)
      BY <2>1, <3>2, EffectIs
    <3> QED
      BY <2>2, <3>1, <3>2
  <2>8. /\ UNCHANGED <<screen, consoleForm, current, consoleCache, stream, toast, said, cut, consoleClicks>>
        /\ TheTaskConsole!Fault
    BY <1>2 DEF TheTaskConsole!LoseAnswer
  <2>9. consoleFaults' \in 0 .. MaxFaults
    BY <1>0, <2>8, ConsoleCounts
  <2> QED
    BY <1>0, <2>6, <2>7, <2>8, <2>9 DEF CountsTyped
<1>3. ASSUME NEW c \in Calls, TheTaskConsole!Aborted(c) PROVE CountsTyped'
  BY <1>0, <1>3, ConsoleCounts DEF TheTaskConsole!Aborted, TheTaskConsole!Idle
<1>4. ASSUME NEW c \in Calls, TheTaskConsole!Submit(c) PROVE CountsTyped'
  BY <1>0, <1>4, ConsoleCounts DEF TheTaskConsole!Submit, TheTaskConsole!Idle
<1>5. ASSUME NEW c \in Calls, TheTaskConsole!Undo(c) PROVE CountsTyped'
  BY <1>0, <1>5, ConsoleCounts DEF TheTaskConsole!Undo, TheTaskConsole!Idle
<1>6. ASSUME NEW c \in Calls, TheTaskConsole!Poll(c) PROVE CountsTyped'
  BY <1>0, <1>6, ConsoleCounts DEF TheTaskConsole!Poll, TheTaskConsole!Idle
<1>7. ASSUME NEW c \in Calls, TheTaskConsole!Reconnect(c) PROVE CountsTyped'
  BY <1>0, <1>7, ConsoleCounts DEF TheTaskConsole!Reconnect, TheTaskConsole!Idle
<1>8. ASSUME NEW c \in Calls, TheTaskConsole!CancelTask(c) PROVE CountsTyped'
  BY <1>0, <1>8, ConsoleCounts DEF TheTaskConsole!CancelTask, TheTaskConsole!Idle, TheTaskConsole!Offers
<1>9. ASSUME NEW c \in Calls, TheTaskConsole!ConfirmTask(c) PROVE CountsTyped'
  BY <1>0, <1>9, ConsoleCounts DEF TheTaskConsole!ConfirmTask, TheTaskConsole!Idle, TheTaskConsole!Offers
<1>10. ASSUME NEW c \in Calls, TheTaskConsole!Try(c) PROVE CountsTyped'
  BY <1>0, <1>10, ConsoleCounts DEF TheTaskConsole!Try, TheTaskConsole!Idle
<1>11. ASSUME NEW c \in Calls, TheTaskConsole!HearGet(c) PROVE CountsTyped'
  BY <1>0, <1>11, ConsoleCounts DEF TheTaskConsole!HearGet
<1>12. ASSUME NEW c \in Calls, TheTaskConsole!HearMutation(c) PROVE CountsTyped'
  BY <1>0, <1>12, ConsoleCounts DEF TheTaskConsole!HearMutation, TheTaskConsole!Invalidated
<1>13. ASSUME NEW c \in Calls, TheTaskConsole!HearCreate(c) PROVE CountsTyped'
  BY <1>0, <1>13, ConsoleCounts DEF TheTaskConsole!HearCreate, TheTaskConsole!Leave, TheTaskConsole!Panel
<1>14. ASSUME NEW t \in Tasks, TheTaskConsole!TaskRuns(t) PROVE CountsTyped'
  BY <1>0, <1>14, ConsoleCounts DEF TheTaskConsole!TaskRuns
<1>15. ASSUME NEW t \in Tasks, TheTaskConsole!Visit(t) PROVE CountsTyped'
  BY <1>0, <1>15, ConsoleCounts DEF TheTaskConsole!Visit, TheTaskConsole!Leave
<1>16. ASSUME NEW a \in Agents, TheTaskConsole!SelectAgent(a) PROVE CountsTyped'
  BY <1>0, <1>16, ConsoleCounts DEF TheTaskConsole!SelectAgent
<1>17. CASE TheTaskConsole!ClearAgent
  BY <1>0, <1>17, ConsoleCounts DEF TheTaskConsole!ClearAgent
<1>18. CASE TheTaskConsole!AgentLoads
  BY <1>0, <1>18, ConsoleCounts DEF TheTaskConsole!AgentLoads
<1>19. CASE TheTaskConsole!SelectSkill
  BY <1>0, <1>19, ConsoleCounts DEF TheTaskConsole!SelectSkill
<1>20. CASE TheTaskConsole!Chunk
  BY <1>0, <1>20, ConsoleCounts DEF TheTaskConsole!Chunk
<1>21. CASE TheTaskConsole!StreamEnds
  BY <1>0, <1>21, ConsoleCounts DEF TheTaskConsole!StreamEnds
<1> QED
  BY <1>1, <1>2, <1>3, <1>4, <1>5, <1>6, <1>7, <1>8, <1>9, <1>10, <1>11, <1>12, <1>13, <1>14, <1>15, <1>16, <1>17, <1>18, <1>19, <1>20, <1>21 DEF TheTaskConsole!Next, TheTaskConsole!Network

LEMMA InitConsole ==
    ASSUME TheTaskConsole!ConsoleAssumption, TheTaskConsole!Init PROVE ConsoleInv
<1> USE DEF TheTaskConsole!Init, TheTaskConsole!NoStream, TheTaskConsole!NoToast
<1>1. \A c \in Calls : consoleCall[c] = TheTaskConsole!NoCall
  OBVIOUS
<1>2. \A t \in Tasks : consoleCache[t].status = "none" /\ madeFor[t] = TheTaskConsole!Nothing
  BY DEF TheTaskConsole!NoCache
<1>3. \/ consoleForm = TheTaskConsole!NoForm
      \/ consoleForm = [agent |-> Link.agent, skill |-> Link.skill, loaded |-> FALSE]
  OBVIOUS
<1>4. TheTaskConsole!TypeOK
  <2>1. consoleForm \in ConsoleForm
    <3>1. CASE consoleForm = TheTaskConsole!NoForm
      BY <3>1, FormsTyped
    <3>2. CASE consoleForm = [agent |-> Link.agent, skill |-> Link.skill, loaded |-> FALSE]
      <4>1. Link.agent \in Agents \cup {NoName} /\ Link.skill \in TheTaskConsole!AllSkills
        BY DEF TheTaskConsole!AllSkills, TheTaskConsole!ConsoleAssumption
      <4> QED
        BY <3>2, <4>1 DEF ConsoleForm
    <3> QED
      BY <1>3, <3>1, <3>2
  <2>2. CallsTyped
    BY NewCallsTyped DEF CallsTyped
  <2>3. ServerTyped
    <3>1. TheTaskConsole!Nothing \in ConsoleSelection
      BY DEF TheTaskConsole!Nothing, ConsoleSelection, TheTaskConsole!AllSkills
    <3> QED
      BY <3>1 DEF ServerTyped, TheTaskConsole!Statuses
  <2>4. CountsTyped
    BY DEF CountsTyped, TheTaskConsole!ConsoleAssumption
  <2>5. screen \in {"form", "page", "polled", "streamed"} /\ current \in Tasks \cup {NoName}
    OBVIOUS
  <2>6. ScreenTyped
    BY <2>1, <2>5, ShownTyped, StreamTyped DEF ScreenTyped
  <2> QED
    BY <2>2, <2>3, <2>4, <2>6, TypedIsTyped
<1>5. CallsFit /\ ScreenFits
  BY <1>1, <1>3 DEF CallsFit, CallFits, ScreenFits, TheTaskConsole!NoCall, TheTaskConsole!NoForm
<1>6. SkillsFit
  <2>1. TheTaskConsole!ConsoleAssumption
    OBVIOUS
  <2>2. Fits(TheTaskConsole!Nothing)
    BY DEF Fits, TheTaskConsole!Nothing
  <2>3. Fits([agent |-> Link.agent, skill |-> Link.skill])
    BY <2>1 DEF Fits, TheTaskConsole!ConsoleAssumption
  <2>4. consoleForm.skill # NoName => Fits([agent |-> consoleForm.agent, skill |-> consoleForm.skill])
    BY <1>3, <2>3 DEF TheTaskConsole!NoForm
  <2> QED
    BY <1>1, <1>2, <2>2, <2>4 DEF SkillsFit, TheTaskConsole!NoCall
<1>7. StreamFits
  BY DEF StreamFits
<1>8. OneGet
  BY <1>1, <1>2 DEF OneGet, TheTaskConsole!Gets, TheTaskConsole!NoCall, TheTaskConsole!Ended
<1>9. CancelsAreDone
  BY <1>1 DEF CancelsAreDone, TheTaskConsole!SaidIsSo, TheTaskConsole!NoCall
<1> QED
  BY <1>4, <1>5, <1>6, <1>7, <1>8, <1>9 DEF ConsoleInv

LEMMA NextKeepsConsole ==
    ASSUME TheTaskConsole!ConsoleAssumption, ConsoleInv, TheTaskConsole!Next \/ UNCHANGED consoleVars
    PROVE  ConsoleInv'
<1>1. CASE TheTaskConsole!Next
  <2>1. /\ TheTaskConsole!TypeOK /\ CallsFit /\ ScreenFits /\ SkillsFit /\ StreamFits
        /\ OneGet /\ CancelsAreDone
    BY DEF ConsoleInv
  <2>2. TheTaskConsole!TypeOK'
    BY <1>1, <2>1, ServerTypes, CallTypes, ScreenTypes, CountTypes, TypedIsTyped
  <2> QED
    BY <1>1, <2>1, <2>2, ConsoleCalls, ConsoleScreens, ConsoleStreams, ConsoleSkills, ConsoleGets,
       ConsoleCancels DEF ConsoleInv
<1>2. CASE UNCHANGED consoleVars
  <2> USE <1>2 DEF consoleVars, ConsoleInv
  <2>1. TheTaskConsole!TypeOK'
    BY DEF TheTaskConsole!TypeOK
  <2>2. CallsFit' /\ ScreenFits' /\ SkillsFit' /\ StreamFits'
    BY DEF CallsFit, ScreenFits, SkillsFit, StreamFits
  <2>3. OneGet'
    BY DEF OneGet, TheTaskConsole!Gets
  <2>4. CancelsAreDone'
    BY DEF CancelsAreDone, TheTaskConsole!SaidIsSo
  <2> QED
    BY <2>1, <2>2, <2>3, <2>4
<1> QED
  BY <1>1, <1>2

LEMMA ConsoleShows ==
    ASSUME ConsoleInv
    PROVE  TheTaskConsole!DoneIsOfTask /\ TheTaskConsole!CreatedAsSelected /\ TheTaskConsole!SaidIsSo
<1>1. TheTaskConsole!DoneIsOfTask
  BY DEF ConsoleInv, StreamFits, TheTaskConsole!DoneIsOfTask
<1>2. TheTaskConsole!CreatedAsSelected
  BY DEF ConsoleInv, SkillsFit, Fits, TheTaskConsole!CreatedAsSelected
<1>3. TheTaskConsole!SaidIsSo
  <2>1. CASE consoleFaults = 0
    BY <2>1 DEF ConsoleInv, CancelsAreDone
  <2>2. CASE consoleFaults > 0
    BY <2>2 DEF TheTaskConsole!SaidIsSo
  <2> QED
    BY <2>1, <2>2 DEF ConsoleInv, TheTaskConsole!TypeOK
<1> QED
  BY <1>1, <1>2, <1>3

(* An answer that comes in on a task that has ended on the screen tells    *)
(* the same end, or that it was lost.                                      *)
LEMMA EndIsKeptOnScreen ==
    ASSUME TheTaskConsole!ConsoleAssumption, ConsoleInv, TheTaskConsole!Next
    PROVE  TheTaskConsole!EndIsKept
<1> SUFFICES ASSUME NEW t \in Tasks, consoleCache[t].status \in TheTaskConsole!Ended, current' = current
             PROVE  consoleCache'[t].status = consoleCache[t].status
  BY DEF TheTaskConsole!EndIsKept
<1>1. CASE consoleCache' = consoleCache
  BY <1>1
<1>2. ASSUME NEW c \in Calls, TheTaskConsole!HearGet(c)
      PROVE  consoleCache'[t].status = consoleCache[t].status
  <2>1. consoleCache \in [Tasks -> ConsoleShown]
    BY TypedIsTyped DEF ConsoleInv, ScreenTyped
  <2>2. CASE consoleCall[c].task # t
    BY <1>2, <2>1, <2>2 DEF TheTaskConsole!HearGet
  <2>3. CASE consoleCall[c].task = t
    <3>1. TheTaskConsole!Gets(c, t) /\ consoleCall[c].at = "answered"
      BY <1>2, <2>3 DEF TheTaskConsole!HearGet, TheTaskConsole!Gets, ConsoleInv, CallsFit, CallFits
    <3>2. consoleCall[c].answer \in {"error", consoleCache[t].status}
      BY <3>1 DEF ConsoleInv, OneGet
    <3>3. /\ consoleCall[c].answer = "error" => consoleCache' = [consoleCache EXCEPT ![t].failed = TRUE]
          /\ consoleCall[c].answer # "error" =>
                consoleCache' = [consoleCache EXCEPT ![t] = [status |-> consoleCall[c].answer, failed |-> FALSE]]
      BY <1>2, <2>3 DEF TheTaskConsole!HearGet
    <3>4. CASE consoleCall[c].answer = "error"
      <4>1. consoleCache' = [consoleCache EXCEPT ![t].failed = TRUE]
        BY <3>3, <3>4
      <4>2. consoleCache[t] \in ConsoleShown
        BY <2>1
      <4> QED
        BY <2>1, <4>1, <4>2 DEF ConsoleShown
    <3>5. CASE consoleCall[c].answer # "error"
      <4>1. consoleCache' = [consoleCache EXCEPT ![t] = [status |-> consoleCall[c].answer, failed |-> FALSE]]
        BY <3>3, <3>5
      <4>2. consoleCall[c].answer = consoleCache[t].status
        BY <3>2, <3>5
      <4> QED
        BY <2>1, <4>1, <4>2
    <3> QED
      BY <3>4, <3>5
  <2> QED
    BY <2>2, <2>3
<1>4. ASSUME NEW u \in Tasks, TheTaskConsole!Leave(u), screen = "form" PROVE FALSE
  BY <1>4 DEF TheTaskConsole!Leave, ConsoleInv, ScreenFits, TheTaskConsole!ConsoleAssumption
<1>5. ASSUME NEW u \in Tasks, TheTaskConsole!Visit(u) PROVE FALSE
  BY <1>4, <1>5 DEF TheTaskConsole!Visit, ConsoleInv, ScreenFits
<1>6. ASSUME NEW c \in Calls, TheTaskConsole!HearCreate(c)
      PROVE  consoleCache' = consoleCache
  <2>1. CASE consoleCall[c].answer = "error"
    BY <1>6, <2>1 DEF TheTaskConsole!HearCreate, TheTaskConsole!client
  <2>2. CASE consoleCall[c].answer # "error"
    <3>1. consoleCall[c].task \in Tasks
      BY <1>6, <2>2 DEF TheTaskConsole!HearCreate, ConsoleInv, CallsFit, CallFits
    <3> QED
      BY <1>4, <1>6, <2>2, <3>1 DEF TheTaskConsole!HearCreate
  <2> QED
    BY <2>1, <2>2
<1>7. ASSUME ~ \E c \in Calls : TheTaskConsole!HearGet(c) \/ TheTaskConsole!HearCreate(c),
             ~ \E u \in Tasks : TheTaskConsole!Visit(u)
      PROVE  consoleCache' = consoleCache
  BY <1>7 DEF TheTaskConsole!Next, TheTaskConsole!Network, TheTaskConsole!client, TheTaskConsole!Serve,
         TheTaskConsole!HearMutation, TheTaskConsole!LoseAnswer, TheTaskConsole!Aborted,
         TheTaskConsole!Submit, TheTaskConsole!Undo, TheTaskConsole!Poll, TheTaskConsole!Reconnect,
         TheTaskConsole!CancelTask, TheTaskConsole!ConfirmTask, TheTaskConsole!Try,
         TheTaskConsole!TaskRuns, TheTaskConsole!SelectAgent, TheTaskConsole!ClearAgent,
         TheTaskConsole!AgentLoads, TheTaskConsole!SelectSkill, TheTaskConsole!Chunk,
         TheTaskConsole!StreamEnds
<1> QED
  BY <1>1, <1>2, <1>5, <1>6, <1>7

-----------------------------------------------------------------------------
(***************************************************************************)
(* The properties of the client: each section rests when it is not the one *)
(* that is open.                                                           *)
(***************************************************************************)

LEMMA OpenSections ==
    /\ Init =>
          /\ section = "box" => TheMagicBox!Init
          /\ section = "wizard" => TheChannelWizard!Init
          /\ section = "forms" => TheAgentForms!Init
          /\ section = "editor" => TheEditor!Init
          /\ section = "console" => TheTaskConsole!Init
          /\ section = "planner" => ThePlanner!Init
          /\ section = "feed" => TheActivityFeed!Init
          /\ section = "submissions" => TheSubmissions!Init
          /\ section = "channels" => TheChannelPages!Init
          /\ section = "admin" => TheAdminTables!Init
          /\ section = "servers" => TheToolServers!Init
          /\ section = "directory" => TheDirectory!Init
    /\ [Next]_vars =>
          /\ section' = section
          /\ section = "box" => TheMagicBox!Next \/ UNCHANGED boxVars
          /\ section = "wizard" => TheChannelWizard!Next \/ UNCHANGED wizardVars
          /\ section = "forms" => TheAgentForms!Next \/ UNCHANGED formsVars
          /\ section = "editor" => TheEditor!Next \/ UNCHANGED editorVars
          /\ section = "console" => TheTaskConsole!Next \/ UNCHANGED consoleVars
          /\ section = "planner" => ThePlanner!Next \/ UNCHANGED plannerVars
          /\ section = "feed" => TheActivityFeed!Next \/ UNCHANGED feedVars
          /\ section = "submissions" => TheSubmissions!Next \/ UNCHANGED submissionsVars
          /\ section = "channels" => TheChannelPages!Next \/ UNCHANGED channelsVars
          /\ section = "admin" => TheAdminTables!Next \/ UNCHANGED adminVars
          /\ section = "servers" => TheToolServers!Next \/ UNCHANGED serversVars
          /\ section = "directory" => TheDirectory!Next \/ UNCHANGED directoryVars
    /\ Next =>
          /\ section = "editor" => TheEditor!Next
          /\ section = "console" => TheTaskConsole!Next
          /\ section = "planner" => ThePlanner!Next
<1>1. ASSUME Init
      PROVE  /\ section = "box" => TheMagicBox!Init
             /\ section = "wizard" => TheChannelWizard!Init
             /\ section = "forms" => TheAgentForms!Init
             /\ section = "editor" => TheEditor!Init
             /\ section = "console" => TheTaskConsole!Init
             /\ section = "planner" => ThePlanner!Init
             /\ section = "feed" => TheActivityFeed!Init
             /\ section = "submissions" => TheSubmissions!Init
             /\ section = "channels" => TheChannelPages!Init
             /\ section = "admin" => TheAdminTables!Init
             /\ section = "servers" => TheToolServers!Init
             /\ section = "directory" => TheDirectory!Init
  BY <1>1 DEF Init
<1>2. ASSUME Next
      PROVE  /\ section' = section
             /\ section = "box" => TheMagicBox!Next
             /\ section = "wizard" => TheChannelWizard!Next
             /\ section = "forms" => TheAgentForms!Next
             /\ section = "editor" => TheEditor!Next
             /\ section = "console" => TheTaskConsole!Next
             /\ section = "planner" => ThePlanner!Next
             /\ section = "feed" => TheActivityFeed!Next
             /\ section = "submissions" => TheSubmissions!Next
             /\ section = "channels" => TheChannelPages!Next
             /\ section = "admin" => TheAdminTables!Next
             /\ section = "servers" => TheToolServers!Next
             /\ section = "directory" => TheDirectory!Next
  BY <1>2 DEF Next
<1>3. ASSUME UNCHANGED vars
      PROVE  /\ section' = section
             /\ UNCHANGED boxVars
             /\ UNCHANGED wizardVars
             /\ UNCHANGED formsVars
             /\ UNCHANGED editorVars
             /\ UNCHANGED consoleVars
             /\ UNCHANGED plannerVars
             /\ UNCHANGED feedVars
             /\ UNCHANGED submissionsVars
             /\ UNCHANGED channelsVars
             /\ UNCHANGED adminVars
             /\ UNCHANGED serversVars
             /\ UNCHANGED directoryVars
  BY <1>3 DEF vars
<1> QED
  BY <1>1, <1>2, <1>3

(* Of answers that come in any order, the one used is the one to what was  *)
(* asked (handleSuggest, handleVerify, handleRegister, useRunCrew,         *)
(* useTaskStream and useCreateTask with the components they serve).        *)
THEOREM AnswersFitTheorem == Spec => []AnswersFit
<1> DEFINE Inv == /\ section = "box" => BoxInv
                  /\ section = "wizard" => WizardInv
                  /\ section = "forms" => FormsInv
                  /\ section = "editor" => ReportInv
                  /\ section = "console" => ConsoleInv
<1>1. Init => Inv
  BY OpenSections, MagicBoxBounds, InitBox, ChannelWizardBounds, InitWizard, AgentFormsBounds, InitForms,
     InitReport, TaskConsoleBounds, InitConsole
<1>2. ASSUME Inv, [Next]_vars PROVE Inv'
  <2>1. section' = section
    BY <1>2, OpenSections
  <2>2. CASE section = "box"
    BY <1>2, <2>1, <2>2, OpenSections, MagicBoxBounds, NextKeepsBox
  <2>3. CASE section = "wizard"
    BY <1>2, <2>1, <2>3, OpenSections, ChannelWizardBounds, NextKeepsWizard
  <2>4. CASE section = "forms"
    BY <1>2, <2>1, <2>4, OpenSections, AgentFormsBounds, NextKeepsForms
  <2>5. CASE section = "editor"
    BY <1>2, <2>1, <2>5, OpenSections, NextKeepsReport
  <2>6. CASE section = "console"
    BY <1>2, <2>1, <2>6, OpenSections, TaskConsoleBounds, NextKeepsConsole
  <2>7. CASE section \notin {"box", "wizard", "forms", "editor", "console"}
    BY <2>1, <2>7
  <2> QED
    BY <2>2, <2>3, <2>4, <2>5, <2>6, <2>7
<1>3. Inv => AnswersFit
  BY ChannelWizardBounds, WizardShows, FormsShow, ConsoleShows DEF BoxInv, ReportInv, AnswersFit
<1> HIDE DEF Inv
<1> QED
  BY <1>1, <1>2, <1>3, PTL DEF Spec

-----------------------------------------------------------------------------
(***************************************************************************)
(* The pages of channels.                                                  *)
(***************************************************************************)

PagesEntry == [status : {"active", "paused", "gone"}, limit : DailyLimits]
PagesChannels == [Channels -> PagesEntry]
PagesPeople == [Contacts -> {"active", "blocked", "gone"}]
PagesCopy == [known : BOOLEAN, get : BOOLEAN, is : PagesChannels]
PagesTable == [known : BOOLEAN, get : BOOLEAN, is : PagesPeople]
PagesForm == [started : BOOLEAN, open : BOOLEAN, limit : DailyLimits]
PagesToggle == [at : {"none", "sent", "done", "refused"}, of : Channels \cup {NoName},
                to : {"active", "paused", "gone", "none"}]
PagesChange == [at : {"none", "sent", "done", "refused"}, of : Channels \cup Contacts \cup {NoName},
                limit : DailyLimits \cup {0}]

ChannelsSaved == saved \in PagesChannels /\ people \in PagesPeople
ChannelsShown == channelsCopy \in PagesCopy /\ table \in PagesTable
ChannelsForm == channelsForm \in PagesForm
ChannelsToggles ==
    /\ toggle \in [Toggles -> PagesToggle] /\ channelsToggling \in Channels \cup {NoName}
    /\ \A t \in Toggles : toggle[t].at = "sent" => toggle[t].to \in {"active", "paused"}
ChannelsChanges == channelsChange \in [TheChannelPages!Kinds -> PagesChange]
ChannelsRest ==
    /\ channelsView \in {"tab", "detail", "admin", "left"} /\ route \in [linked : BOOLEAN, owner : BOOLEAN]
    /\ channelsTarget \in Channels \cup Contacts \cup {NoName}
    /\ gate \in [messages : BOOLEAN, asks : BOOLEAN, justified : BOOLEAN]
    /\ channelsPast \subseteq {"elsewhere"}
ChannelsCounts == channelsClicks \in 0 .. MaxClicks["channels"] /\ channelsFaults \in 0 .. MaxFaults

ChannelsTyped == /\ ChannelsSaved /\ ChannelsShown /\ ChannelsForm /\ ChannelsToggles /\ ChannelsChanges
                 /\ ChannelsRest /\ ChannelsCounts

LEMMA ChannelsAreTyped == ChannelsTyped => TheChannelPages!TypeOK
  BY DEF ChannelsTyped, ChannelsSaved, ChannelsShown, ChannelsForm, ChannelsToggles, ChannelsChanges, ChannelsRest,
         ChannelsCounts, PagesEntry, PagesChannels, PagesPeople, PagesCopy, PagesTable, PagesForm, PagesToggle,
         PagesChange, TheChannelPages!TypeOK, TheChannelPages!Status

LEMMA ChannelsNumbers ==
    ASSUME TheChannelPages!PagesAssumption
    PROVE  /\ ChannelsCounts /\ (TheChannelPages!Click \/ UNCHANGED channelsClicks)
                /\ (TheChannelPages!Fault \/ UNCHANGED channelsFaults) => ChannelsCounts'
           /\ 0 \in 0 .. MaxClicks["channels"] /\ 0 \in 0 .. MaxFaults
  BY DEF TheChannelPages!PagesAssumption, TheChannelPages!Click, TheChannelPages!Fault, ChannelsCounts

LEMMA ChannelsStartTyped == ASSUME TheChannelPages!PagesAssumption, TheChannelPages!Init PROVE ChannelsTyped
<1>1. PICK n \in DailyLimits \ {0} : saved = [c \in Channels |-> [status |-> "active", limit |-> n]]
  BY DEF TheChannelPages!Init
<1>2. ChannelsSaved /\ saved \in PagesChannels /\ people \in PagesPeople
  BY <1>1 DEF TheChannelPages!Init, ChannelsSaved, PagesChannels, PagesEntry, PagesPeople
<1>3. ChannelsShown
  <2>1. channelsView \in {"tab", "detail", "admin"} /\ route \in [linked : BOOLEAN, owner : BOOLEAN]
    BY DEF TheChannelPages!Init
  <2>2. (channelsView # "tab" /\ route.linked) \in BOOLEAN
    BY <2>1
  <2> QED
    BY <1>2, <2>2 DEF TheChannelPages!Init, ChannelsShown, PagesCopy, PagesTable
<1>4. ChannelsForm
  <2>1. (CHOOSE m \in DailyLimits : TRUE) \in DailyLimits
    BY <1>1
  <2> QED
    BY <2>1 DEF TheChannelPages!Init, ChannelsForm, PagesForm
<1>5. ChannelsToggles /\ ChannelsChanges
  BY DEF TheChannelPages!Init, ChannelsToggles, ChannelsChanges, PagesToggle, PagesChange, TheChannelPages!NoToggle,
         TheChannelPages!Idle
<1>6. ChannelsRest
  BY DEF TheChannelPages!Init, ChannelsRest
<1>7. ChannelsCounts
  BY ChannelsNumbers DEF TheChannelPages!Init, ChannelsCounts
<1> QED
  BY <1>2, <1>3, <1>4, <1>5, <1>6, <1>7 DEF ChannelsTyped

LEMMA PagesShownMove ==
    ASSUME ChannelsShown
    PROVE  /\ \A b \in BOOLEAN : [channelsCopy EXCEPT !.get = b] \in PagesCopy /\ [table EXCEPT !.get = b] \in PagesTable
           /\ TheChannelPages!Refetch /\ ChannelsRest => ChannelsShown'
<1>1. \A b \in BOOLEAN : [channelsCopy EXCEPT !.get = b] \in PagesCopy /\ [table EXCEPT !.get = b] \in PagesTable
  BY DEF ChannelsShown, PagesCopy, PagesTable
<1>2. ASSUME TheChannelPages!Refetch, ChannelsRest PROVE ChannelsShown'
  <2>1. PICK a \in BOOLEAN, b \in BOOLEAN : channelsCopy' = [channelsCopy EXCEPT !.get = a] /\ table' = [table EXCEPT !.get = b]
    <3>1. /\ (channelsCopy.get \/ channelsView # "admin") \in BOOLEAN
          /\ (table.get \/ (channelsView # "tab" /\ route.linked)) \in BOOLEAN
      BY DEF ChannelsShown, ChannelsRest, PagesCopy, PagesTable
    <3> QED
      BY <1>2, <3>1 DEF TheChannelPages!Refetch
  <2> QED
    BY <1>1, <2>1 DEF ChannelsShown
<1> QED
  BY <1>1, <1>2

LEMMA SavedStays ==
    ASSUME saved \in PagesChannels, NEW c,
           \/ saved' = saved
           \/ \E e \in PagesEntry : saved' = [saved EXCEPT ![c] = e]
           \/ \E x \in {"active", "paused", "gone"} : saved' = [saved EXCEPT ![c].status = x]
           \/ \E n \in DailyLimits : saved' = [saved EXCEPT ![c].limit = n]
    PROVE  saved' \in PagesChannels
<1>1. ASSUME NEW e \in PagesEntry, saved' = [saved EXCEPT ![c] = e] PROVE saved' \in PagesChannels
  BY <1>1 DEF PagesChannels
<1>2. ASSUME NEW x \in {"active", "paused", "gone"}, saved' = [saved EXCEPT ![c].status = x] PROVE saved' \in PagesChannels
  <2>1. c \in Channels => [saved[c] EXCEPT !.status = x] \in PagesEntry
    BY DEF PagesChannels, PagesEntry
  <2> QED
    BY <1>2, <2>1 DEF PagesChannels
<1>3. ASSUME NEW n \in DailyLimits, saved' = [saved EXCEPT ![c].limit = n] PROVE saved' \in PagesChannels
  <2>1. c \in Channels => [saved[c] EXCEPT !.limit = n] \in PagesEntry
    BY DEF PagesChannels, PagesEntry
  <2> QED
    BY <1>3, <2>1 DEF PagesChannels
<1> QED
  BY <1>1, <1>2, <1>3

LEMMA PeopleStay ==
    ASSUME people \in PagesPeople, NEW u,
           people' = people \/ \E x \in {"active", "blocked", "gone"} : people' = [people EXCEPT ![u] = x]
    PROVE  people' \in PagesPeople
  BY DEF PagesPeople

LEMMA FormsMove ==
    ASSUME NEW m \in PagesForm
    PROVE  /\ \A b \in BOOLEAN : [m EXCEPT !.open = b] \in PagesForm
           /\ \A b \in BOOLEAN : [m EXCEPT !.open = @ /\ b] \in PagesForm
           /\ \A n \in DailyLimits : /\ [m EXCEPT !.limit = n] \in PagesForm
                                     /\ [m EXCEPT !.started = TRUE, !.limit = n] \in PagesForm
  BY DEF PagesForm

LEMMA TogglesStay ==
    ASSUME ChannelsToggles, NEW t \in Toggles, channelsToggling' \in Channels \cup {NoName},
           \/ \E e \in PagesToggle : /\ e.at = "sent" => e.to \in {"active", "paused"}
                                     /\ toggle' = [toggle EXCEPT ![t] = e]
           \/ \E x \in {"done", "refused"} : toggle' = [toggle EXCEPT ![t].at = x]
    PROVE  ChannelsToggles'
<1>1. ASSUME NEW e \in PagesToggle, e.at = "sent" => e.to \in {"active", "paused"}, toggle' = [toggle EXCEPT ![t] = e]
      PROVE  ChannelsToggles'
  BY <1>1 DEF ChannelsToggles
<1>2. ASSUME NEW x \in {"done", "refused"}, toggle' = [toggle EXCEPT ![t].at = x] PROVE ChannelsToggles'
  <2> DEFINE e == [toggle[t] EXCEPT !.at = x]
  <2>1. e \in PagesToggle /\ e.at # "sent"
    BY DEF ChannelsToggles, PagesToggle
  <2>2. toggle' = [toggle EXCEPT ![t] = e]
    BY <1>2
  <2> HIDE DEF e
  <2> QED
    BY <1>1, <2>1, <2>2
<1> QED
  BY <1>1, <1>2

LEMMA PagesChangesMove ==
    ASSUME ChannelsChanges, NEW k \in TheChannelPages!Kinds
    PROVE  /\ \A e \in PagesChange : [channelsChange EXCEPT ![k] = e] \in [TheChannelPages!Kinds -> PagesChange]
           /\ \A x \in {"done", "refused"} : [channelsChange EXCEPT ![k].at = x] \in [TheChannelPages!Kinds -> PagesChange]
           /\ [channelsChange EXCEPT ![k] = TheChannelPages!Idle] \in [TheChannelPages!Kinds -> PagesChange]
<1>1. \A e \in PagesChange : [channelsChange EXCEPT ![k] = e] \in [TheChannelPages!Kinds -> PagesChange]
  BY DEF ChannelsChanges
<1>2. ASSUME NEW x \in {"done", "refused"}
      PROVE  [channelsChange EXCEPT ![k].at = x] \in [TheChannelPages!Kinds -> PagesChange]
  <2>1. [channelsChange[k] EXCEPT !.at = x] \in PagesChange
    BY DEF ChannelsChanges, PagesChange
  <2>2. [channelsChange EXCEPT ![k].at = x] = [channelsChange EXCEPT ![k] = [channelsChange[k] EXCEPT !.at = x]]
    OBVIOUS
  <2> QED
    BY <1>1, <2>1, <2>2
<1>3. TheChannelPages!Idle \in PagesChange
  BY DEF TheChannelPages!Idle, PagesChange
<1> QED
  BY <1>1, <1>2, <1>3

LEMMA AskedIsTyped ==
    ASSUME TheChannelPages!PagesAssumption, ChannelsTyped, NEW k \in TheChannelPages!Kinds,
           NEW of \in Channels \cup Contacts, TheChannelPages!Ask(k, of), channelsTarget' \in {channelsTarget, NoName}
    PROVE  ChannelsTyped'
<1> USE DEF ChannelsTyped
<1>1. [at |-> "sent", of |-> of, limit |-> IF k = "save" THEN channelsForm.limit ELSE 0] \in PagesChange
  BY DEF ChannelsForm, PagesForm, PagesChange
<1>2. ChannelsChanges'
  BY <1>1, PagesChangesMove DEF TheChannelPages!Ask, ChannelsChanges
<1>3. ChannelsCounts'
  BY ChannelsNumbers DEF TheChannelPages!Ask
<1>4. ChannelsRest'
  BY DEF TheChannelPages!Ask, ChannelsRest
<1> QED
  BY <1>2, <1>3, <1>4 DEF TheChannelPages!Ask, ChannelsSaved, ChannelsShown, ChannelsForm, ChannelsToggles

LEMMA ChannelsStayTyped ==
    ASSUME TheChannelPages!PagesAssumption, ChannelsTyped, TheChannelPages!Next
    PROVE  ChannelsTyped'
<1> USE DEF ChannelsTyped
<1>1. CASE TheChannelPages!HearChannels
  <2>1. ChannelsShown'
    <3>1. channelsCopy' \in {[known |-> TRUE, get |-> FALSE, is |-> saved], [channelsCopy EXCEPT !.get = FALSE]} /\ table' = table
      BY <1>1 DEF TheChannelPages!HearChannels
    <3>2. [known |-> TRUE, get |-> FALSE, is |-> saved] \in PagesCopy
      BY DEF ChannelsSaved, PagesCopy
    <3> QED
      BY <3>1, <3>2, PagesShownMove DEF ChannelsShown
  <2>2. ChannelsForm'
    <3>1. channelsForm' \in {channelsForm, [channelsForm EXCEPT !.started = TRUE, !.limit = channelsCopy'.is[ThisChannel].limit]}
      BY <1>1 DEF TheChannelPages!HearChannels
    <3>2. channelsCopy'.is[ThisChannel].limit \in DailyLimits
      BY <2>1 DEF ChannelsShown, PagesCopy, PagesChannels, PagesEntry, TheChannelPages!PagesAssumption
    <3> QED
      BY <3>1, <3>2, FormsMove DEF ChannelsForm
  <2>3. ChannelsCounts'
    BY <1>1, ChannelsNumbers DEF TheChannelPages!HearChannels
  <2> QED
    BY <1>1, <2>1, <2>2, <2>3 DEF TheChannelPages!HearChannels, ChannelsSaved, ChannelsToggles, ChannelsChanges, ChannelsRest
<1>2. CASE TheChannelPages!Poll
  <2>1. ChannelsShown'
    BY <1>2, PagesShownMove DEF TheChannelPages!Poll, ChannelsShown
  <2> QED
    BY <1>2, <2>1 DEF TheChannelPages!Poll, ChannelsSaved, ChannelsForm, ChannelsToggles, ChannelsChanges, ChannelsRest, ChannelsCounts
<1>3. CASE TheChannelPages!HearContacts
  <2>1. ChannelsShown'
    <3>1. table' \in {[known |-> TRUE, get |-> FALSE, is |-> people], [table EXCEPT !.get = FALSE]} /\ channelsCopy' = channelsCopy
      BY <1>3 DEF TheChannelPages!HearContacts
    <3>2. [known |-> TRUE, get |-> FALSE, is |-> people] \in PagesTable
      BY DEF ChannelsSaved, PagesTable
    <3> QED
      BY <3>1, <3>2, PagesShownMove DEF ChannelsShown
  <2>2. ChannelsCounts'
    BY <1>3, ChannelsNumbers DEF TheChannelPages!HearContacts
  <2> QED
    BY <1>3, <2>1, <2>2 DEF TheChannelPages!HearContacts, ChannelsSaved, ChannelsForm, ChannelsToggles, ChannelsChanges, ChannelsRest
<1>4. ASSUME NEW c \in Channels, NEW x \in {"active", "paused"}, NEW n \in DailyLimits, TheChannelPages!Elsewhere(c, x, n) PROVE ChannelsTyped'
  <2>1. ChannelsSaved'
    <3>1. [status |-> x, limit |-> n] \in PagesEntry
      BY DEF PagesEntry
    <3> QED
      BY <1>4, <3>1, SavedStays DEF TheChannelPages!Elsewhere, ChannelsSaved
  <2>2. ChannelsRest'
    BY <1>4 DEF TheChannelPages!Elsewhere, ChannelsRest
  <2>3. ChannelsCounts'
    BY <1>4, ChannelsNumbers DEF TheChannelPages!Elsewhere
  <2> QED
    BY <1>4, <2>1, <2>2, <2>3 DEF TheChannelPages!Elsewhere, ChannelsShown, ChannelsForm, ChannelsToggles, ChannelsChanges
<1>5. ASSUME NEW t \in Toggles, NEW c \in Channels, TheChannelPages!handleTogglePause(t, c) PROVE ChannelsTyped'
  <2>1. ChannelsToggles'
    <3>1. [at |-> "sent", of |-> c, to |-> IF channelsCopy.is[c].status = "paused" THEN "active" ELSE "paused"] \in PagesToggle
      BY DEF PagesToggle
    <3> QED
    <4> DEFINE e == [at |-> "sent", of |-> c, to |-> IF channelsCopy.is[c].status = "paused" THEN "active" ELSE "paused"]
    <4>1. e \in PagesToggle /\ e.to \in {"active", "paused"}
      BY <3>1
    <4>2. toggle' = [toggle EXCEPT ![t] = e] /\ channelsToggling' = c
      BY <1>5 DEF TheChannelPages!handleTogglePause
    <4> HIDE DEF e
    <4> QED
      BY <4>1, <4>2, TogglesStay
  <2>2. ChannelsCounts'
    BY <1>5, ChannelsNumbers DEF TheChannelPages!handleTogglePause
  <2> QED
    BY <1>5, <2>1, <2>2 DEF TheChannelPages!handleTogglePause, ChannelsSaved, ChannelsShown, ChannelsForm, ChannelsChanges, ChannelsRest
<1>6. ASSUME NEW t \in Toggles, TheChannelPages!ServeToggle(t) PROVE ChannelsTyped'
  <2>1. ChannelsSaved'
    <3>1. toggle[t].at = "sent" => toggle[t].to \in {"active", "paused"}
      BY DEF ChannelsToggles
    <3> QED
      <4>1. /\ people' = people
            /\ \/ saved' = saved
               \/ toggle[t].to \in {"active", "paused"} /\ saved' = [saved EXCEPT ![toggle[t].of].status = toggle[t].to]
        BY <1>6, <3>1 DEF TheChannelPages!ServeToggle
      <4>2. saved \in PagesChannels
        BY DEF ChannelsSaved
      <4>3. saved' \in PagesChannels
        BY <4>1, <4>2, SavedStays
      <4> QED
        BY <4>1, <4>3 DEF ChannelsSaved
  <2>2. ChannelsToggles'
    BY <1>6, TogglesStay DEF TheChannelPages!ServeToggle, ChannelsToggles
  <2>3. ChannelsCounts'
    BY <1>6, ChannelsNumbers DEF TheChannelPages!ServeToggle
  <2> QED
    BY <1>6, <2>1, <2>2, <2>3 DEF TheChannelPages!ServeToggle, ChannelsShown, ChannelsForm, ChannelsChanges, ChannelsRest
<1>7. ASSUME NEW t \in Toggles, TheChannelPages!HearToggle(t) PROVE ChannelsTyped'
  <2>1. ChannelsShown'
    <3>1. CASE TheChannelPages!Refetch
      BY <3>1, PagesShownMove
    <3>2. CASE UNCHANGED <<channelsCopy, table>>
      BY <3>2 DEF ChannelsShown
    <3> QED
      BY <1>7, <3>1, <3>2 DEF TheChannelPages!HearToggle
  <2>2. ChannelsToggles'
    <3>1. TheChannelPages!NoToggle \in PagesToggle /\ TheChannelPages!NoToggle.at = "none"
      BY DEF TheChannelPages!NoToggle, PagesToggle
    <3> QED
      BY <1>7, <3>1, TogglesStay DEF TheChannelPages!HearToggle
  <2> QED
    BY <1>7, <2>1, <2>2 DEF TheChannelPages!HearToggle, ChannelsSaved, ChannelsForm, ChannelsChanges, ChannelsRest, ChannelsCounts
<1>8. CASE TheChannelPages!OpenSheet
  <2>1. ChannelsForm'
    BY <1>8, FormsMove DEF TheChannelPages!OpenSheet, ChannelsForm
  <2> QED
    BY <1>8, <2>1 DEF TheChannelPages!OpenSheet, ChannelsSaved, ChannelsShown, ChannelsToggles, ChannelsChanges, ChannelsRest, ChannelsCounts
<1>9. CASE TheChannelPages!CloseSheet
  <2>1. ChannelsForm'
    BY <1>9, FormsMove DEF TheChannelPages!CloseSheet, ChannelsForm
  <2> QED
    BY <1>9, <2>1 DEF TheChannelPages!CloseSheet, ChannelsSaved, ChannelsShown, ChannelsToggles, ChannelsChanges, ChannelsRest, ChannelsCounts
<1>10. CASE TheChannelPages!handleSave
  BY <1>10, AskedIsTyped DEF TheChannelPages!handleSave, TheChannelPages!Kinds, ChannelsRest, TheChannelPages!PagesAssumption
<1>11. CASE TheChannelPages!handleRotateToken
  BY <1>11, AskedIsTyped DEF TheChannelPages!handleRotateToken, TheChannelPages!Kinds, ChannelsRest, TheChannelPages!PagesAssumption
<1>12. CASE TheChannelPages!handleDelete
  BY <1>12, AskedIsTyped DEF TheChannelPages!handleDelete, TheChannelPages!Kinds, ChannelsRest, TheChannelPages!PagesAssumption
<1>13. ASSUME NEW x \in Contacts, TheChannelPages!handleBlock(x) PROVE ChannelsTyped'
  BY <1>13, AskedIsTyped DEF TheChannelPages!handleBlock, TheChannelPages!Kinds, ChannelsRest, TheChannelPages!PagesAssumption
<1>14. ASSUME NEW d \in BOOLEAN, TheChannelPages!handleForce(d) PROVE ChannelsTyped'
  BY <1>14, AskedIsTyped DEF TheChannelPages!handleForce, TheChannelPages!Kinds, ChannelsRest, TheChannelPages!PagesAssumption
<1>15. CASE TheChannelPages!Keep
  <2>1. ChannelsRest'
    BY <1>15 DEF TheChannelPages!Keep, ChannelsRest
  <2> QED
    BY <1>15, <2>1 DEF TheChannelPages!Keep, ChannelsSaved, ChannelsShown, ChannelsForm, ChannelsToggles, ChannelsChanges, ChannelsCounts
<1>16. ASSUME NEW n \in DailyLimits, TheChannelPages!TypeLimit(n) PROVE ChannelsTyped'
  <2>1. ChannelsForm'
    BY <1>16, FormsMove DEF TheChannelPages!TypeLimit, ChannelsForm
  <2>2. ChannelsCounts'
    BY <1>16, ChannelsNumbers DEF TheChannelPages!TypeLimit
  <2> QED
    BY <1>16, <2>1, <2>2 DEF TheChannelPages!TypeLimit, ChannelsSaved, ChannelsShown, ChannelsToggles, ChannelsChanges, ChannelsRest
<1>17. ASSUME NEW x \in Channels \cup Contacts, TheChannelPages!AskAbout(x) PROVE ChannelsTyped'
  <2>1. ChannelsRest'
    BY <1>17 DEF TheChannelPages!AskAbout, ChannelsRest
  <2>2. ChannelsCounts'
    BY <1>17, ChannelsNumbers DEF TheChannelPages!AskAbout
  <2> QED
    BY <1>17, <2>1, <2>2 DEF TheChannelPages!AskAbout, ChannelsSaved, ChannelsShown, ChannelsForm, ChannelsToggles, ChannelsChanges
<1>18. ASSUME NEW d \in BOOLEAN, TheChannelPages!handleJustification(d) PROVE ChannelsTyped'
  <2>1. ChannelsRest'
    BY <1>18 DEF TheChannelPages!handleJustification, ChannelsRest
  <2>2. ChannelsCounts'
    BY <1>18, ChannelsNumbers DEF TheChannelPages!handleJustification
  <2> QED
    BY <1>18, <2>1, <2>2 DEF TheChannelPages!handleJustification, ChannelsSaved, ChannelsShown, ChannelsForm, ChannelsToggles, ChannelsChanges
<1>19. ASSUME NEW k \in TheChannelPages!Kinds, TheChannelPages!Serve(k) PROVE ChannelsTyped'
  <2>1. ChannelsSaved'
    <3>1. channelsChange[k].limit \in DailyLimits \cup {0}
      BY DEF ChannelsChanges, PagesChange
    <3> QED
      <4>1. saved' \in PagesChannels
        <5>1. \/ saved' = saved
              \/ channelsChange[k].limit # 0 /\ saved' = [saved EXCEPT ![ThisChannel].limit = channelsChange[k].limit]
              \/ saved' = [saved EXCEPT ![channelsChange[k].of].status = "gone"]
              \/ saved' = [saved EXCEPT ![ThisChannel].status = "paused"]
          BY <1>19 DEF TheChannelPages!Serve
        <5>2. saved \in PagesChannels
          BY DEF ChannelsSaved
        <5> QED
          BY <3>1, <5>1, <5>2, SavedStays
      <4>2. people' \in PagesPeople
        <5>1. people' = people \/ \E x \in {"active", "blocked", "gone"} : people' = [people EXCEPT ![channelsChange[k].of] = x]
          BY <1>19 DEF TheChannelPages!Serve
        <5>2. people \in PagesPeople
          BY DEF ChannelsSaved
        <5> QED
          BY <5>1, <5>2, PeopleStay
      <4> QED
        BY <4>1, <4>2 DEF ChannelsSaved
  <2>2. ChannelsChanges'
    BY <1>19, PagesChangesMove DEF TheChannelPages!Serve, ChannelsChanges
  <2>3. ChannelsCounts'
    BY <1>19, ChannelsNumbers DEF TheChannelPages!Serve
  <2> QED
    BY <1>19, <2>1, <2>2, <2>3 DEF TheChannelPages!Serve, ChannelsShown, ChannelsForm, ChannelsToggles, ChannelsRest
<1>20. ASSUME NEW k \in TheChannelPages!Kinds, TheChannelPages!Hear(k) PROVE ChannelsTyped'
  <2>1. ChannelsShown'
    <3>1. CASE TheChannelPages!Refetch
      BY <3>1, PagesShownMove
    <3>2. CASE UNCHANGED <<channelsCopy, table>>
      BY <3>2 DEF ChannelsShown
    <3> QED
      BY <1>20, <3>1, <3>2 DEF TheChannelPages!Hear
  <2>2. ChannelsForm'
    <3>1. (channelsForm.open /\ ~ (k = "save" /\ channelsChange[k].at = "done")) \in BOOLEAN
      OBVIOUS
    <3> QED
      BY <1>20, <3>1 DEF TheChannelPages!Hear, ChannelsForm, PagesForm
  <2>3. ChannelsChanges'
    BY <1>20, PagesChangesMove DEF TheChannelPages!Hear, ChannelsChanges
  <2>4. ChannelsRest'
    BY <1>20 DEF TheChannelPages!Hear, ChannelsRest
  <2> QED
    BY <1>20, <2>1, <2>2, <2>3, <2>4 DEF TheChannelPages!Hear, ChannelsSaved, ChannelsToggles, ChannelsCounts
<1>21. CASE TheChannelPages!handleMessagesTabClick
  <2>1. ChannelsRest'
    BY <1>21 DEF TheChannelPages!handleMessagesTabClick, ChannelsRest
  <2> QED
    BY <1>21, <2>1 DEF TheChannelPages!handleMessagesTabClick, ChannelsSaved, ChannelsShown, ChannelsForm, ChannelsToggles, ChannelsChanges, ChannelsCounts
<1>22. CASE TheChannelPages!LeaveMessages
  <2>1. ChannelsRest'
    BY <1>22 DEF TheChannelPages!LeaveMessages, ChannelsRest
  <2> QED
    BY <1>22, <2>1 DEF TheChannelPages!LeaveMessages, ChannelsSaved, ChannelsShown, ChannelsForm, ChannelsToggles, ChannelsChanges, ChannelsCounts
<1> HIDE DEF ChannelsTyped
<1> QED
  BY <1>1, <1>2, <1>3, <1>4, <1>5, <1>6, <1>7, <1>8, <1>9, <1>10, <1>11, <1>12, <1>13, <1>14, <1>15, <1>16, <1>17, <1>18, <1>19, <1>20, <1>21, <1>22 DEF TheChannelPages!Next

-----------------------------------------------------------------------------
(***************************************************************************)
(* The tables of the administrators: a change is to a value of its field.  *)
(***************************************************************************)

RightValue(c) == c.field = "delete" \/ c.value \in TheAdminTables!Values(c.field)

TablesTyped == TheAdminTables!TypeOK /\ \A c \in adminCalls : RightValue(c)

LEMMA WrittenIsRow ==
    ASSUME NEW c \in TheAdminTables!Call, RightValue(c), NEW r \in TheAdminTables!Rows
    PROVE  TheAdminTables!Written(c, r) \in TheAdminTables!Rows
  BY DEF TheAdminTables!Call, RightValue, TheAdminTables!Rows, TheAdminTables!Written, TheAdminTables!Gone

LEMMA ChangesMove ==
    \A c \in TheAdminTables!Call, at \in {"written", "answered", "done"} :
        /\ [c EXCEPT !.at = at] \in TheAdminTables!Call
        /\ RightValue(c) => RightValue([c EXCEPT !.at = at])
  BY DEF TheAdminTables!Call, RightValue

LEMMA ChangesBegin ==
    \A e \in 1 .. TableRows, k \in {"status", "level", "delete"} : \A x :
        LET c == [entry |-> e, field |-> k, value |-> x, at |-> "sent"]
        IN (k # "delete" => x \in TheAdminTables!Values(k)) /\ (k = "delete" => x = "gone")
              => c \in TheAdminTables!Call /\ RightValue(c)
  BY DEF TheAdminTables!Call, RightValue, TheAdminTables!Entries

LEMMA SameView == adminView' = adminView => /\ TheAdminTables!Rows' = TheAdminTables!Rows
                                            /\ TheAdminTables!Call' = TheAdminTables!Call
                                            /\ \A c : RightValue(c)' <=> RightValue(c)
  BY DEF TheAdminTables!Rows, TheAdminTables!Call, RightValue, TheAdminTables!Values

LEMMA TablesStayTyped ==
    ASSUME TheAdminTables!AdminAssumption, TablesTyped, TheAdminTables!Next
    PROVE  TablesTyped'
<1> USE DEF TablesTyped, TheAdminTables!TypeOK, TheAdminTables!AdminAssumption, TheAdminTables!Entries,
            TheAdminTables!table, TheAdminTables!Click
<1>1. CASE TheAdminTables!Search
  BY <1>1, SameView, ChangesMove, ChangesBegin DEF TheAdminTables!Search
<1>2. CASE TheAdminTables!Sort
  BY <1>2, SameView, ChangesMove, ChangesBegin DEF TheAdminTables!Sort
<1>3. ASSUME NEW i \in 0 .. TableRows, TheAdminTables!Turn(i) PROVE TablesTyped'
  BY <1>3, SameView, ChangesMove, ChangesBegin DEF TheAdminTables!Turn
<1>4. ASSUME NEW e \in 1 .. TableRows, TheAdminTables!toggleStatus(e) PROVE TablesTyped'
  BY <1>4, SameView, ChangesMove, ChangesBegin DEF TheAdminTables!toggleStatus, TheAdminTables!Send, TheAdminTables!Values
<1>5. ASSUME NEW e \in 1 .. TableRows, TheAdminTables!suspendAgent(e) PROVE TablesTyped'
  BY <1>5, SameView, ChangesMove, ChangesBegin DEF TheAdminTables!suspendAgent, TheAdminTables!Send, TheAdminTables!Values
<1>6. ASSUME NEW e \in 1 .. TableRows, TheAdminTables!toggleAdmin(e) PROVE TablesTyped'
  BY <1>6, SameView, ChangesMove, ChangesBegin DEF TheAdminTables!toggleAdmin, TheAdminTables!Send, TheAdminTables!Values
<1>7. ASSUME NEW e \in 1 .. TableRows, TheAdminTables!deleteAgent(e) PROVE TablesTyped'
  BY <1>7, SameView, ChangesMove, ChangesBegin DEF TheAdminTables!deleteAgent, TheAdminTables!Send
<1>8. ASSUME NEW e \in 1 .. TableRows, NEW x \in {"new", "verified", "certified"}, TheAdminTables!setVerification(e, x) PROVE TablesTyped'
  BY <1>8, SameView, ChangesMove, ChangesBegin DEF TheAdminTables!setVerification, TheAdminTables!Send, TheAdminTables!Values
<1>9. ASSUME NEW e \in 1 .. TableRows, NEW x \in {"new", "verified", "certified"}, TheAdminTables!handleVerification(e, x) PROVE TablesTyped'
  BY <1>9, SameView, ChangesMove, ChangesBegin DEF TheAdminTables!handleVerification, TheAdminTables!Send, TheAdminTables!Values
<1>10. ASSUME NEW e \in 1 .. TableRows, NEW x \in {"status", "level"}, NEW y \in TheAdminTables!Values(x), TheAdminTables!Other(e, x, y) PROVE TablesTyped'
  <2>1. TheAdminTables!Rows' = TheAdminTables!Rows
    BY <1>10, SameView DEF TheAdminTables!Other
  <2>2. [adminRow[e] EXCEPT ![x] = y] \in TheAdminTables!Rows
    BY <1>10 DEF TheAdminTables!Other, TheAdminTables!Rows, TheAdminTables!Gone
  <2>3. adminRow' \in [1 .. TableRows -> TheAdminTables!Rows]
    BY <1>10, <2>2 DEF TheAdminTables!Other
  <2> QED
    BY <1>10, <2>3, SameView DEF TheAdminTables!Other
<1>11. ASSUME NEW c \in adminCalls, TheAdminTables!Handle(c) PROVE TablesTyped'
  <2>1. adminRow[c.entry] \in TheAdminTables!Rows /\ c.entry \in 1 .. TableRows
    BY DEF TheAdminTables!Call, TheAdminTables!Entries
  <2>2. adminRow' \in [1 .. TableRows -> TheAdminTables!Rows]
    <3>1. TheAdminTables!Written(c, adminRow[c.entry]) \in TheAdminTables!Rows
      BY <2>1, WrittenIsRow
    <3> QED
      BY <1>11, <2>1, <3>1 DEF TheAdminTables!Handle
  <2>3. \A d \in adminCalls' : d \in TheAdminTables!Call /\ RightValue(d)
    <3>1. PICK at \in {"written", "done"} : TheAdminTables!Replace(c, at)
      BY <1>11 DEF TheAdminTables!Handle
    <3>2. [c EXCEPT !.at = at] \in TheAdminTables!Call /\ RightValue([c EXCEPT !.at = at])
      BY ChangesMove
    <3> QED
      BY <3>1, <3>2 DEF TheAdminTables!Replace
  <2> QED
    BY <1>11, <2>2, <2>3, SameView DEF TheAdminTables!Handle
<1>12. ASSUME NEW c \in adminCalls, TheAdminTables!Commit(c) PROVE TablesTyped'
  <2>1. adminRow[c.entry] \in TheAdminTables!Rows /\ c.entry \in 1 .. TableRows
    BY DEF TheAdminTables!Call, TheAdminTables!Entries
  <2>2. adminRow' \in [1 .. TableRows -> TheAdminTables!Rows]
    <3>1. TheAdminTables!Written(c, adminRow[c.entry]) \in TheAdminTables!Rows
      BY <2>1, WrittenIsRow
    <3> QED
      BY <1>12, <2>1, <3>1 DEF TheAdminTables!Commit
  <2>3. \A d \in adminCalls' : d \in TheAdminTables!Call /\ RightValue(d)
    BY <1>12, ChangesMove DEF TheAdminTables!Commit, TheAdminTables!Replace
  <2> QED
    BY <1>12, <2>2, <2>3, SameView DEF TheAdminTables!Commit
<1>13. ASSUME NEW c \in adminCalls, TheAdminTables!Hear(c) PROVE TablesTyped'
  BY <1>13, SameView, ChangesMove, ChangesBegin DEF TheAdminTables!Hear, TheAdminTables!Replace, TheAdminTables!Refetch
<1>14. ASSUME NEW c \in adminCalls, TheAdminTables!Reload(c) PROVE TablesTyped'
  <2>1. \A d \in adminCalls' : d \in TheAdminTables!Call /\ RightValue(d)
    BY <1>14, ChangesMove DEF TheAdminTables!Reload
  <2>2. TheAdminTables!Refetch /\ left' \in BOOLEAN
    BY <1>14 DEF TheAdminTables!Reload
  <2>3. /\ UNCHANGED <<adminView, adminRow, adminList, adminClicks, adminOthers, adminFaults>>
        /\ even' = FALSE /\ order' = "none" /\ index' = 0
    BY <1>14 DEF TheAdminTables!Reload
  <2>4. adminGet'.at = "asked"
    BY <2>2 DEF TheAdminTables!Refetch
  <2>5. TheAdminTables!TypeOK'
    <3>1. adminRow' \in [1 .. TableRows -> TheAdminTables!Rows'] /\ adminList' \in [1 .. TableRows -> TheAdminTables!Rows']
      BY <2>3, SameView
    <3>2. adminCalls' \subseteq TheAdminTables!Call'
      BY <2>1, <2>3, SameView
    <3>0. 0 \in 0 .. TableRows
      OBVIOUS
    <3>3. index' \in 0 .. TableRows /\ even' \in BOOLEAN /\ order' \in {"none", "asc", "desc"}
      BY <2>3, <3>0
    <3> QED
      BY <2>2, <2>3, <2>4, <3>1, <3>2, <3>3
  <2>6. \A d \in adminCalls' : RightValue(d)'
    BY <2>1, <2>3, SameView
  <2> QED
    BY <2>5, <2>6
<1>15. ASSUME NEW c \in adminCalls, TheAdminTables!HearRefusal(c) PROVE TablesTyped'
  BY <1>15, SameView, ChangesMove, ChangesBegin DEF TheAdminTables!HearRefusal
<1>16. ASSUME NEW c \in adminCalls, TheAdminTables!Lose(c) PROVE TablesTyped'
  BY <1>16, SameView, ChangesMove, ChangesBegin DEF TheAdminTables!Lose
<1>17. CASE TheAdminTables!ReadList
  BY <1>17, SameView, ChangesMove, ChangesBegin DEF TheAdminTables!ReadList
<1>18. CASE TheAdminTables!HearList
  BY <1>18, SameView, ChangesMove, ChangesBegin DEF TheAdminTables!HearList, TheAdminTables!HearList, TheAdminTables!NoGet
<1>19. CASE TheAdminTables!LoseList
  BY <1>19, SameView, ChangesMove, ChangesBegin DEF TheAdminTables!LoseList, TheAdminTables!LoseList, TheAdminTables!NoGet
<1> HIDE DEF TablesTyped, TheAdminTables!TypeOK, TheAdminTables!AdminAssumption, TheAdminTables!Entries,
             TheAdminTables!table, TheAdminTables!Click
<1> QED
  BY <1>1, <1>2, <1>3, <1>4, <1>5, <1>6, <1>7, <1>8, <1>9, <1>10, <1>11, <1>12, <1>13, <1>14, <1>15, <1>16, <1>17, <1>18, <1>19 DEF TheAdminTables!Next, TheAdminTables!Entries

LEMMA TablesStartTyped == ASSUME TheAdminTables!AdminAssumption, TheAdminTables!Init PROVE TablesTyped
<1>1. adminClicks \in 0 .. MaxClicks["admin"] /\ adminOthers \in 0 .. MaxOtherAdmins /\ adminFaults \in 0 .. MaxFaults
      /\ index \in 0 .. TableRows
  BY DEF TheAdminTables!AdminAssumption, TheAdminTables!Init
<1>2. adminRow \in [TheAdminTables!Entries -> TheAdminTables!Rows]
  BY DEF TheAdminTables!Init, TheAdminTables!Rows, TheAdminTables!Values
<1> QED
  BY <1>1, <1>2 DEF TheAdminTables!Init, TheAdminTables!NoGet, TablesTyped, TheAdminTables!TypeOK

-----------------------------------------------------------------------------
(***************************************************************************)
(* The editor's types: what the server, the page, the draft and the calls  *)
(* have is a list of steps.                                                *)
(***************************************************************************)

LEMMA SameCardinality == \A S : TheEditor!Cardinality(S) = Cardinality(S)
  BY DEF TheEditor!Cardinality, Cardinality

LEMMA SequencesAre ==
    ASSUME NEW S, NEW s \in Seq(S)
    PROVE  Len(s) \in Nat /\ DOMAIN s = 1 .. Len(s) /\ s = [i \in DOMAIN s |-> s[i]] /\ \A i \in DOMAIN s : s[i] \in S
  OBVIOUS

StepList == Seq(TheEditor!Step)
Contents == [steps : StepList, text : {"old", "new"}, rev : Nat]
Drafts == [on : BOOLEAN, steps : StepList, text : {"old", "new"}, picker : {-2, -1} \cup Nat]
SaveCalls == [at : {"none", "sent", "saved", "refused", "fetch"}, is : Contents, own : BOOLEAN]
Gets == [at : {"none", "sent", "answered"}, is : Contents, awaits : SUBSET Saves, joined : SUBSET Saves]
RunStates == [at : {"none", "running", "ended"}, empty : BOOLEAN, of : SUBSET TheEditor!Who, ended : SUBSET Agents]
Knowns == [Runs -> {"none", "running", "ended"}]
Looked == [at : {"none", "sent", "answered"}, is : Knowns, awaits : SUBSET Saves]

EditorRest ==
    /\ editorPage \in {"workflow", "crew", "left"} /\ editorPending \in SUBSET {"leave", "cancel"}
    /\ editorPast \in SUBSET {"canceled", "typed", "again", "overlap"}

EditorCounts == editorClicks \in Nat /\ editorFaults \in 0 .. MaxFaults

EditorTyped ==
    /\ doc \in Contents /\ editorCopy \in [of : Contents, failed : BOOLEAN] /\ editor \in Drafts
    /\ save \in [Saves -> SaveCalls] /\ editorGet \in Gets /\ run \in [Runs -> RunStates]
    /\ known \in Knowns /\ editorLook \in Looked /\ ReportInv /\ EditorRest /\ EditorCounts

LEMMA EditorIsTyped == EditorTyped => TheEditor!TypeOK
  BY DEF EditorTyped, StepList, Contents, Drafts, SaveCalls, Gets, RunStates, Knowns, Looked, ReportInv, ReportTyped, EditorRest, EditorCounts,
         TheEditor!TypeOK, TheEditor!Content, TheEditor!RunState, TheEditor!Closed, TheEditor!NewGroup

LEMMA EditorCount ==
    ASSUME TheEditor!EditorAssumption
    PROVE  /\ TheEditor!Click /\ editorClicks \in Nat => editorClicks' \in Nat
           /\ TheEditor!Fault /\ editorFaults \in 0 .. MaxFaults => editorFaults' \in 0 .. MaxFaults
           /\ 0 \in 0 .. MaxFaults
  BY DEF TheEditor!EditorAssumption, TheEditor!Click, TheEditor!Fault

LEMMA Lists ==
    ASSUME NEW S, NEW t
    PROVE  t \in Seq(S) <=> /\ \E n \in Nat : DOMAIN t = 1 .. n
                            /\ t = [i \in DOMAIN t |-> t[i]]
                            /\ \A i \in DOMAIN t : t[i] \in S
<1>1. ASSUME NEW n \in Nat, DOMAIN t = 1 .. n, t = [i \in DOMAIN t |-> t[i]], \A i \in DOMAIN t : t[i] \in S
      PROVE  t \in Seq(S)
  BY <1>1
<1>2. ASSUME t \in Seq(S)
      PROVE  Len(t) \in Nat /\ DOMAIN t = 1 .. Len(t) /\ t = [i \in DOMAIN t |-> t[i]] /\ \A i \in DOMAIN t : t[i] \in S
  BY <1>2, SequencesAre
<1> QED
  BY <1>1, <1>2

(* Of some numbers one is highest.                                         *)
LEMMA Highest == \A n \in Nat : \A t \in [1 .. n -> Nat] : n # 0 => \E i \in 1 .. n : \A j \in 1 .. n : t[j] <= t[i]
<1> DEFINE G == {n \in Nat : \A t \in [1 .. n -> Nat] : n # 0 => \E i \in 1 .. n : \A j \in 1 .. n : t[j] <= t[i]}
<1>1. 0 \in G
  OBVIOUS
<1>2. ASSUME NEW n \in Nat, n \in G PROVE n + 1 \in G
  <2>1. ASSUME NEW t \in [1 .. n + 1 -> Nat], n = 0 PROVE \E i \in 1 .. n + 1 : \A j \in 1 .. n + 1 : t[j] <= t[i]
    BY <2>1
  <2>2. ASSUME NEW t \in [1 .. n + 1 -> Nat], n # 0 PROVE \E i \in 1 .. n + 1 : \A j \in 1 .. n + 1 : t[j] <= t[i]
    <3> DEFINE u == [i \in 1 .. n |-> t[i]]
    <3>1. u \in [1 .. n -> Nat]
      OBVIOUS
    <3>2. PICK i \in 1 .. n : \A j \in 1 .. n : u[j] <= u[i]
      BY <1>2, <2>2, <3>1
    <3>3. i \in 1 .. n + 1 /\ \A j \in 1 .. n : t[j] <= t[i]
      BY <3>2
    <3>4. \A j \in 1 .. n + 1 : j \in 1 .. n \/ j = n + 1
      OBVIOUS
    <3>5. t[i] \in Nat /\ t[n + 1] \in Nat /\ \A j \in 1 .. n : t[j] \in Nat
      BY <3>3
    <3>6. CASE t[n + 1] <= t[i]
      <4>1. \A j \in 1 .. n + 1 : t[j] <= t[i]
        BY <3>3, <3>4, <3>6
      <4> QED
        BY <3>3, <4>1
    <3>7. CASE t[i] < t[n + 1]
      <4>1. \A j \in 1 .. n + 1 : t[j] <= t[n + 1]
        BY <3>3, <3>4, <3>5, <3>7
      <4> QED
        BY <4>1
    <3> QED
      BY <3>5, <3>6, <3>7
  <2>3. n + 1 \in Nat
    OBVIOUS
  <2>4. \A t \in [1 .. n + 1 -> Nat] : \E i \in 1 .. n + 1 : \A j \in 1 .. n + 1 : t[j] <= t[i]
    BY <2>1, <2>2
  <2> QED
    BY <2>3, <2>4
<1> HIDE DEF G
<1>3. \A n \in Nat : n \in G
  BY <1>1, <1>2, NumberInduction
<1> QED
  BY <1>3 DEF G

\* The new group comes after those there are.
LEMMA NextGroup ==
    ASSUME NEW steps \in StepList, steps # <<>>
    PROVE  (CHOOSE g \in TheEditor!GroupsOf(steps) : \A h \in TheEditor!GroupsOf(steps) : h <= g) \in Nat
<1> DEFINE n == Len(steps)
           t == [i \in 1 .. n |-> steps[i].group]
<1>1. n \in Nat /\ n # 0 /\ DOMAIN steps = 1 .. n /\ \A i \in 1 .. n : steps[i] \in TheEditor!Step
  BY DEF StepList
<1>2. \A i \in 1 .. n : steps[i].group \in Nat
  BY <1>1 DEF TheEditor!Step
<1> HIDE DEF n
<1>3. t \in [1 .. n -> Nat]
  BY <1>2
<1>4. \E i \in 1 .. n : \A j \in 1 .. n : t[j] <= t[i]
  BY <1>1, <1>3, Highest
<1>5. TheEditor!GroupsOf(steps) = {steps[i].group : i \in 1 .. n}
  BY <1>1 DEF TheEditor!GroupsOf
<1>6. \E g \in TheEditor!GroupsOf(steps) : \A h \in TheEditor!GroupsOf(steps) : h <= g
  BY <1>4, <1>5
<1>7. TheEditor!GroupsOf(steps) \subseteq Nat
  BY <1>2, <1>5
<1> QED
  BY <1>6, <1>7

(* What is done to a list of steps makes a list of steps.                  *)
LEMMA StepLists ==
    ASSUME NEW steps \in StepList
    PROVE  /\ \A x \in TheEditor!Step : Append(steps, x) \in StepList
           /\ \A x \in TheEditor!Step : \A i : [steps EXCEPT ![i] = x] \in StepList
           /\ \A x, y \in TheEditor!Step : \A i, j : [steps EXCEPT ![i] = x, ![j] = y] \in StepList
           /\ \A i \in DOMAIN steps : [j \in 1 .. Len(steps) - 1 |-> IF j < i THEN steps[j] ELSE steps[j + 1]] \in StepList
           /\ \A s \in TheEditor!Ordered(steps) : s \in StepList
           /\ \A u : (DOMAIN u = DOMAIN steps /\ u = [i \in DOMAIN u |-> u[i]] /\ \A i \in DOMAIN u : u[i] \in TheEditor!Step) => u \in StepList
<1>0. Len(steps) \in Nat /\ DOMAIN steps = 1 .. Len(steps) /\ \A i \in DOMAIN steps : steps[i] \in TheEditor!Step
  BY SequencesAre DEF StepList
<1>1. ASSUME NEW x \in TheEditor!Step PROVE Append(steps, x) \in StepList
  BY DEF StepList
<1>2. ASSUME NEW u, DOMAIN u = DOMAIN steps, u = [i \in DOMAIN u |-> u[i]], \A i \in DOMAIN u : u[i] \in TheEditor!Step PROVE u \in StepList
  BY <1>0, <1>2, Lists DEF StepList
<1>3. ASSUME NEW x \in TheEditor!Step, NEW i PROVE [steps EXCEPT ![i] = x] \in StepList
  <2> DEFINE u == [steps EXCEPT ![i] = x]
  <2>1. DOMAIN u = DOMAIN steps /\ u = [k \in DOMAIN u |-> u[k]] /\ \A k \in DOMAIN u : u[k] \in {x, steps[k]}
    OBVIOUS
  <2> HIDE DEF u
  <2>2. u \in StepList
    BY <1>0, <1>2, <2>1
  <2> QED
    BY <2>2 DEF u
<1>4. ASSUME NEW x \in TheEditor!Step, NEW y \in TheEditor!Step, NEW i, NEW j PROVE [steps EXCEPT ![i] = x, ![j] = y] \in StepList
  <2> DEFINE u == [steps EXCEPT ![i] = x, ![j] = y]
  <2>1. DOMAIN u = DOMAIN steps /\ u = [k \in DOMAIN u |-> u[k]] /\ \A k \in DOMAIN u : u[k] \in {x, y, steps[k]}
    OBVIOUS
  <2> HIDE DEF u
  <2>2. u \in StepList
    BY <1>0, <1>2, <2>1
  <2> QED
    BY <2>2 DEF u
<1>5. ASSUME NEW i \in DOMAIN steps PROVE [j \in 1 .. Len(steps) - 1 |-> IF j < i THEN steps[j] ELSE steps[j + 1]] \in StepList
  <2> DEFINE t == [j \in 1 .. Len(steps) - 1 |-> IF j < i THEN steps[j] ELSE steps[j + 1]]
  <2>1. Len(steps) - 1 \in Nat /\ DOMAIN t = 1 .. Len(steps) - 1 /\ t = [j \in DOMAIN t |-> t[j]]
    BY <1>0
  <2>2. \A j \in DOMAIN t : t[j] \in TheEditor!Step
    BY <1>0
  <2> HIDE DEF t
  <2>3. t \in StepList
    BY <2>1, <2>2, Lists DEF StepList
  <2> QED
    BY <2>3 DEF t
<1>6. ASSUME NEW s \in TheEditor!Ordered(steps) PROVE s \in StepList
  <2>1. s \in [DOMAIN steps -> {steps[i] : i \in DOMAIN steps}]
    BY DEF TheEditor!Ordered
  <2> QED
    BY <1>0, <1>2, <2>1
<1> QED
  BY <1>1, <1>2, <1>3, <1>4, <1>5, <1>6

LEMMA NothingTyped ==
    /\ <<>> \in StepList /\ TheEditor!NoContent \in Contents /\ TheEditor!NoSave \in SaveCalls /\ TheEditor!NoGet \in Gets
    /\ TheEditor!NoRuns \in Knowns /\ TheEditor!NoLook \in Looked /\ TheEditor!NoEditor \in Drafts
<1>1. <<>> \in StepList
  BY DEF StepList
<1>2. TheEditor!NoContent \in Contents
  BY <1>1 DEF TheEditor!NoContent, Contents
<1>3. TheEditor!NoSave \in SaveCalls /\ TheEditor!NoGet \in Gets
  BY <1>2 DEF TheEditor!NoSave, TheEditor!NoGet, SaveCalls, Gets
<1>4. TheEditor!NoRuns \in Knowns
  BY DEF TheEditor!NoRuns, Knowns
<1>5. TheEditor!NoLook \in Looked
  BY <1>4 DEF TheEditor!NoLook, Looked
<1>6. TheEditor!NoEditor \in Drafts
  BY <1>1 DEF TheEditor!NoEditor, Drafts, TheEditor!Closed
<1> QED
  BY <1>1, <1>2, <1>3, <1>4, <1>5, <1>6

LEMMA EditorStartsTyped == ASSUME TheEditor!EditorAssumption, TheEditor!Init PROVE EditorTyped
<1>1. doc \in Contents
  <2>1. PICK s \in Documents[editorPage] :
          doc = [TheEditor!NoContent EXCEPT !.steps =
                    [i \in DOMAIN s |-> IF editorPage = "crew" THEN [who |-> s[i], group |-> 0, pos |-> i - 1]
                                       ELSE [who |-> s[i], group |-> i - 1, pos |-> 0]]]
    BY DEF TheEditor!Init
  <2>2. s \in Seq(Agents \cup {"nested"})
    BY DEF TheEditor!EditorAssumption, TheEditor!Init
  <2> DEFINE u == [i \in DOMAIN s |-> IF editorPage = "crew" THEN [who |-> s[i], group |-> 0, pos |-> i - 1]
                                      ELSE [who |-> s[i], group |-> i - 1, pos |-> 0]]
  <2>3. Len(s) \in Nat /\ DOMAIN s = 1 .. Len(s) /\ \A i \in DOMAIN s : s[i] \in Agents \cup {"nested"}
    BY <2>2, SequencesAre
  <2>4. \A i \in DOMAIN s : i - 1 \in Nat
    BY <2>3
  <2>5. \A i \in DOMAIN s : u[i] \in TheEditor!Step
    BY <2>3, <2>4 DEF TheEditor!Step, TheEditor!Who
  <2>6. DOMAIN u = DOMAIN s /\ u = [i \in DOMAIN u |-> u[i]]
    OBVIOUS
  <2>7. doc = [TheEditor!NoContent EXCEPT !.steps = u]
    BY <2>1
  <2> HIDE DEF u
  <2>8. u \in StepList
    BY <2>3, <2>5, <2>6, Lists DEF StepList
  <2> QED
    BY <2>7, <2>8, NothingTyped DEF Contents
<1>2. editorCopy \in [of : Contents, failed : BOOLEAN]
  BY <1>1 DEF TheEditor!Init
<1>3. /\ editor \in Drafts /\ save \in [Saves -> SaveCalls] /\ editorGet \in Gets /\ known \in Knowns /\ editorLook \in Looked
  BY NothingTyped DEF TheEditor!Init
<1>4. run \in [Runs -> RunStates]
  BY DEF TheEditor!Init, RunStates
<1>5. ReportInv
  BY InitReport
<1>6. EditorRest
  BY DEF TheEditor!Init, EditorRest
<1>7. EditorCounts
  BY EditorCount DEF TheEditor!Init, EditorCounts
<1> QED
  BY <1>1, <1>2, <1>3, <1>4, <1>5, <1>6, <1>7 DEF EditorTyped

LEMMA PayloadFits == ASSUME editor \in Drafts PROVE TheEditor!Payload \in Contents
<1> DEFINE t == editor.steps
           u == [i \in DOMAIN t |-> IF editorPage = "crew" THEN [t[i] EXCEPT !.pos = i - 1] ELSE t[i]]
<1>1. t \in StepList /\ editor.text \in {"old", "new"}
  BY DEF Drafts
<1>2. Len(t) \in Nat /\ DOMAIN t = 1 .. Len(t) /\ \A i \in DOMAIN t : t[i] \in TheEditor!Step
  BY <1>1, SequencesAre DEF StepList
<1>3. \A i \in DOMAIN t : i - 1 \in Nat
  BY <1>2
<1>4. \A i \in DOMAIN t : u[i] \in TheEditor!Step
  BY <1>2, <1>3 DEF TheEditor!Step
<1>5. DOMAIN u = DOMAIN t /\ u = [i \in DOMAIN u |-> u[i]]
  OBVIOUS
<1>6. TheEditor!Payload = [steps |-> u, text |-> editor.text, rev |-> 0]
  BY DEF TheEditor!Payload
<1> HIDE DEF u, t
<1>7. u \in StepList
  BY <1>1, <1>4, <1>5, StepLists
<1> QED
  BY <1>1, <1>6, <1>7 DEF Contents, t

LEMMA AcceptFits ==
    ASSUME doc \in Contents, NEW x \in Contents, TheEditor!Accept(x) PROVE doc' \in Contents
<1>1. PICK s \in TheEditor!Ordered(x.steps) : doc' = [steps |-> s, text |-> x.text, rev |-> doc.rev + 1]
  BY DEF TheEditor!Accept
<1>2. s \in StepList
  BY StepLists DEF Contents
<1> QED
  BY <1>1, <1>2 DEF Contents

LEMMA FetchFits ==
    /\ \A w, x \in SUBSET Saves : TheEditor!Fetch(w, x) \in Gets
    /\ \A w \in SUBSET Saves : TheEditor!Look(w) \in Looked
  BY NothingTyped DEF TheEditor!Fetch, TheEditor!Look, Gets, Looked

LEMMA BegunFits == ASSUME doc \in Contents PROVE TheEditor!Begun \in RunStates
<1>1. \A i \in DOMAIN doc.steps : doc.steps[i] \in TheEditor!Step
  BY SequencesAre DEF Contents, StepList
<1>2. {doc.steps[i].who : i \in TheEditor!InGroup(doc.steps, 0)} \subseteq TheEditor!Who
  BY <1>1 DEF TheEditor!Step, TheEditor!InGroup
<1> QED
  BY <1>2 DEF TheEditor!Begun, RunStates

\* An edit of the draft.
LEMMA EditTyped ==
    ASSUME TheEditor!EditorAssumption, EditorTyped, ReportInv', NEW pg, NEW draft \in Drafts, TheEditor!Edit(pg, draft)
    PROVE  EditorTyped'
<1>1. /\ editor' = draft /\ doc' = doc /\ editorCopy' = editorCopy /\ save' = save /\ editorGet' = editorGet /\ run' = run
      /\ known' = known /\ editorLook' = editorLook
  BY DEF TheEditor!Edit
<1>2. EditorRest'
  BY DEF TheEditor!Edit, EditorTyped, EditorRest
<1>3. EditorCounts'
  BY EditorCount DEF TheEditor!Edit, EditorTyped, EditorCounts
<1> QED
  BY <1>1, <1>2, <1>3 DEF EditorTyped

\* The edits: each makes a draft of a draft.
LEMMA EditsAreTyped ==
    ASSUME TheEditor!EditorAssumption, EditorTyped, ReportInv',
           \/ TheEditor!Type
           \/ \E a \in Agents : TheEditor!PickAgent(a)
           \/ \E i \in 1 .. MaxSteps : TheEditor!RemoveStep(i) \/ TheEditor!SwitchType(i) \/ TheEditor!PickWorkflow(i) \/ TheEditor!MoveUp(i)
    PROVE  EditorTyped'
<1>0. editor \in Drafts /\ editor.steps \in StepList
  BY DEF EditorTyped, Drafts
<1>1. \A i \in DOMAIN editor.steps : editor.steps[i] \in TheEditor!Step
  BY <1>0, SequencesAre DEF StepList
<1>2. \A t \in StepList : [editor EXCEPT !.steps = t] \in Drafts /\ [editor EXCEPT !.picker = TheEditor!Closed, !.steps = t] \in Drafts
  BY <1>0 DEF Drafts, TheEditor!Closed
<1>3. \A i \in DOMAIN editor.steps, w \in TheEditor!Who : [editor.steps[i] EXCEPT !.who = w] \in TheEditor!Step
  BY <1>1 DEF TheEditor!Step
<1>4. CASE TheEditor!Type
  <2> DEFINE d == [editor EXCEPT !.text = "new"]
  <2>1. d \in Drafts
    BY <1>0 DEF Drafts
  <2>2. PICK pg \in {"workflow", "crew"} : TheEditor!Edit(pg, d)
    BY <1>4 DEF TheEditor!Type
  <2> HIDE DEF d
  <2> QED
    BY <2>1, <2>2, EditTyped
<1>5. ASSUME NEW a \in Agents, TheEditor!PickAgent(a) PROVE EditorTyped'
  <2> DEFINE steps == editor.steps
             last1 == CHOOSE g \in TheEditor!GroupsOf(steps) : \A h \in TheEditor!GroupsOf(steps) : h <= g
             g1 == IF editor.picker # TheEditor!NewGroup THEN editor.picker ELSE IF steps = <<>> THEN 0 ELSE last1 + 1
             x == [who |-> a, group |-> g1, pos |-> TheEditor!Cardinality(TheEditor!InGroup(steps, g1))]
             d == [editor EXCEPT !.picker = TheEditor!Closed, !.steps = Append(steps, x)]
  <2>1. editor.picker # TheEditor!Closed /\ TheEditor!Edit("workflow", d)
    BY <1>5 DEF TheEditor!PickAgent
  <2>2. g1 \in Nat
    <3>1. CASE editor.picker # TheEditor!NewGroup
      BY <1>0, <2>1, <3>1 DEF Drafts, TheEditor!NewGroup, TheEditor!Closed
    <3>2. CASE editor.picker = TheEditor!NewGroup /\ steps # <<>>
      <4>1. last1 \in Nat
        BY <1>0, <3>2, NextGroup
      <4> HIDE DEF last1
      <4> QED
        BY <3>2, <4>1
    <3> QED
      BY <3>1, <3>2
  <2> HIDE DEF g1
  <2>3. TheEditor!Cardinality(TheEditor!InGroup(steps, g1)) \in Nat
    <3>1. Len(steps) \in Nat /\ DOMAIN steps = 1 .. Len(steps)
      BY <1>0 DEF StepList
    <3>2. IsFiniteSet(1 .. Len(steps)) /\ TheEditor!InGroup(steps, g1) \subseteq 1 .. Len(steps)
      BY <3>1, FS_Interval DEF TheEditor!InGroup
    <3>3. IsFiniteSet(TheEditor!InGroup(steps, g1))
      BY <3>2, FS_Subset
    <3> QED
      BY <3>3, FS_CardinalityType, SameCardinality
  <2>4. x \in TheEditor!Step
    BY <2>2, <2>3 DEF TheEditor!Step, TheEditor!Who
  <2> HIDE DEF x
  <2>5. Append(steps, x) \in StepList
    BY <1>0, <2>4, StepLists
  <2>6. d \in Drafts
    BY <1>2, <2>5
  <2> HIDE DEF d
  <2> QED
    BY <2>1, <2>6, EditTyped
<1>6. ASSUME NEW i, TheEditor!RemoveStep(i) PROVE EditorTyped'
  <2> DEFINE t == [j \in 1 .. Len(editor.steps) - 1 |-> IF j < i THEN editor.steps[j] ELSE editor.steps[j + 1]]
             d == [editor EXCEPT !.steps = t]
  <2>1. i \in DOMAIN editor.steps
    BY <1>6 DEF TheEditor!RemoveStep
  <2>2. t \in StepList
    BY <1>0, <2>1, StepLists
  <2>3. PICK pg \in {"workflow", "crew"} : TheEditor!Edit(pg, d)
    BY <1>6 DEF TheEditor!RemoveStep
  <2> HIDE DEF t
  <2>4. d \in Drafts
    BY <1>2, <2>2
  <2> HIDE DEF d
  <2> QED
    BY <2>3, <2>4, EditTyped
<1>7. ASSUME NEW i \in DOMAIN editor.steps, NEW w \in TheEditor!Who,
             TheEditor!Edit("workflow", [editor EXCEPT !.steps = [editor.steps EXCEPT ![i] = [editor.steps[i] EXCEPT !.who = w]]])
      PROVE  EditorTyped'
  <2> DEFINE x == [editor.steps[i] EXCEPT !.who = w]
             t == [editor.steps EXCEPT ![i] = x]
             d == [editor EXCEPT !.steps = t]
  <2>1. TheEditor!Edit("workflow", d)
    BY <1>7
  <2>2. x \in TheEditor!Step
    BY <1>3
  <2> HIDE DEF x
  <2>3. t \in StepList
    BY <1>0, <2>2, StepLists
  <2> HIDE DEF t
  <2>4. d \in Drafts
    BY <1>2, <2>3
  <2> HIDE DEF d
  <2> QED
    BY <2>1, <2>4, EditTyped
<1>8. ASSUME NEW i, TheEditor!SwitchType(i) PROVE EditorTyped'
  <2>1. i \in DOMAIN editor.steps
        /\ TheEditor!Edit("workflow", [editor EXCEPT !.steps = [editor.steps EXCEPT ![i] = [editor.steps[i] EXCEPT !.who = "unset"]]])
    BY <1>8 DEF TheEditor!SwitchType
  <2>2. "unset" \in TheEditor!Who
    BY DEF TheEditor!Who
  <2> QED
    BY <1>7, <2>1, <2>2
<1>9. ASSUME NEW i, TheEditor!PickWorkflow(i) PROVE EditorTyped'
  <2> DEFINE w == IF editor.steps[i].who = "nested" THEN "nested" ELSE "picked"
  <2>1. i \in DOMAIN editor.steps
        /\ TheEditor!Edit("workflow", [editor EXCEPT !.steps = [editor.steps EXCEPT ![i] = [editor.steps[i] EXCEPT !.who = w]]])
    BY <1>9 DEF TheEditor!PickWorkflow
  <2>2. w \in TheEditor!Who
    BY DEF TheEditor!Who
  <2> HIDE DEF w
  <2> QED
    BY <1>7, <2>1, <2>2
<1>10. ASSUME NEW i, TheEditor!MoveUp(i) PROVE EditorTyped'
  <2> DEFINE t == [editor.steps EXCEPT ![i - 1] = editor.steps[i], ![i] = editor.steps[i - 1]]
             d == [editor EXCEPT !.steps = t]
  <2>1. i \in DOMAIN editor.steps \ {1} /\ TheEditor!Edit("crew", d)
    BY <1>10 DEF TheEditor!MoveUp
  <2>2. i - 1 \in DOMAIN editor.steps
    <3>1. Len(editor.steps) \in Nat /\ DOMAIN editor.steps = 1 .. Len(editor.steps)
      BY <1>0 DEF StepList
    <3> QED
      BY <2>1, <3>1
  <2>3. editor.steps[i] \in TheEditor!Step /\ editor.steps[i - 1] \in TheEditor!Step
    BY <1>1, <2>1, <2>2
  <2>4. t \in StepList
    BY <1>0, <2>3, StepLists
  <2> HIDE DEF t
  <2>5. d \in Drafts
    BY <1>2, <2>4
  <2> HIDE DEF d
  <2> QED
    BY <2>1, <2>5, EditTyped
<1> QED
  BY <1>4, <1>5, <1>6, <1>8, <1>9, <1>10

LEMMA EditorStaysTyped ==
    ASSUME TheEditor!EditorAssumption, EditorTyped, TheEditor!Next PROVE EditorTyped'
<1>0. /\ doc \in Contents /\ editorCopy \in [of : Contents, failed : BOOLEAN] /\ editor \in Drafts
      /\ save \in [Saves -> SaveCalls] /\ editorGet \in Gets /\ run \in [Runs -> RunStates]
      /\ known \in Knowns /\ editorLook \in Looked /\ EditorRest /\ EditorCounts
      /\ ReportInv'
  BY ReportNext DEF EditorTyped
<1>1. ASSUME TheEditor!StartEditing PROVE EditorTyped'
  <2>2. doc' = doc /\ editorCopy' = editorCopy /\ save' = save /\ editorGet' = editorGet /\ run' = run /\ known' = known /\ editorLook' = editorLook
    BY <1>1 DEF TheEditor!StartEditing
  <2>3. editor' \in Drafts
    BY <1>0, <1>1 DEF TheEditor!StartEditing, Drafts, Contents
  <2>4. EditorRest'
    BY <1>0, <1>1 DEF TheEditor!StartEditing, EditorRest
  <2>5. EditorCounts'
    BY <1>0, <1>1, EditorCount DEF TheEditor!StartEditing, EditorCounts
  <2> QED
    BY <1>0, <2>2, <2>3, <2>4, <2>5 DEF EditorTyped
<1>2. ASSUME TheEditor!CancelEditing PROVE EditorTyped'
  <2>2. doc' = doc /\ editorCopy' = editorCopy /\ editorGet' = editorGet /\ run' = run /\ known' = known /\ editorLook' = editorLook
    BY <1>2 DEF TheEditor!CancelEditing
  <2>3. editor' \in Drafts
    BY <1>0, <1>2 DEF TheEditor!CancelEditing, TheEditor!Closed, Drafts
  <2>4. save' \in [Saves -> SaveCalls]
    BY <1>0, <1>2 DEF TheEditor!CancelEditing, SaveCalls
  <2>5. EditorRest'
    BY <1>0, <1>2 DEF TheEditor!CancelEditing, EditorRest
  <2>6. EditorCounts'
    BY <1>0, <1>2, EditorCount DEF TheEditor!CancelEditing, EditorCounts
  <2> QED
    BY <1>0, <2>2, <2>3, <2>4, <2>5, <2>6 DEF EditorTyped
<1>3. ASSUME TheEditor!OpenPicker PROVE EditorTyped'
  <2>0. PICK g \in {-1} \cup TheEditor!GroupsOf(editor.steps) : editor' = [editor EXCEPT !.picker = g]
    BY <1>3 DEF TheEditor!OpenPicker, TheEditor!NewGroup
  <2>1. g \in {-1} \cup Nat
    <3>1. editor.steps \in StepList
      BY <1>0 DEF Drafts
    <3>2. \A j \in DOMAIN editor.steps : editor.steps[j] \in TheEditor!Step
      BY <3>1, SequencesAre DEF StepList
    <3>3. \A j \in DOMAIN editor.steps : editor.steps[j].group \in Nat
      BY <3>2 DEF TheEditor!Step
    <3> QED
      BY <3>3 DEF TheEditor!GroupsOf
  <2>2. doc' = doc /\ editorCopy' = editorCopy /\ save' = save /\ editorGet' = editorGet /\ run' = run /\ known' = known /\ editorLook' = editorLook
    BY <1>3 DEF TheEditor!OpenPicker
  <2>3. editor' \in Drafts
    BY <1>0, <2>0, <2>1 DEF Drafts
  <2>4. EditorRest'
    BY <1>0, <1>3 DEF TheEditor!OpenPicker, EditorRest
  <2>5. EditorCounts'
    BY <1>0, <1>3, EditorCount DEF TheEditor!OpenPicker, EditorCounts
  <2> QED
    BY <1>0, <2>2, <2>3, <2>4, <2>5 DEF EditorTyped
<1>4. ASSUME NEW a \in Agents, TheEditor!PollTask(a) PROVE EditorTyped'
  <2>2. doc' = doc /\ editorCopy' = editorCopy /\ editor' = editor /\ save' = save /\ editorGet' = editorGet /\ run' = run /\ known' = known /\ editorLook' = editorLook
    BY <1>4 DEF TheEditor!PollTask
  <2>3. EditorRest'
    BY <1>0, <1>4 DEF TheEditor!PollTask, EditorRest
  <2>4. EditorCounts'
    BY <1>0, <1>4, EditorCount DEF TheEditor!PollTask, EditorCounts
  <2> QED
    BY <1>0, <2>2, <2>3, <2>4 DEF EditorTyped
<1>5. ASSUME NEW v \in Saves, TheEditor!Save(v) PROVE EditorTyped'
  <2>1. TheEditor!Payload \in Contents
    BY <1>0, PayloadFits
  <2>2. doc' = doc /\ editorCopy' = editorCopy /\ editor' = editor /\ editorGet' = editorGet /\ run' = run /\ known' = known /\ editorLook' = editorLook
    BY <1>5 DEF TheEditor!Save
  <2>3. save' \in [Saves -> SaveCalls]
    BY <1>0, <1>5, <2>1 DEF TheEditor!Save, SaveCalls
  <2>4. EditorRest'
    BY <1>0, <1>5 DEF TheEditor!Save, EditorRest
  <2>5. EditorCounts'
    BY <1>0, <1>5, EditorCount DEF TheEditor!Save, EditorCounts
  <2> QED
    BY <1>0, <2>2, <2>3, <2>4, <2>5 DEF EditorTyped
<1>6. ASSUME NEW v \in Saves, TheEditor!ServeSave(v) PROVE EditorTyped'
  <2>1. save[v] \in SaveCalls /\ save[v].is \in Contents /\ doc.rev + 1 \in Nat
    BY <1>0 DEF SaveCalls, Contents
  <2>2. editorCopy' = editorCopy /\ editor' = editor /\ editorGet' = editorGet /\ run' = run /\ known' = known /\ editorLook' = editorLook
    BY <1>6 DEF TheEditor!ServeSave
  <2>3. doc' \in Contents
    BY <1>0, <1>6, <2>1, AcceptFits DEF TheEditor!ServeSave
  <2>4. save' \in [Saves -> SaveCalls]
    <3>1. CASE save' = [save EXCEPT ![v].at = "refused"]
      BY <1>0, <3>1 DEF SaveCalls
    <3>2. CASE save' = [save EXCEPT ![v].at = "saved", ![v].is.rev = doc.rev + 1]
      <4> DEFINE x == [save[v].is EXCEPT !.rev = doc.rev + 1]
                 c == [save[v] EXCEPT !.at = "saved", !.is = x]
      <4>1. x \in Contents
        BY <2>1 DEF Contents
      <4>2. save' = [save EXCEPT ![v] = c]
        <5>1. [save EXCEPT ![v].at = "saved", ![v].is.rev = doc.rev + 1]
              = [save EXCEPT ![v] = [save[v] EXCEPT !.at = "saved", !.is.rev = doc.rev + 1]]
          BY <1>0, ZenonT(20)
        <5>2. [save[v] EXCEPT !.at = "saved", !.is.rev = doc.rev + 1] = c
          BY <2>1, ZenonT(20) DEF SaveCalls
        <5> QED
          BY <3>2, <5>1, <5>2
      <4> HIDE DEF x
      <4>3. c \in SaveCalls
        BY <2>1, <4>1 DEF SaveCalls
      <4> HIDE DEF c
      <4> QED
        BY <1>0, <4>2, <4>3
    <3> QED
      BY <1>6, <3>1, <3>2 DEF TheEditor!ServeSave
  <2>5. EditorRest'
    BY <1>0, <1>6 DEF TheEditor!ServeSave, EditorRest
  <2>6. EditorCounts'
    BY <1>0, <1>6, EditorCount DEF TheEditor!ServeSave, EditorCounts
  <2> QED
    BY <1>0, <2>2, <2>3, <2>4, <2>5, <2>6 DEF EditorTyped
<1>7. ASSUME NEW v \in Saves, TheEditor!LoseSave(v) PROVE EditorTyped'
  <2>1. save[v] \in SaveCalls /\ save[v].is \in Contents
    BY <1>0 DEF SaveCalls
  <2>2. editorCopy' = editorCopy /\ editor' = editor /\ editorGet' = editorGet /\ run' = run /\ known' = known /\ editorLook' = editorLook
    BY <1>7 DEF TheEditor!LoseSave
  <2>3. doc' \in Contents
    BY <1>0, <1>7, <2>1, AcceptFits DEF TheEditor!LoseSave
  <2>4. save' \in [Saves -> SaveCalls]
    BY <1>0, <1>7 DEF TheEditor!LoseSave, SaveCalls
  <2>5. EditorRest'
    BY <1>0, <1>7 DEF TheEditor!LoseSave, EditorRest
  <2>6. EditorCounts'
    BY <1>0, <1>7, EditorCount DEF TheEditor!LoseSave, EditorCounts
  <2> QED
    BY <1>0, <2>2, <2>3, <2>4, <2>5, <2>6 DEF EditorTyped
<1>8. ASSUME NEW v \in Saves, TheEditor!HearSave(v) PROVE EditorTyped'
  <2>2. doc' = doc /\ editorCopy' = editorCopy /\ editor' = editor /\ run' = run /\ known' = known
    BY <1>8 DEF TheEditor!HearSave
  <2>3. save' \in [Saves -> SaveCalls]
    <3>1. save' = [save EXCEPT ![v].at = "fetch"] \/ save' = [save EXCEPT ![v] = TheEditor!NoSave]
      BY <1>8 DEF TheEditor!HearSave
    <3>2. CASE save' = [save EXCEPT ![v].at = "fetch"]
      BY <1>0, <3>2 DEF SaveCalls
    <3>3. CASE save' = [save EXCEPT ![v] = TheEditor!NoSave]
      BY <1>0, <3>3, NothingTyped
    <3> QED
      BY <3>1, <3>2, <3>3
  <2>4. editorGet' \in Gets
    <3>1. {v} \in SUBSET Saves /\ {} \in SUBSET Saves
      OBVIOUS
    <3>2. editorGet' \in {editorGet, TheEditor!Fetch({v}, {})}
      BY <1>8 DEF TheEditor!HearSave
    <3> QED
      BY <1>0, <3>1, <3>2, FetchFits
  <2>5. editorLook' \in Looked
    <3>1. editorLook' \in {editorLook, TheEditor!Look({v})}
      BY <1>8 DEF TheEditor!HearSave
    <3> QED
      BY <1>0, <3>1, FetchFits
  <2>6. EditorRest'
    BY <1>0, <1>8 DEF TheEditor!HearSave, EditorRest
  <2>7. EditorCounts'
    BY <1>0, <1>8, EditorCount DEF TheEditor!HearSave, EditorCounts
  <2> QED
    BY <1>0, <2>2, <2>3, <2>4, <2>5, <2>6, <2>7 DEF EditorTyped
<1>9. ASSUME NEW v \in Saves, TheEditor!Close(v) PROVE EditorTyped'
  <2>2. doc' = doc /\ editorCopy' = editorCopy /\ editorGet' = editorGet /\ run' = run /\ known' = known /\ editorLook' = editorLook
    BY <1>9 DEF TheEditor!Close
  <2>3. editor' \in Drafts
    BY <1>0, <1>9 DEF TheEditor!Close, Drafts
  <2>4. save' \in [Saves -> SaveCalls]
    <3>1. save' = [w \in Saves |-> IF w = v THEN TheEditor!NoSave ELSE [save[w] EXCEPT !.own = FALSE]]
      BY <1>9 DEF TheEditor!Close
    <3>2. \A w \in Saves : [save[w] EXCEPT !.own = FALSE] \in SaveCalls
      BY <1>0 DEF SaveCalls
    <3> QED
      BY <3>1, <3>2, NothingTyped
  <2>5. EditorRest'
    BY <1>0, <1>9 DEF TheEditor!Close, EditorRest
  <2>6. EditorCounts'
    BY <1>0, <1>9, EditorCount DEF TheEditor!Close, EditorCounts
  <2> QED
    BY <1>0, <2>2, <2>3, <2>4, <2>5, <2>6 DEF EditorTyped
<1>10. ASSUME TheEditor!AnswerGet PROVE EditorTyped'
  <2>2. doc' = doc /\ editor' = editor /\ save' = save /\ run' = run /\ known' = known /\ editorLook' = editorLook
    BY <1>10 DEF TheEditor!AnswerGet
  <2>3. editorGet' \in Gets
    <3>1. CASE editorGet' = [editorGet EXCEPT !.at = "answered", !.is = doc]
      BY <1>0, <3>1 DEF Gets
    <3> QED
      BY <1>10, <3>1, NothingTyped DEF TheEditor!AnswerGet
  <2>4. editorCopy' \in [of : Contents, failed : BOOLEAN]
    <3>1. CASE editorCopy' = [of |-> editorGet.is, failed |-> FALSE]
      <4>1. editorGet.is \in Contents
        BY <1>0 DEF Gets
      <4> QED
        BY <3>1, <4>1
    <3> QED
      BY <1>0, <1>10, <3>1 DEF TheEditor!AnswerGet
  <2>5. EditorRest'
    BY <1>0, <1>10 DEF TheEditor!AnswerGet, EditorRest
  <2>6. EditorCounts'
    BY <1>0, <1>10, EditorCount DEF TheEditor!AnswerGet, EditorCounts
  <2> QED
    BY <1>0, <2>2, <2>3, <2>4, <2>5, <2>6 DEF EditorTyped
<1>11. ASSUME TheEditor!LoseGet PROVE EditorTyped'
  <2>2. doc' = doc /\ editor' = editor /\ save' = save /\ run' = run /\ known' = known /\ editorLook' = editorLook
    BY <1>11 DEF TheEditor!LoseGet
  <2>3. editorGet' \in Gets
    BY <1>11, NothingTyped DEF TheEditor!LoseGet
  <2>4. editorCopy' \in [of : Contents, failed : BOOLEAN]
    BY <1>0, <1>11 DEF TheEditor!LoseGet
  <2>5. EditorRest'
    BY <1>0, <1>11 DEF TheEditor!LoseGet, EditorRest
  <2>6. EditorCounts'
    BY <1>0, <1>11, EditorCount DEF TheEditor!LoseGet, EditorCounts
  <2> QED
    BY <1>0, <2>2, <2>3, <2>4, <2>5, <2>6 DEF EditorTyped
<1>12. ASSUME TheEditor!Elsewhere PROVE EditorTyped'
  <2>2. editorCopy' = editorCopy /\ editor' = editor /\ save' = save /\ editorGet' = editorGet /\ run' = run /\ known' = known /\ editorLook' = editorLook
    BY <1>12 DEF TheEditor!Elsewhere
  <2>3. doc' \in Contents
    <3>1. doc.rev + 1 \in Nat
      BY <1>0 DEF Contents
    <3>2. doc' = [doc EXCEPT !.text = "new", !.rev = doc.rev + 1]
      BY <1>12 DEF TheEditor!Elsewhere
    <3> QED
      BY <1>0, <3>1, <3>2 DEF Contents
  <2>4. EditorRest'
    BY <1>0, <1>12 DEF TheEditor!Elsewhere, EditorRest
  <2>5. EditorCounts'
    BY <1>0, <1>12, EditorCount DEF TheEditor!Elsewhere, EditorCounts
  <2> QED
    BY <1>0, <2>2, <2>3, <2>4, <2>5 DEF EditorTyped
<1>13. ASSUME TheEditor!AskToLeave PROVE EditorTyped'
  <2>2. doc' = doc /\ editorCopy' = editorCopy /\ editor' = editor /\ save' = save /\ editorGet' = editorGet /\ run' = run /\ known' = known /\ editorLook' = editorLook
    BY <1>13 DEF TheEditor!AskToLeave
  <2>3. EditorRest'
    BY <1>0, <1>13 DEF TheEditor!AskToLeave, EditorRest
  <2>4. EditorCounts'
    BY <1>0, <1>13, EditorCount DEF TheEditor!AskToLeave, EditorCounts
  <2> QED
    BY <1>0, <2>2, <2>3, <2>4 DEF EditorTyped
<1>14. ASSUME TheEditor!Leave PROVE EditorTyped'
  <2>2. doc' = doc /\ editorCopy' = editorCopy /\ run' = run
    BY <1>14 DEF TheEditor!Leave
  <2>3. editor' \in Drafts
    BY <1>0, <1>14, NothingTyped DEF TheEditor!Leave
  <2>4. editorGet' \in Gets
    BY <1>0, <1>14, NothingTyped DEF TheEditor!Leave
  <2>5. editorLook' \in Looked
    BY <1>0, <1>14, NothingTyped DEF TheEditor!Leave
  <2>6. known' \in Knowns
    BY <1>0, <1>14, NothingTyped DEF TheEditor!Leave
  <2>7. save' \in [Saves -> SaveCalls]
    <3>1. \/ save' = save
          \/ save' = [v \in Saves |-> IF save[v].at = "fetch" THEN TheEditor!NoSave ELSE [save[v] EXCEPT !.own = FALSE]]
      BY <1>14 DEF TheEditor!Leave
    <3>2. \A w \in Saves : [save[w] EXCEPT !.own = FALSE] \in SaveCalls
      BY <1>0 DEF SaveCalls
    <3> QED
      BY <1>0, <3>1, <3>2, NothingTyped
  <2>8. EditorRest'
    BY <1>0, <1>14 DEF TheEditor!Leave, EditorRest
  <2>9. EditorCounts'
    BY <1>0, <1>14, EditorCount DEF TheEditor!Leave, EditorCounts
  <2> QED
    BY <1>0, <2>2, <2>3, <2>4, <2>5, <2>6, <2>7, <2>8, <2>9 DEF EditorTyped
<1>15. ASSUME NEW r \in Runs, TheEditor!Execute(r) PROVE EditorTyped'
  <2>2. doc' = doc /\ editorCopy' = editorCopy /\ editor' = editor /\ save' = save /\ editorGet' = editorGet /\ run' = run /\ known' = known /\ editorLook' = editorLook
    BY <1>15 DEF TheEditor!Execute
  <2>3. EditorRest'
    BY <1>0, <1>15 DEF TheEditor!Execute, EditorRest
  <2>4. EditorCounts'
    BY <1>0, <1>15, EditorCount DEF TheEditor!Execute, EditorCounts
  <2> QED
    BY <1>0, <2>2, <2>3, <2>4 DEF EditorTyped
<1>16. ASSUME NEW r \in Runs, TheEditor!RunCrew(r) PROVE EditorTyped'
  <2>2. doc' = doc /\ editorCopy' = editorCopy /\ editor' = editor /\ save' = save /\ editorGet' = editorGet /\ run' = run /\ known' = known /\ editorLook' = editorLook
    BY <1>16 DEF TheEditor!RunCrew
  <2>3. EditorRest'
    BY <1>0, <1>16 DEF TheEditor!RunCrew, EditorRest
  <2>4. EditorCounts'
    BY <1>0, <1>16, EditorCount DEF TheEditor!RunCrew, EditorCounts
  <2> QED
    BY <1>0, <2>2, <2>3, <2>4 DEF EditorTyped
<1>17. ASSUME NEW r \in Runs, TheEditor!ServeRun(r) PROVE EditorTyped'
  <2>2. doc' = doc /\ editorCopy' = editorCopy /\ editor' = editor /\ save' = save /\ editorGet' = editorGet /\ known' = known /\ editorLook' = editorLook
    BY <1>17 DEF TheEditor!ServeRun
  <2>3. run' \in [Runs -> RunStates]
    BY <1>0, <1>17, BegunFits DEF TheEditor!ServeRun
  <2>4. EditorRest'
    BY <1>0, <1>17 DEF TheEditor!ServeRun, EditorRest
  <2>5. EditorCounts'
    BY <1>0, <1>17, EditorCount DEF TheEditor!ServeRun, EditorCounts
  <2> QED
    BY <1>0, <2>2, <2>3, <2>4, <2>5 DEF EditorTyped
<1>18. ASSUME NEW r \in Runs, TheEditor!LoseRun(r) PROVE EditorTyped'
  <2>2. doc' = doc /\ editorCopy' = editorCopy /\ editor' = editor /\ save' = save /\ editorGet' = editorGet /\ known' = known /\ editorLook' = editorLook
    BY <1>18 DEF TheEditor!LoseRun
  <2>3. run' \in [Runs -> RunStates]
    BY <1>0, <1>18, BegunFits DEF TheEditor!LoseRun
  <2>4. EditorRest'
    BY <1>0, <1>18 DEF TheEditor!LoseRun, EditorRest
  <2>5. EditorCounts'
    BY <1>0, <1>18, EditorCount DEF TheEditor!LoseRun, EditorCounts
  <2> QED
    BY <1>0, <2>2, <2>3, <2>4, <2>5 DEF EditorTyped
<1>19. ASSUME NEW r \in Runs, TheEditor!HearRun(r) PROVE EditorTyped'
  <2>2. doc' = doc /\ editorCopy' = editorCopy /\ editor' = editor /\ save' = save /\ editorGet' = editorGet /\ run' = run /\ known' = known
    BY <1>19 DEF TheEditor!HearRun
  <2>3. editorLook' \in Looked
    BY <1>0, <1>19, FetchFits DEF TheEditor!HearRun
  <2>4. EditorRest'
    BY <1>0, <1>19 DEF TheEditor!HearRun, EditorRest
  <2>5. EditorCounts'
    BY <1>0, <1>19, EditorCount DEF TheEditor!HearRun, EditorCounts
  <2> QED
    BY <1>0, <2>2, <2>3, <2>4, <2>5 DEF EditorTyped
<1>20. ASSUME NEW r \in Runs, TheEditor!RunGoes(r) PROVE EditorTyped'
  <2>2. doc' = doc /\ editorCopy' = editorCopy /\ editor' = editor /\ save' = save /\ editorGet' = editorGet /\ known' = known /\ editorLook' = editorLook
    BY <1>20 DEF TheEditor!RunGoes
  <2>3. run' \in [Runs -> RunStates]
    <3>1. ASSUME NEW a \in Agents, run' = [run EXCEPT ![r].ended = @ \cup {a}] PROVE run' \in [Runs -> RunStates]
      BY <1>0, <3>1 DEF RunStates
    <3>2. CASE run' = [run EXCEPT ![r].at = "ended"]
      BY <1>0, <3>2 DEF RunStates
    <3> QED
      BY <1>20, <3>1, <3>2 DEF TheEditor!RunGoes
  <2>4. EditorRest'
    BY <1>0, <1>20 DEF TheEditor!RunGoes, EditorRest
  <2>5. EditorCounts'
    BY <1>0, <1>20, EditorCount DEF TheEditor!RunGoes, EditorCounts
  <2> QED
    BY <1>0, <2>2, <2>3, <2>4, <2>5 DEF EditorTyped
<1>21. ASSUME TheEditor!Poll PROVE EditorTyped'
  <2>2. doc' = doc /\ editorCopy' = editorCopy /\ editor' = editor /\ save' = save /\ editorGet' = editorGet /\ run' = run /\ known' = known
    BY <1>21 DEF TheEditor!Poll
  <2>3. editorLook' \in Looked
    BY <1>21, FetchFits DEF TheEditor!Poll
  <2>4. EditorRest'
    BY <1>0, <1>21 DEF TheEditor!Poll, EditorRest
  <2>5. EditorCounts'
    BY <1>0, <1>21, EditorCount DEF TheEditor!Poll, EditorCounts
  <2> QED
    BY <1>0, <2>2, <2>3, <2>4, <2>5 DEF EditorTyped
<1>22. ASSUME TheEditor!AnswerLook PROVE EditorTyped'
  <2>2. doc' = doc /\ editorCopy' = editorCopy /\ editor' = editor /\ save' = save /\ editorGet' = editorGet /\ run' = run
    BY <1>22 DEF TheEditor!AnswerLook
  <2>3. editorLook' \in Looked
    <3>1. CASE editorLook' = [editorLook EXCEPT !.at = "answered", !.is = [r \in Runs |-> run[r].at]]
      <4>1. [r \in Runs |-> run[r].at] \in Knowns
        BY <1>0 DEF RunStates, Knowns
      <4> QED
        BY <1>0, <3>1, <4>1 DEF Looked
    <3> QED
      BY <1>22, <3>1, NothingTyped DEF TheEditor!AnswerLook
  <2>4. known' \in Knowns
    BY <1>0, <1>22 DEF TheEditor!AnswerLook, Looked
  <2>5. EditorRest'
    BY <1>0, <1>22 DEF TheEditor!AnswerLook, EditorRest
  <2>6. EditorCounts'
    BY <1>0, <1>22, EditorCount DEF TheEditor!AnswerLook, EditorCounts
  <2> QED
    BY <1>0, <2>2, <2>3, <2>4, <2>5, <2>6 DEF EditorTyped
<1>23. ASSUME TheEditor!LoseLook PROVE EditorTyped'
  <2>2. doc' = doc /\ editorCopy' = editorCopy /\ editor' = editor /\ save' = save /\ editorGet' = editorGet /\ run' = run /\ known' = known
    BY <1>23 DEF TheEditor!LoseLook
  <2>3. editorLook' \in Looked
    BY <1>23, NothingTyped DEF TheEditor!LoseLook
  <2>4. EditorRest'
    BY <1>0, <1>23 DEF TheEditor!LoseLook, EditorRest
  <2>5. EditorCounts'
    BY <1>0, <1>23, EditorCount DEF TheEditor!LoseLook, EditorCounts
  <2> QED
    BY <1>0, <2>2, <2>3, <2>4, <2>5 DEF EditorTyped
<1>24. ASSUME TheEditor!CancelStep PROVE EditorTyped'
  <2>2. doc' = doc /\ editorCopy' = editorCopy /\ editor' = editor /\ save' = save /\ editorGet' = editorGet /\ run' = run /\ known' = known /\ editorLook' = editorLook
    BY <1>24 DEF TheEditor!CancelStep
  <2>3. EditorRest'
    BY <1>0, <1>24 DEF TheEditor!CancelStep, EditorRest
  <2>4. EditorCounts'
    BY <1>0, <1>24, EditorCount DEF TheEditor!CancelStep, EditorCounts
  <2> QED
    BY <1>0, <2>2, <2>3, <2>4 DEF EditorTyped
<1>25. ASSUME TheEditor!HearCancel PROVE EditorTyped'
  <2>2. doc' = doc /\ editorCopy' = editorCopy /\ editor' = editor /\ save' = save /\ run' = run /\ known' = known
    BY <1>25 DEF TheEditor!HearCancel
  <2>3. editorGet' \in Gets
    <3>1. editorGet.awaits \in SUBSET Saves
      BY <1>0 DEF Gets
    <3>2. editorGet' \in {editorGet, TheEditor!Fetch({}, editorGet.awaits)}
      BY <1>25 DEF TheEditor!HearCancel
    <3> QED
      BY <1>0, <3>1, <3>2, FetchFits
  <2>4. editorLook' \in Looked
    BY <1>0, <1>25, FetchFits DEF TheEditor!HearCancel
  <2>5. EditorRest'
    BY <1>0, <1>25 DEF TheEditor!HearCancel, EditorRest
  <2>6. EditorCounts'
    BY <1>0, <1>25, EditorCount DEF TheEditor!HearCancel, EditorCounts
  <2> QED
    BY <1>0, <2>2, <2>3, <2>4, <2>5, <2>6 DEF EditorTyped
<1>26. ASSUME TheEditor!NewRun PROVE EditorTyped'
  <2>2. doc' = doc /\ editorCopy' = editorCopy /\ editor' = editor /\ save' = save /\ editorGet' = editorGet /\ run' = run /\ known' = known /\ editorLook' = editorLook
    BY <1>26 DEF TheEditor!NewRun
  <2>3. EditorRest'
    BY <1>0, <1>26 DEF TheEditor!NewRun, EditorRest
  <2>4. EditorCounts'
    BY <1>0, <1>26, EditorCount DEF TheEditor!NewRun, EditorCounts
  <2> QED
    BY <1>0, <2>2, <2>3, <2>4 DEF EditorTyped
<1> QED
  BY <1>0, EditsAreTyped, <1>1, <1>2, <1>3, <1>4, <1>5, <1>6, <1>7, <1>8, <1>9, <1>10, <1>11, <1>12, <1>13, <1>14, <1>15, <1>16, <1>17, <1>18, <1>19, <1>20, <1>21, <1>22, <1>23, <1>24, <1>25, <1>26 DEF TheEditor!Next
=============================================================================
