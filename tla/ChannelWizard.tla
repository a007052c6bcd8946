---------------------------- MODULE ChannelWizard ---------------------------
(***************************************************************************)
(* The sheet that connects a bot to a messaging platform in four steps     *)
(* (settings/channel-wizard.tsx), with the backend's creation of a channel *)
(* (channel_service.py) and the gateway's endpoints for the browser        *)
(* (cloudflare/gateway-worker.js: /auto-setup-discord, /auto-register,     *)
(* /auto-register-discord, /register-webhook).                             *)
(*                                                                         *)
(* A bot token stands for the platform's application behind it, with its   *)
(* id and its public key. The platform delivers what is said to an         *)
(* application to one endpoint, the last one set. The sheet can be closed  *)
(* and opened again with its requests on their way: a handler goes on with *)
(* what it read when it was clicked, and writes on the sheet of then.      *)
(***************************************************************************)
EXTENDS Naturals, FiniteSets

CONSTANTS Platforms,           \* of "discord", "telegram", "slack"
          Tokens, NoToken,
          Checks,              \* verifications of a token
          Channels, NoChannel,
          MaxClicks, MaxFaults

WizardAssumption ==
    /\ Platforms \subseteq {"discord", "telegram", "slack"}
    /\ NoToken \notin Tokens /\ NoChannel \notin Channels
    /\ {MaxClicks, MaxFaults} \subseteq Nat

VARIABLES wizard,    \* the sheet
          discord,   \* what it knows of the Discord application
          check,     \* the verifications
          making,    \* the channels asked for
          pending,   \* the creation the Create button waits for
          endpoint,  \* the channel an application's messages go to
          past, clicks, faults

vars == <<wizard, discord, check, making, pending, endpoint, past, clicks, faults>>

-----------------------------------------------------------------------------
NoPlatform == "none"
Blank == [step |-> 0, platform |-> NoPlatform, token |-> NoToken, ids |-> NoToken,
          filled |-> FALSE, agent |-> FALSE, created |-> NoChannel]
Unverified == [verified |-> FALSE, loading |-> FALSE, invited |-> FALSE, set |-> FALSE]
NoCheck == [at |-> "none", token |-> NoToken]
NotMade == [at |-> "none", platform |-> NoPlatform, token |-> NoToken, ids |-> NoToken]

TypeOK ==
    /\ wizard \in [step : 0 .. 3, platform : Platforms \cup {NoPlatform},
                   token : Tokens \cup {NoToken}, ids : Tokens \cup {NoToken},
                   filled : BOOLEAN, agent : BOOLEAN, created : Channels \cup {NoChannel}]
    /\ discord \in [verified : BOOLEAN, loading : BOOLEAN, invited : BOOLEAN, set : BOOLEAN]
    /\ check \in [Checks -> [at : {"none", "sent", "valid", "refused", "over"}, token : Tokens \cup {NoToken}]]
    /\ making \in [Channels -> [at : {"none", "sent", "made", "refused", "register", "set", "unset", "over"},
                                platform : Platforms \cup {NoPlatform},
                                token : Tokens \cup {NoToken}, ids : Tokens \cup {NoToken}]]
    /\ pending \in Channels \cup {NoChannel}
    /\ endpoint \in [Tokens -> Channels \cup {NoChannel}]
    /\ past \subseteq {"closed", "mixed", "twice"}
    /\ clicks \in 0 .. MaxClicks /\ faults \in 0 .. MaxFaults

Init ==
    /\ wizard = Blank /\ discord = Unverified
    /\ check = [c \in Checks |-> NoCheck]
    /\ making = [c \in Channels |-> NotMade] /\ pending = NoChannel
    /\ endpoint = [t \in Tokens |-> NoChannel]
    /\ past = {} /\ clicks = 0 /\ faults = 0

Click == clicks < MaxClicks /\ clicks' = clicks + 1
Fault == faults < MaxFaults /\ faults' = faults + 1

OnItsWay(c) == making[c].at \notin {"none", "over"}
Checking(c) == check[c].at \in {"sent", "valid", "refused"}

-----------------------------------------------------------------------------
(* The steps                                                               *)

ChoosePlatform(p) ==
    /\ wizard.step = 0 /\ wizard.platform # p
    /\ wizard' = [wizard EXCEPT !.platform = p]
    /\ UNCHANGED <<discord, check, making, pending, endpoint, past, clicks, faults>>

\* The verification is undone with the token it is of - if it is over, and the platform is
\* still the one it was made for. A token typed otherwise mixes what is known of two.
TypeToken(t) ==
    /\ wizard.step = 1 /\ wizard.token # t
    /\ Click
    /\ wizard' = [wizard EXCEPT !.token = t]
    /\ LET undone == wizard.platform = "discord" /\ discord.verified IN
       /\ discord' = IF undone THEN Unverified ELSE discord
       /\ past' = IF ~ undone /\ (discord.verified \/ \E c \in Checks : Checking(c))
                  THEN past \cup {"mixed"} ELSE past
    /\ UNCHANGED <<check, making, pending, endpoint, faults>>

\* The name, the privacy notice, the other credentials, the acknowledgement of a fee.
Fill ==
    /\ wizard.step = 1 /\ ~ wizard.filled
    /\ wizard' = [wizard EXCEPT !.filled = TRUE]
    /\ UNCHANGED <<discord, check, making, pending, endpoint, past, clicks, faults>>

Invite ==
    /\ wizard.step = 1 /\ wizard.platform = "discord" /\ discord.verified /\ ~ discord.invited
    /\ discord' = [discord EXCEPT !.invited = TRUE]
    /\ UNCHANGED <<wizard, check, making, pending, endpoint, past, clicks, faults>>

ChooseAgent ==
    /\ wizard.step = 2 /\ ~ wizard.agent
    /\ wizard' = [wizard EXCEPT !.agent = TRUE]
    /\ UNCHANGED <<discord, check, making, pending, endpoint, past, clicks, faults>>

canProceed ==
    CASE wizard.step = 0 -> wizard.platform # NoPlatform
      [] wizard.step = 1 -> /\ wizard.platform # NoPlatform
                            /\ wizard.filled /\ wizard.token # NoToken
                            /\ wizard.platform = "discord" => discord.verified /\ discord.invited
      [] wizard.step = 2 -> wizard.agent

StepForward ==
    /\ wizard.step < 2 /\ canProceed
    /\ wizard' = [wizard EXCEPT !.step = @ + 1]
    /\ UNCHANGED <<discord, check, making, pending, endpoint, past, clicks, faults>>

StepBack ==
    /\ wizard.step \in {1, 2}
    /\ Click
    /\ wizard' = [wizard EXCEPT !.step = @ - 1]
    /\ UNCHANGED <<discord, check, making, pending, endpoint, past, faults>>

\* Everything is reset but what is on its way.
handleClose ==
    /\ wizard # Blank
    /\ Click
    /\ wizard' = Blank /\ discord' = Unverified
    /\ past' = past \cup (IF \E c \in Channels : OnItsWay(c) THEN {"closed"} ELSE {})
                    \cup (IF \E c \in Checks : Checking(c) THEN {"mixed"} ELSE {})
    /\ UNCHANGED <<check, making, pending, endpoint, faults>>

-----------------------------------------------------------------------------
(* Discord's verification                                                  *)

handleDiscordVerify(c) ==
    /\ wizard.step = 1 /\ wizard.platform = "discord" /\ wizard.token # NoToken
    /\ ~ discord.verified /\ ~ discord.loading /\ check[c].at = "none"
    /\ Click
    /\ check' = [check EXCEPT ![c] = [at |-> "sent", token |-> wizard.token]]
    /\ discord' = [discord EXCEPT !.loading = TRUE]
    /\ UNCHANGED <<wizard, making, pending, endpoint, past, faults>>

\* A token that is not one, a limit of five calls a minute, an answer that does not come.
AutoSetup(c) ==
    /\ check[c].at = "sent"
    /\ \/ check' = [check EXCEPT ![c].at = "valid"] /\ UNCHANGED faults
       \/ check' = [check EXCEPT ![c].at = "refused"] /\ Fault
    /\ UNCHANGED <<wizard, discord, making, pending, endpoint, past, clicks>>

HearVerify(c) ==
    /\ check[c].at \in {"valid", "refused"}
    /\ check' = [check EXCEPT ![c].at = "over"]
    /\ IF check[c].at = "valid"
       THEN /\ wizard' = [wizard EXCEPT !.ids = check[c].token]
            /\ discord' = [Unverified EXCEPT !.verified = TRUE]
       ELSE /\ discord' = [discord EXCEPT !.loading = FALSE]
            /\ UNCHANGED wizard
    /\ UNCHANGED <<making, pending, endpoint, past, clicks, faults>>

-----------------------------------------------------------------------------
(* The creation                                                            *)

\* The button waits for the creation, and not for the registration that follows it.
handleSubmit(c) ==
    /\ wizard.step = 2 /\ canProceed /\ making[c].at = "none"
    /\ pending # NoChannel => making[pending].at \notin {"sent", "made", "refused"}
    /\ Click
    /\ making' = [making EXCEPT ![c] = [at |-> "sent", platform |-> wizard.platform,
                                        token |-> wizard.token, ids |-> wizard.ids]]
    /\ pending' = c
    /\ past' = IF \E d \in Channels : OnItsWay(d) THEN past \cup {"twice"} ELSE past
    /\ UNCHANGED <<wizard, discord, check, endpoint, faults>>

\* The backend has the gateway set a Telegram bot's webhook, and calls the channel active
\* whatever comes of it.
create_channel(c) ==
    /\ making[c].at = "sent"
    /\ \/ /\ making' = [making EXCEPT ![c].at = "made"]
          /\ \/ making[c].platform = "telegram" /\ endpoint' = [endpoint EXCEPT ![making[c].token] = c]
             \/ UNCHANGED endpoint
          /\ UNCHANGED faults
       \/ making' = [making EXCEPT ![c].at = "refused"] /\ Fault /\ UNCHANGED endpoint
    /\ UNCHANGED <<wizard, discord, check, pending, past, clicks>>

HearCreate(c) ==
    /\ making[c].at \in {"made", "refused"}
    /\ IF making[c].at = "refused"
       THEN making' = [making EXCEPT ![c] = NotMade] /\ UNCHANGED wizard
       ELSE IF making[c].platform = "slack"
       THEN /\ making' = [making EXCEPT ![c].at = "over"]
            /\ wizard' = [wizard EXCEPT !.created = c, !.step = 3]
       ELSE /\ making' = [making EXCEPT ![c].at = "register"]
            /\ wizard' = [wizard EXCEPT !.created = c]
    /\ UNCHANGED <<discord, check, pending, endpoint, past, clicks, faults>>

\* A Discord endpoint is set only if it answers Discord's ping, which the gateway checks
\* with the public key the channel was made with.
AutoRegister(c) ==
    /\ making[c].at = "register"
    /\ \/ /\ making[c].platform = "discord" => making[c].ids = making[c].token
          /\ endpoint' = [endpoint EXCEPT ![making[c].token] = c]
          /\ \/ making' = [making EXCEPT ![c].at = "set"] /\ UNCHANGED faults
             \/ making' = [making EXCEPT ![c].at = "unset"] /\ Fault  \* the answer is lost
       \/ /\ making' = [making EXCEPT ![c].at = "unset"]
          /\ UNCHANGED <<endpoint, faults>>
    /\ UNCHANGED <<wizard, discord, check, pending, past, clicks>>

\* Registered or not, the last step is next.
HearRegister(c) ==
    /\ making[c].at \in {"set", "unset"}
    /\ making' = [making EXCEPT ![c].at = "over"]
    /\ discord' = [discord EXCEPT !.set = @ \/ (making[c].platform = "discord" /\ making[c].at = "set")]
    /\ wizard' = [wizard EXCEPT !.step = 3]
    /\ UNCHANGED <<check, pending, endpoint, past, clicks, faults>>

-----------------------------------------------------------------------------
Next ==
    \/ \E p \in Platforms : ChoosePlatform(p)
    \/ \E t \in Tokens : TypeToken(t)
    \/ Fill \/ Invite \/ ChooseAgent \/ StepForward \/ StepBack \/ handleClose
    \/ \E c \in Checks : handleDiscordVerify(c) \/ AutoSetup(c) \/ HearVerify(c)
    \/ \E c \in Channels : \/ handleSubmit(c) \/ create_channel(c) \/ HearCreate(c)
                           \/ AutoRegister(c) \/ HearRegister(c)

Spec == Init /\ [][Next]_vars

-----------------------------------------------------------------------------
(* A Discord channel is made with the id and the public key of its own     *)
(* token's application, whatever is verified, typed over and chosen again  *)
(* - unless the token was typed while a verification was on its way or     *)
(* kept under another platform, or the sheet was closed over one           *)
(* (handleDiscordVerify; the reset in the token's onChange).               *)
IdsAreOfToken ==
    \A c \in Channels : making[c].platform = "discord"
                          => making[c].ids = making[c].token \/ "mixed" \in past

(* "Your Discord bot is live!" is said of a channel that its application's *)
(* messages go to, whichever channels were connected to it before - unless *)
(* Create was clicked again or the sheet closed while a channel was being  *)
(* registered (handleSubmit, the sheet's last step).                       *)
LiveIsLive ==
    wizard.step = 3 /\ wizard.platform = "discord" /\ discord.set
        => \/ wizard.created # NoChannel /\ endpoint[making[wizard.created].token] = wizard.created
           \/ past \cap {"closed", "twice"} # {}
=============================================================================
