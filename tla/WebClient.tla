----------------------------- MODULE WebClient -----------------------------
(***************************************************************************)
(* The pages of the web client with the parts of the service behind them,  *)
(* for the model checker.  The router has one page mounted and a page's    *)
(* state goes with it, so a behaviour stays in one section, the one it     *)
(* begins in; what the sections share - the accounts, the tasks - is in    *)
(* the models of the service.                                              *)
(***************************************************************************)
EXTENDS Naturals, Sequences

CONSTANTS Sections,                   \* those checked
          Me, NoName,                \* the user; no name
          MaxClicks,                  \* of a section
          MaxTries,                   \* the API client's
          MaxFaults,
          Accounts, Threads, MaxMoves,           \* of the session
          Chains, Newest, PollLimit,             \* of the feed
          MaxEvents, MaxFailures, MaxMounts, MaxEnds,
          Keys, Providers,            \* of the settings
          Goals, Plans, Items,        \* of the planner; schedules, workflows or crews
          Flows, Reviews, MaxPending, \* of the submissions
          Orgs, FirstOrg, Members, MaxOthers,    \* of the team; the other people
          Endpoints, OwnName, Registry, Looks,    \* of the forms
          Requests, Balance, Cleared, Minimum,   \* of the payouts
          OtherVoters, Results, MaxVotes,        \* of the community
          Tasks, Agents, Skills, Link,           \* of the console
          Calls, MaxResends,
          Documents, Runs, Saves, MaxSteps,      \* of the editor
          Queries, ShortText, Starters, Searches,    \* of the search box
          Listings, PerPage, MaxChanges,         \* of the directory
          Bots, Checks, Channels,                \* of the channels
          ThisChannel, Contacts, DailyLimits, Toggles,
          TableRows, PageSize, MaxOtherAdmins,   \* of the administrators
          Servers, FirstServer                   \* of tools

VARIABLE section

VARIABLES site, firebase, token, pass, session, sessionShown, sessionPage, leaving,
          thread, sessionPast, sessionFaults, moves
VARIABLES task, madeFor, screen, consoleForm, current, consoleCache, stream,
          consoleCall, toast, said, cut, consoleClicks, consoleFaults
VARIABLES editorPage, doc, editorCopy, editor, save, editorGet, run, known, editorLook,
          ask, editorResult, editorShown, editorPending, editorPast, editorClicks,
          editorFaults
VARIABLES plannerView, pattern, goal, plan, plannerRequest, act, state, ran,
          plannerCreate, item, plannerList, linked, sheet, plannerMaking,
          plannerToggling, plannerTarget, deleting, plannerPast, plannerClicks,
          plannerFaults
VARIABLES boxUser, query, loading, starter, due, searched, results, error, flights,
          last, hasty, boxClicks, boxFaults
VARIABLES directoryView, kind, f, p, search, narrow, directoryCache, asked, seen,
          directoryClicks, changes, directoryFaults
VARIABLES who, mounted, chain, events, stored, ring, created, ended, aged, mounts, feedFaults
VARIABLES communityOpen, message, communityResult, communityShown, communityGet, trial,
          vote, votes, upvotes, communityRaced, communityClicks, cast, communityFaults
VARIABLES selected, email, teamName, teamDialog, orgs, members, teams, teamGets,
          teamCalls, exists, role, hasTeam, removals, teamRaced, teamClicks, teamOthers,
          teamFaults
VARIABLES wizard, discord, check, wizardMaking, wizardPending, endpoint, wizardPast,
          wizardClicks, wizardFaults
VARIABLES channelsView, route, saved, channelsCopy, people, table, channelsForm, toggle,
          channelsToggling, channelsChange, channelsTarget, gate, channelsPast,
          channelsClicks, channelsFaults
VARIABLES submissionsRow, live, publish, mine, told, theirs, review, resend, remove,
          submissionsPast, submissionsClicks, submissionsFaults
VARIABLES formsView, step, formsUser, formsForm, detected, registered, formsLook,
          formsCreate, formsChange, agent, probe, formsPast, formsClicks, formsFaults
VARIABLES payoutsView, payoutsDialog, amount, payoutsShown, awaited, connect,
          payoutsRequest, account, payoutsCopy, sent, again, payoutsClicks, payoutsFaults
VARIABLES settingsOpen, limit, naming, settingsShown, revokeOpen, deleteOpen, provider,
          doomed, settingsListed, settingsCall, settingsUser, settingsPast,
          settingsClicks, settingsFaults
VARIABLES adminView, adminRow, adminList, adminGet, adminCalls, left, even, order,
          index, adminClicks, adminOthers, adminFaults
VARIABLES serversDialog, name, serversListed, serversGets, serversCalls, servers, tools,
          grants, used, serversClicks, serversFaults

sessionVars == <<site, firebase, token, pass, session, sessionShown, sessionPage,
                 leaving, thread, sessionPast, sessionFaults, moves>>
consoleVars == <<task, madeFor, screen, consoleForm, current, consoleCache, stream,
                 consoleCall, toast, said, cut, consoleClicks, consoleFaults>>
editorVars == <<editorPage, doc, editorCopy, editor, save, editorGet, run, known,
                editorLook, ask, editorResult, editorShown, editorPending, editorPast,
                editorClicks, editorFaults>>
plannerVars == <<plannerView, pattern, goal, plan, plannerRequest, act, state, ran,
                 plannerCreate, item, plannerList, linked, sheet, plannerMaking,
                 plannerToggling, plannerTarget, deleting, plannerPast, plannerClicks,
                 plannerFaults>>
boxVars == <<boxUser, query, loading, starter, due, searched, results, error, flights,
             last, hasty, boxClicks, boxFaults>>
directoryVars == <<directoryView, kind, f, p, search, narrow, directoryCache, asked,
                   seen, directoryClicks, changes, directoryFaults>>
feedVars == <<who, mounted, chain, events, stored, ring, created, ended, aged, mounts,
              feedFaults>>
communityVars == <<communityOpen, message, communityResult, communityShown,
                   communityGet, trial, vote, votes, upvotes, communityRaced,
                   communityClicks, cast, communityFaults>>
teamVars == <<selected, email, teamName, teamDialog, orgs, members, teams, teamGets,
              teamCalls, exists, role, hasTeam, removals, teamRaced, teamClicks,
              teamOthers, teamFaults>>
wizardVars == <<wizard, discord, check, wizardMaking, wizardPending, endpoint,
                wizardPast, wizardClicks, wizardFaults>>
channelsVars == <<channelsView, route, saved, channelsCopy, people, table, channelsForm,
                  toggle, channelsToggling, channelsChange, channelsTarget, gate,
                  channelsPast, channelsClicks, channelsFaults>>
submissionsVars == <<submissionsRow, live, publish, mine, told, theirs, review, resend,
                     remove, submissionsPast, submissionsClicks, submissionsFaults>>
formsVars == <<formsView, step, formsUser, formsForm, detected, registered, formsLook,
               formsCreate, formsChange, agent, probe, formsPast, formsClicks, formsFaults>>
payoutsVars == <<payoutsView, payoutsDialog, amount, payoutsShown, awaited, connect,
                 payoutsRequest, account, payoutsCopy, sent, again, payoutsClicks,
                 payoutsFaults>>
settingsVars == <<settingsOpen, limit, naming, settingsShown, revokeOpen, deleteOpen,
                  provider, doomed, settingsListed, settingsCall, settingsUser,
                  settingsPast, settingsClicks, settingsFaults>>
adminVars == <<adminView, adminRow, adminList, adminGet, adminCalls, left, even, order,
               index, adminClicks, adminOthers, adminFaults>>
serversVars == <<serversDialog, name, serversListed, serversGets, serversCalls, servers,
                 tools, grants, used, serversClicks, serversFaults>>

-----------------------------------------------------------------------------
(* The components and their bounds                                         *)

TheSession == INSTANCE Session WITH
     Users <- Accounts, Nobody <- NoName,
     shown <- sessionShown, page <- sessionPage, past <- sessionPast,
     faults <- sessionFaults

TheTaskConsole == INSTANCE TaskConsole WITH
     NoTask <- NoName, NoAgent <- NoName, NoSkill <- NoName, MaxRetries <- MaxResends,
     Screens <- {"form", "page", "polled", "streamed"}, MaxClicks <- MaxClicks["console"],
     form <- consoleForm, cache <- consoleCache, call <- consoleCall,
     clicks <- consoleClicks, faults <- consoleFaults

TheEditor == INSTANCE Editor WITH
     Pages <- {"workflow", "crew"}, NoRun <- NoName, MaxClicks <- MaxClicks["editor"],
     page <- editorPage, copy <- editorCopy, get <- editorGet, look <- editorLook,
     result <- editorResult, shown <- editorShown, pending <- editorPending,
     past <- editorPast, clicks <- editorClicks, faults <- editorFaults

ThePlanner == INSTANCE Planner WITH
     Views <- {"new", "list"}, NoGoal <- NoName, NoPlan <- NoName, NoItem <- NoName,
     MaxClicks <- MaxClicks["planner"],
     view <- plannerView, request <- plannerRequest, create <- plannerCreate,
     list <- plannerList, making <- plannerMaking, toggling <- plannerToggling,
     target <- plannerTarget, past <- plannerPast, clicks <- plannerClicks,
     faults <- plannerFaults

TheMagicBox == INSTANCE MagicBox WITH
     Questions <- Queries, Short <- ShortText, MaxClicks <- MaxClicks["box"],
     user <- boxUser, clicks <- boxClicks, faults <- boxFaults

TheDirectory == INSTANCE Directory WITH
     Views <- {"agents", "community"}, Last <- Listings,
     MaxClicks <- MaxClicks["directory"],
     view <- directoryView, cache <- directoryCache, clicks <- directoryClicks,
     faults <- directoryFaults

TheActivityFeed == INSTANCE ActivityFeed WITH
     Users <- {"feed", "rings"}, Limit <- PollLimit, MaxFaults <- MaxEnds, faults <- feedFaults

TheCommunity == INSTANCE Community WITH
     Others <- OtherVoters, Nothing <- NoName, MaxClicks <- MaxClicks["community"],
     open <- communityOpen, result <- communityResult, shown <- communityShown,
     get <- communityGet, raced <- communityRaced, clicks <- communityClicks,
     faults <- communityFaults

TheTeam == INSTANCE Team WITH
     First <- FirstOrg, Others <- Members, Nothing <- NoName, MaxClicks <- MaxClicks["team"],
     dialog <- teamDialog, gets <- teamGets, calls <- teamCalls, raced <- teamRaced,
     clicks <- teamClicks, others <- teamOthers, faults <- teamFaults

TheChannelWizard == INSTANCE ChannelWizard WITH
     Platforms <- {"discord", "telegram", "slack"}, Tokens <- Bots, NoToken <- NoName,
     NoChannel <- NoName, MaxClicks <- MaxClicks["wizard"],
     making <- wizardMaking, pending <- wizardPending, past <- wizardPast,
     clicks <- wizardClicks, faults <- wizardFaults

TheChannelPages == INSTANCE ChannelPages WITH
     Views <- {"tab", "detail", "admin"}, Here <- ThisChannel, Nothing <- NoName,
     Limits <- DailyLimits, MaxClicks <- MaxClicks["channels"],
     view <- channelsView, copy <- channelsCopy, form <- channelsForm,
     toggling <- channelsToggling, change <- channelsChange, target <- channelsTarget,
     past <- channelsPast, clicks <- channelsClicks, faults <- channelsFaults

TheSubmissions == INSTANCE Submissions WITH
     Limit <- MaxPending, MaxClicks <- MaxClicks["submissions"],
     row <- submissionsRow, past <- submissionsPast, clicks <- submissionsClicks,
     faults <- submissionsFaults

TheAgentForms == INSTANCE AgentForms WITH
     Views <- {"flow", "wizard", "settings"}, Own <- OwnName, Nothing <- NoName,
     Entries <- Registry, MaxClicks <- MaxClicks["forms"],
     view <- formsView, user <- formsUser, form <- formsForm, look <- formsLook,
     create <- formsCreate, change <- formsChange, past <- formsPast,
     clicks <- formsClicks, faults <- formsFaults

ThePayouts == INSTANCE Payouts WITH
     MaxClicks <- MaxClicks["payouts"],
     view <- payoutsView, dialog <- payoutsDialog, shown <- payoutsShown,
     request <- payoutsRequest, copy <- payoutsCopy, clicks <- payoutsClicks,
     faults <- payoutsFaults

TheSettings == INSTANCE Settings WITH
     Nothing <- NoName, MaxClicks <- MaxClicks["settings"],
     open <- settingsOpen, shown <- settingsShown, listed <- settingsListed,
     call <- settingsCall, user <- settingsUser, past <- settingsPast,
     clicks <- settingsClicks, faults <- settingsFaults

TheAdminTables == INSTANCE AdminTables WITH
     Views <- {"agents", "users", "governance"}, Last <- TableRows,
     MaxOthers <- MaxOtherAdmins, MaxClicks <- MaxClicks["admin"],
     view <- adminView, row <- adminRow, list <- adminList, get <- adminGet,
     calls <- adminCalls, clicks <- adminClicks, others <- adminOthers,
     faults <- adminFaults

TheToolServers == INSTANCE ToolServers WITH
     First <- FirstServer, MaxClicks <- MaxClicks["servers"],
     dialog <- serversDialog, listed <- serversListed, gets <- serversGets,
     calls <- serversCalls, clicks <- serversClicks, faults <- serversFaults

ASSUME SessionBounds == TheSession!SessionAssumption
ASSUME TaskConsoleBounds == TheTaskConsole!ConsoleAssumption
ASSUME EditorBounds == TheEditor!EditorAssumption
ASSUME PlannerBounds == ThePlanner!PlannerAssumption
ASSUME MagicBoxBounds == TheMagicBox!BoxAssumption
ASSUME DirectoryBounds == TheDirectory!DirectoryAssumption
ASSUME ActivityFeedBounds == TheActivityFeed!FeedAssumption
ASSUME CommunityBounds == TheCommunity!CommunityAssumption
ASSUME TeamBounds == TheTeam!TeamAssumption
ASSUME ChannelWizardBounds == TheChannelWizard!WizardAssumption
ASSUME ChannelPagesBounds == TheChannelPages!PagesAssumption
ASSUME SubmissionsBounds == TheSubmissions!SubmissionsAssumption
ASSUME AgentFormsBounds == TheAgentForms!FormsAssumption
ASSUME PayoutsBounds == ThePayouts!PayoutsAssumption
ASSUME SettingsBounds == TheSettings!SettingsAssumption
ASSUME AdminTablesBounds == TheAdminTables!AdminAssumption
ASSUME ToolServersBounds == TheToolServers!ServersAssumption

-----------------------------------------------------------------------------
(* A section that is not the one                                           *)

Off == "off"

SessionOff ==
    site = Off /\ firebase = Off /\ token = Off /\ pass = Off /\ session = Off /\
    sessionShown = Off /\ sessionPage = Off /\ leaving = Off /\ thread = Off /\
    sessionPast = Off /\ sessionFaults = Off /\ moves = Off
TaskConsoleOff ==
    task = Off /\ madeFor = Off /\ screen = Off /\ consoleForm = Off /\ current = Off /\
    consoleCache = Off /\ stream = Off /\ consoleCall = Off /\ toast = Off /\
    said = Off /\ cut = Off /\ consoleClicks = Off /\ consoleFaults = Off
EditorOff ==
    editorPage = Off /\ doc = Off /\ editorCopy = Off /\ editor = Off /\ save = Off /\
    editorGet = Off /\ run = Off /\ known = Off /\ editorLook = Off /\ ask = Off /\
    editorResult = Off /\ editorShown = Off /\ editorPending = Off /\
    editorPast = Off /\ editorClicks = Off /\ editorFaults = Off
PlannerOff ==
    plannerView = Off /\ pattern = Off /\ goal = Off /\ plan = Off /\
    plannerRequest = Off /\ act = Off /\ state = Off /\ ran = Off /\
    plannerCreate = Off /\ item = Off /\ plannerList = Off /\ linked = Off /\
    sheet = Off /\ plannerMaking = Off /\ plannerToggling = Off /\
    plannerTarget = Off /\ deleting = Off /\ plannerPast = Off /\ plannerClicks = Off /\
    plannerFaults = Off
MagicBoxOff ==
    boxUser = Off /\ query = Off /\ loading = Off /\ starter = Off /\ due = Off /\
    searched = Off /\ results = Off /\ error = Off /\ flights = Off /\ last = Off /\
    hasty = Off /\ boxClicks = Off /\ boxFaults = Off
DirectoryOff ==
    directoryView = Off /\ kind = Off /\ f = Off /\ p = Off /\ search = Off /\
    narrow = Off /\ directoryCache = Off /\ asked = Off /\ seen = Off /\
    directoryClicks = Off /\ changes = Off /\ directoryFaults = Off
ActivityFeedOff ==
    who = Off /\ mounted = Off /\ chain = Off /\ events = Off /\ stored = Off /\
    ring = Off /\ created = Off /\ ended = Off /\ aged = Off /\ mounts = Off /\
    feedFaults = Off
CommunityOff ==
    communityOpen = Off /\ message = Off /\ communityResult = Off /\
    communityShown = Off /\ communityGet = Off /\ trial = Off /\ vote = Off /\
    votes = Off /\ upvotes = Off /\ communityRaced = Off /\ communityClicks = Off /\
    cast = Off /\ communityFaults = Off
TeamOff ==
    selected = Off /\ email = Off /\ teamName = Off /\ teamDialog = Off /\ orgs = Off /\
    members = Off /\ teams = Off /\ teamGets = Off /\ teamCalls = Off /\ exists = Off /\
    role = Off /\ hasTeam = Off /\ removals = Off /\ teamRaced = Off /\
    teamClicks = Off /\ teamOthers = Off /\ teamFaults = Off
ChannelWizardOff ==
    wizard = Off /\ discord = Off /\ check = Off /\ wizardMaking = Off /\
    wizardPending = Off /\ endpoint = Off /\ wizardPast = Off /\ wizardClicks = Off /\
    wizardFaults = Off
ChannelPagesOff ==
    channelsView = Off /\ route = Off /\ saved = Off /\ channelsCopy = Off /\
    people = Off /\ table = Off /\ channelsForm = Off /\ toggle = Off /\
    channelsToggling = Off /\ channelsChange = Off /\ channelsTarget = Off /\
    gate = Off /\ channelsPast = Off /\ channelsClicks = Off /\ channelsFaults = Off
SubmissionsOff ==
    submissionsRow = Off /\ live = Off /\ publish = Off /\ mine = Off /\ told = Off /\
    theirs = Off /\ review = Off /\ resend = Off /\ remove = Off /\
    submissionsPast = Off /\ submissionsClicks = Off /\ submissionsFaults = Off
AgentFormsOff ==
    formsView = Off /\ step = Off /\ formsUser = Off /\ formsForm = Off /\
    detected = Off /\ registered = Off /\ formsLook = Off /\ formsCreate = Off /\
    formsChange = Off /\ agent = Off /\ probe = Off /\ formsPast = Off /\ formsClicks = Off /\
    formsFaults = Off
PayoutsOff ==
    payoutsView = Off /\ payoutsDialog = Off /\ amount = Off /\ payoutsShown = Off /\
    awaited = Off /\ connect = Off /\ payoutsRequest = Off /\ account = Off /\
    payoutsCopy = Off /\ sent = Off /\ again = Off /\ payoutsClicks = Off /\ payoutsFaults = Off
SettingsOff ==
    settingsOpen = Off /\ limit = Off /\ naming = Off /\ settingsShown = Off /\
    revokeOpen = Off /\ deleteOpen = Off /\ provider = Off /\ doomed = Off /\
    settingsListed = Off /\ settingsCall = Off /\ settingsUser = Off /\
    settingsPast = Off /\ settingsClicks = Off /\ settingsFaults = Off
AdminTablesOff ==
    adminView = Off /\ adminRow = Off /\ adminList = Off /\ adminGet = Off /\
    adminCalls = Off /\ left = Off /\ even = Off /\ order = Off /\ index = Off /\
    adminClicks = Off /\ adminOthers = Off /\ adminFaults = Off
ToolServersOff ==
    serversDialog = Off /\ name = Off /\ serversListed = Off /\ serversGets = Off /\
    serversCalls = Off /\ servers = Off /\ tools = Off /\ grants = Off /\ used = Off /\
    serversClicks = Off /\ serversFaults = Off

Init ==
    /\ section \in Sections
    /\ IF section = "session" THEN TheSession!Init ELSE SessionOff
    /\ IF section = "console" THEN TheTaskConsole!Init ELSE TaskConsoleOff
    /\ IF section = "editor" THEN TheEditor!Init ELSE EditorOff
    /\ IF section = "planner" THEN ThePlanner!Init ELSE PlannerOff
    /\ IF section = "box" THEN TheMagicBox!Init ELSE MagicBoxOff
    /\ IF section = "directory" THEN TheDirectory!Init ELSE DirectoryOff
    /\ IF section = "feed" THEN TheActivityFeed!Init ELSE ActivityFeedOff
    /\ IF section = "community" THEN TheCommunity!Init ELSE CommunityOff
    /\ IF section = "team" THEN TheTeam!Init ELSE TeamOff
    /\ IF section = "wizard" THEN TheChannelWizard!Init ELSE ChannelWizardOff
    /\ IF section = "channels" THEN TheChannelPages!Init ELSE ChannelPagesOff
    /\ IF section = "submissions" THEN TheSubmissions!Init ELSE SubmissionsOff
    /\ IF section = "forms" THEN TheAgentForms!Init ELSE AgentFormsOff
    /\ IF section = "payouts" THEN ThePayouts!Init ELSE PayoutsOff
    /\ IF section = "settings" THEN TheSettings!Init ELSE SettingsOff
    /\ IF section = "admin" THEN TheAdminTables!Init ELSE AdminTablesOff
    /\ IF section = "servers" THEN TheToolServers!Init ELSE ToolServersOff

Next ==
    /\ UNCHANGED section
    /\ IF section = "session" THEN TheSession!Next ELSE UNCHANGED sessionVars
    /\ IF section = "console" THEN TheTaskConsole!Next ELSE UNCHANGED consoleVars
    /\ IF section = "editor" THEN TheEditor!Next ELSE UNCHANGED editorVars
    /\ IF section = "planner" THEN ThePlanner!Next ELSE UNCHANGED plannerVars
    /\ IF section = "box" THEN TheMagicBox!Next ELSE UNCHANGED boxVars
    /\ IF section = "directory" THEN TheDirectory!Next ELSE UNCHANGED directoryVars
    /\ IF section = "feed" THEN TheActivityFeed!Next ELSE UNCHANGED feedVars
    /\ IF section = "community" THEN TheCommunity!Next ELSE UNCHANGED communityVars
    /\ IF section = "team" THEN TheTeam!Next ELSE UNCHANGED teamVars
    /\ IF section = "wizard" THEN TheChannelWizard!Next ELSE UNCHANGED wizardVars
    /\ IF section = "channels" THEN TheChannelPages!Next ELSE UNCHANGED channelsVars
    /\ IF section = "submissions" THEN TheSubmissions!Next ELSE UNCHANGED submissionsVars
    /\ IF section = "forms" THEN TheAgentForms!Next ELSE UNCHANGED formsVars
    /\ IF section = "payouts" THEN ThePayouts!Next ELSE UNCHANGED payoutsVars
    /\ IF section = "settings" THEN TheSettings!Next ELSE UNCHANGED settingsVars
    /\ IF section = "admin" THEN TheAdminTables!Next ELSE UNCHANGED adminVars
    /\ IF section = "servers" THEN TheToolServers!Next ELSE UNCHANGED serversVars

vars == <<section,
          sessionVars, consoleVars, editorVars, plannerVars,
          boxVars, directoryVars, feedVars, communityVars,
          teamVars, wizardVars, channelsVars, submissionsVars,
          formsVars, payoutsVars, settingsVars, adminVars,
          serversVars>>

Spec == Init /\ [][Next]_vars

\* An async function goes on when what it awaits is there, React runs its effects and
\* timers ring; a call ends, if only by the browser giving it up.
FairSpec ==
    /\ Spec
    /\ \A t \in Threads : WF_sessionVars(section = "session" /\ TheSession!Progress(t))
    /\ WF_sessionVars(section = "session" /\ TheSession!Reload)
    /\ WF_sessionVars(section = "session" /\ TheSession!TurnedAway)
    /\ \A c \in Calls :
          /\ WF_consoleVars(section = "console" /\ TheTaskConsole!Network(c))
          /\ WF_consoleVars(section = "console" /\ TheTaskConsole!Poll(c))
          /\ WF_consoleVars(section = "console" /\ TheTaskConsole!Aborted(c))
    /\ WF_editorVars(section = "editor" /\ TheEditor!Poll)
    /\ WF_editorVars(section = "editor" /\ TheEditor!AnswerLook)
    /\ WF_channelsVars(section = "channels" /\ TheChannelPages!Poll)
    /\ WF_channelsVars(section = "channels" /\ TheChannelPages!HearChannels)

-----------------------------------------------------------------------------
(* Properties                                                              *)

(* Types of the variables of the section that is open; the others rest.    *)
TypeOK ==
    /\ section \in Sections
    /\ IF section = "session" THEN TheSession!TypeOK ELSE SessionOff
    /\ IF section = "console" THEN TheTaskConsole!TypeOK ELSE TaskConsoleOff
    /\ IF section = "editor" THEN TheEditor!TypeOK ELSE EditorOff
    /\ IF section = "planner" THEN ThePlanner!TypeOK ELSE PlannerOff
    /\ IF section = "box" THEN TheMagicBox!TypeOK ELSE MagicBoxOff
    /\ IF section = "directory" THEN TheDirectory!TypeOK ELSE DirectoryOff
    /\ IF section = "feed" THEN TheActivityFeed!TypeOK ELSE ActivityFeedOff
    /\ IF section = "community" THEN TheCommunity!TypeOK ELSE CommunityOff
    /\ IF section = "team" THEN TheTeam!TypeOK ELSE TeamOff
    /\ IF section = "wizard" THEN TheChannelWizard!TypeOK ELSE ChannelWizardOff
    /\ IF section = "channels" THEN TheChannelPages!TypeOK ELSE ChannelPagesOff
    /\ IF section = "submissions" THEN TheSubmissions!TypeOK ELSE SubmissionsOff
    /\ IF section = "forms" THEN TheAgentForms!TypeOK ELSE AgentFormsOff
    /\ IF section = "payouts" THEN ThePayouts!TypeOK ELSE PayoutsOff
    /\ IF section = "settings" THEN TheSettings!TypeOK ELSE SettingsOff
    /\ IF section = "admin" THEN TheAdminTables!TypeOK ELSE AdminTablesOff
    /\ IF section = "servers" THEN TheToolServers!TypeOK ELSE ToolServersOff

(* When no function is in progress, the token requests carry and the user  *)
(* on the screen are of one account, unless sign-ins overlapped or a token *)
(* could not be had (Session).                                             *)
OneAccount == section = "session" => TheSession!OneAccount

(* What is left leaves nothing behind: a logout no credentials in the      *)
(* browser, a call that keeps failing nothing after its sixth attempt      *)
(* (Session), a page with a feed no connection and no timer, if none of    *)
(* its connections had ended (ActivityFeed).                               *)
LeavesNothing ==
    /\ section = "session" => TheSession!LogoutSticks /\ TheSession!SendsAreBounded
    /\ section = "feed" => TheActivityFeed!LeftIsClosed

(* The spinner of the protected pages goes away, unless Firebase's token   *)
(* could not be had when its listener was called (Session).                *)
LoadingEnds ==
    section = "session" /\ sessionShown.loading
        ~> section # "session" \/ ~ sessionShown.loading \/ sessionPast.stuck

(* A task that has ended ends on the screen that watches it, unless a poll *)
(* has failed or the screen has turned to another task (TaskConsole); a    *)
(* run the page knows to be going ends on it too, whatever queries fail    *)
(* (Editor); and the list of channels comes to show what they are          *)
(* (ChannelPages).                                                         *)
EndReachesScreen ==
    /\ \A t \in Tasks :
        (section = "console" /\ task[t] \in TheTaskConsole!Ended /\ TheTaskConsole!Watches(t))
            ~> \/ section # "console"
               \/ consoleCache[t].status \in TheTaskConsole!Ended \/ consoleCache[t].failed
               \/ ~ TheTaskConsole!Watches(t)
    /\ \A r \in Runs :
        (section = "editor" /\ run[r].at = "ended" /\ known[r] = "running" /\ TheEditor!Shows("workflow"))
            ~> section # "editor" \/ known[r] = "ended" \/ ~ TheEditor!Shows("workflow")
    /\ []<>(section = "channels" /\ channelsView = "tab" => channelsCopy.is = saved)

(* Work is not lost by an answer: a save closes the editor it was made in, *)
(* with nothing in it that was not saved, over a page that shows what was  *)
(* saved or newer (Editor); what was typed for a schedule goes with its    *)
(* own creation or closing (Planner); and a task that has ended on the     *)
(* screen does not come to life there again (TaskConsole).                 *)
KeepsWork == [][/\ section = "editor" => TheEditor!ClosingIsOfSave
                /\ section = "planner" => ThePlanner!KeepsDraft
                /\ section = "console" => TheTaskConsole!EndIsKept]_vars

(* The workflow of a plan is run with the goal the plan was made for       *)
(* (Planner).                                                              *)
PlanRunsWithItsGoal == section = "planner" => ThePlanner!PlanRunsWithItsGoal

(* Of answers that come in any order, the one used is the one to what was  *)
(* asked: the suggestions of the search box are for the question asked     *)
(* last (MagicBox), the ids a Discord channel is made with are its token's *)
(* (ChannelWizard), an agent is announced at the endpoint of the card that *)
(* was reviewed (AgentForms), a crew's report is of its run (Editor), a    *)
(* stream is over when its own task's is and a task is made for a skill of *)
(* the agent selected (TaskConsole).                                       *)
AnswersFit ==
    /\ section = "box" => TheMagicBox!ShowsLastAnswer
    /\ section = "wizard" => TheChannelWizard!IdsAreOfToken
    /\ section = "forms" => TheAgentForms!AnnouncesWhatIs
    /\ section = "editor" => TheEditor!ReportIsOfRun
    /\ section = "console" => TheTaskConsole!DoneIsOfTask /\ TheTaskConsole!CreatedAsSelected

(* "Execute a workflow - runs step groups sequentially": a run of a        *)
(* workflow that has steps starts one before it ends (Editor).             *)
RunsStartSteps == section = "editor" => TheEditor!StartsSteps

(* An agent on the market is one an approved submission knows, so that a   *)
(* revocation finds it (Submissions).                                      *)
LiveIsApproved == section = "submissions" => TheSubmissions!LiveIsApproved

(* No two agents on the market have one endpoint, however often a form was *)
(* sent, unless two were being added for it at once, an agent was marked   *)
(* unavailable or one's settings were saved (AgentForms).                  *)
OneAgentPerEndpoint == section = "forms" => TheAgentForms!OneAgentPerEndpoint

(* No more is paid out than was earned, unless a request was repeated or   *)
(* its page left (Payouts).                                                *)
PaidWasEarned == section = "payouts" => ThePayouts!PaidWasEarned

(* The key the page tells its user to copy is the one the service accepts  *)
(* (Settings).                                                             *)
ShownKeyWorks == section = "settings" => TheSettings!ShownKeyWorks

(* An organization that exists has an owner, as long as no two counts of   *)
(* its owners overlapped (Team).                                           *)
OwnerRemains == section = "team" => TheTeam!OwnerRemains

(* The upvotes an agent is ranked by are the sum of its votes, if no two   *)
(* overlapped (Community).                                                 *)
UpvotesAreVotes == section = "community" => TheCommunity!UpvotesAreVotes

(* With nothing under way and nothing lost, what is shown is what there    *)
(* is: the levels of verification (AdminTables), the tool servers and the  *)
(* grants (ToolServers), a list to whoever walks to its end (Directory),   *)
(* the events of the feed, each once (ActivityFeed), a bot that is said to *)
(* be live (ChannelWizard), a task that is said to be canceled             *)
(* (TaskConsole), a verdict, once (Submissions), the channels of a page    *)
(* (ChannelPages).                                                         *)
CatchesUp ==
    /\ section = "feed" => TheActivityFeed!ShownOnce
    /\ section = "wizard" => TheChannelWizard!LiveIsLive
    /\ section = "console" => TheTaskConsole!SaidIsSo
    /\ section = "submissions" => TheSubmissions!VerdictIsToldOnce
    /\ section = "admin" => TheAdminTables!LevelsCatchUp
    /\ section = "servers" => TheToolServers!ServersCatchUp
    /\ section = "directory" => TheDirectory!EndIsReached
    /\ section = "channels" => TheChannelPages!PagesCatchUp
=============================================================================
