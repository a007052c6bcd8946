CONSTANTS
  Sections = {"editor"}
  Me = "me"
  NoName = "none"
  MaxClicks <- ClicksToRun
  MaxTries = 2
  MaxFaults = 1
  Accounts = {"u1", "u2"}
  Threads = {"t1", "t2"}
  MaxMoves = 2
  Chains = {"h1", "h2"}
  Newest = 2
  PollLimit = 1
  MaxEvents = 2
  MaxFailures = 1
  MaxMounts = 2
  MaxEnds = 2
  Keys = {"key1", "key2", "key3"}
  Providers = {"groq"}
  Goals = {"g1", "g2"}
  Plans = {"p1", "p2"}
  Items = {"i1", "i2"}
  Flows = {"f1", "f2"}
  Reviews = {"r1", "r2"}
  MaxPending = 1
  Orgs = {"o1", "o2"}
  FirstOrg = "o1"
  Members = {"u1"}
  MaxOthers = 2
  Endpoints = {"e1", "e2"}
  OwnName = "own"
  Registry = {"g1", "g2"}
  Looks = {"d1", "d2"}
  Requests = {"p1", "p2", "p3"}
  Balance = 4
  Cleared = 3
  Minimum = 1
  OtherVoters = {"u1"}
  Results = {"r1"}
  MaxVotes = 1
  Tasks = {"k1", "k2"}
  Agents = {"a1", "a2"}
  Skills <- SkillsOfAgent
  Link <- ForeignLink
  Calls = {"c1", "c2"}
  MaxResends = 1
  Documents <- Opened
  Runs = {"r1", "r2"}
  Saves = {"v1", "v2"}
  MaxSteps = 3
  Queries = {"q1", "q2"}
  ShortText = "q"
  Starters = {"q2"}
  Searches = {"s1", "s2"}
  Listings = 3
  PerPage = 1
  MaxChanges = 0
  Bots = {"t1", "t2"}
  Checks = {"v1", "v2"}
  Channels = {"h1", "h2"}
  ThisChannel = "h1"
  Contacts = {"u1"}
  DailyLimits = {0, 1}
  Toggles = {"q1", "q2"}
  TableRows = 2
  PageSize = 1
  MaxOtherAdmins = 1
  Servers = {"s1", "s2"}
  FirstServer = "s1"
SPECIFICATION Spec
INVARIANT RunsStartSteps
CHECK_DEADLOCK FALSE
