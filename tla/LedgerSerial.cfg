CONSTANTS
  alice = alice
  bob = bob
  s1 = s1
  s2 = s2
  s3 = s3
  t1 = t1
  t2 = t2
  h1 = h1
  h2 = h2
  NoTask = NoTask
  NoUser = NoUser
  Users = {alice, bob}
  Tasks = {t1, t2}
  Sessions = {s1}
  Hashes = {}
  Orders <- DelegationsOrFree
  InitialCredits = 30
  ApprovalThreshold = 15
  AgentReplies = {"completed", "failed"}
  CallbackStatuses = {"working", "input_required", "completed", "failed", "rejected"}
  Isolation = "request"
  MaxStreams = 0
  MaxPayments = 2
  MaxCrashes = 0
SPECIFICATION FairSpec
INVARIANTS ReservedIsOutstanding CreditsConserved
PROPERTIES SubmittedIsDecided
CHECK_DEADLOCK FALSE
