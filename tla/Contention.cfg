CONSTANTS
  alice = alice
  bob = bob
  s1 = s1
  s2 = s2
  s3 = s3
  t1 = t1
  t2 = t2
  h1 = h1
  h2 = h2
  NoTask = NoTask
  NoUser = NoUser
  Users = {alice, bob}
  Tasks = {t1, t2}
  Sessions = {s1, s2, s3}
  Hashes = {h1, h2}
  Orders <- CreditsOrX402
  InitialCredits = 15
  ApprovalThreshold = 15
  AgentReplies = {"ack"}
  CallbackStatuses = {"working"}
  Isolation = "none"
  MaxStreams = 0
  MaxPayments = 1
  MaxCrashes = 1
SYMMETRY SessionSymmetry
SPECIFICATION Spec
INVARIANTS OutstandingIsCovered ReceiptPaysOneTask
CHECK_DEADLOCK FALSE
