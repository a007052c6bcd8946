CONSTANTS
  alice = alice
  bob = bob
  s1 = s1
  s2 = s2
  s3 = s3
  t1 = t1
  t2 = t2
  h1 = h1
  h2 = h2
  NoTask = NoTask
  NoUser = NoUser
  Users = {alice, bob}
  Tasks = {t1}
  Sessions = {s1, s2}
  Hashes = {h1}
  Orders <- AnyOrder
  InitialCredits = 30
  ApprovalThreshold = 15
  AgentReplies = {"completed", "failed", "ack"}
  CallbackStatuses = {"working", "input_required", "completed", "failed", "rejected"}
  Isolation = "none"
  MaxStreams = 1
  MaxPayments = 2
  MaxCrashes = 1
SYMMETRY SessionSymmetry
SPECIFICATION Spec
INVARIANTS TypeOK CompletedIsPaid ChargedIsPaid 
 
CHECK_DEADLOCK FALSE
