CONSTANTS
  alice = alice
  bob = bob
  s1 = s1
  s2 = s2
  s3 = s3
  t1 = t1
  t2 = t2
  h1 = h1
  h2 = h2
  NoTask = NoTask
  NoUser = NoUser
  Users = {alice, bob}
  Tasks = {t1, t2}
  Sessions = {s1, s2}
  Hashes = {}
  Orders <- MixedOrders
  InitialCredits = 30
  ApprovalThreshold = 15
  AgentReplies = {"completed", "failed", "ack"}
  CallbackStatuses = {"working", "completed", "rejected"}
  Isolation = "task"
  MaxStreams = 1
  MaxPayments = 2
  MaxCrashes = 0
SYMMETRY SessionSymmetry
SPECIFICATION Spec
INVARIANTS PaidAtMostOnce PaidIsCompleted ReservedAtMostOnce
PROPERTIES TerminalIsFinal KeepsEscrow
CHECK_DEADLOCK FALSE
