CONSTANTS
  ask = ask
  flow = flow
  i1 = i1
  NoIsolate = NoIsolate
  p1 = p1
  Messages = {ask, flow}
  Flows = {flow}
  Platforms = {"slack", "discord"}
  Isolates = {i1}
  Passes = {p1}
  Backends = {"deployed", "expected"}
  MaxPosts = 2
  MaxRequests = 1
  SeenLimit = 1
  MaxEvents = 1
  MaxTold = 2
SPECIFICATION FairSpec
INVARIANTS TypeOK ChargedOncePerMemory RefusedIsNotServed ResultIsToldOnce
PROPERTIES ChargedIsAnswered
CHECK_DEADLOCK FALSE
