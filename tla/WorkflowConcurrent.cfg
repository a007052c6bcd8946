CONSTANTS
  main = main
  sub = sub
  odd = odd
  plan = plan
  draft = draft
  team = team
  inner = inner
  stray = stray
  NoRun = NoRun
  NoStep = NoStep
  Pump = pump
  Runs = {main, sub}
  Steps = {plan, team, inner}
  RunOf <- StepRunOf
  Group <- StepGroupOf
  Child <- StepChildOf
  Depth <- RunDepthOf
  user1 = user1
  user2 = user2
  Callers = {user1}
  Cancelable = {team}
  PumpLimit = 2
  Overlap = TRUE
  MaxFailures = 1
  MaxStarts = 2
SPECIFICATION FairSpec
INVARIANTS StartedOnce
PROPERTIES GroupsInOrder RunEnds
CHECK_DEADLOCK FALSE
