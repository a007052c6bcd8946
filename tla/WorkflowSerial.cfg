CONSTANTS
  main = main
  sub = sub
  odd = odd
  plan = plan
  draft = draft
  team = team
  inner = inner
  stray = stray
  NoRun = NoRun
  NoStep = NoStep
  Pump = pump
  Runs = {main, sub, odd}
  Steps = {plan, draft, team, inner, stray}
  RunOf <- StepRunOf
  Group <- StepGroupOf
  Child <- StepChildOf
  Depth <- RunDepthOf
  user1 = user1
  user2 = user2
  Callers = {user1}
  Cancelable = {plan, draft, inner}
  PumpLimit = 1
  Overlap = FALSE
  MaxFailures = 1
  MaxStarts = 2
SPECIFICATION Spec
INVARIANTS TypeOK
PROPERTIES KeepsPipeline
CHECK_DEADLOCK FALSE
