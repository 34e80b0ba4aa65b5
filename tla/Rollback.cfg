CONSTANTS
  p1 = p1
  p2 = p2
  v1 = v1
  v2 = v2
  v3 = v3
  old = old
  Procs = {p1}
  Versions = {v1, v2, v3, old}
  Score <- Scored
  Recorded = {v1, v2, v3}
  Stale = {old}
  Clients = {}
  Slots = {}
  Targets <- OneSlotTargets
  Queries = {}
  Stored = {TRUE, FALSE}
  CanDie = FALSE
  MaxCommands = 4
  MaxDuring = 1
  Units <- AgentAndBranch
  Namespace = "none"
  Threshold = 1
  Aggregate <- Scored
  Hard <- Passing
  Results <- Loops
  QueueSize = 2
  MaxToolRounds = 1
  Specs <- MCSpecs
  Vars <- MCVars
  Values <- MCValues
  Asked <- MCAsked
  r1 = r1
  r2 = r2
  c1 = c1
  w1 = w1
  Waiters = {}
  MaxPolls = 1
  Requests = {}
  Supplied = {}
  Bodies = {}
  Policies = {}
  MaxSteps = 1
  Scaffolds = {TRUE}
  Faults = {}
  MaxCrashes = 0
SPECIFICATION RollbackSpec
INVARIANT RollbackRestoresPrevious
CHECK_DEADLOCK FALSE
