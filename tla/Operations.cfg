CONSTANTS
  p1 = p1
  p2 = p2
  v1 = v1
  v2 = v2
  v3 = v3
  old = old
  Procs = {p1, p2}
  Versions = {v1, v2, v3, old}
  Score <- Scored
  Recorded = {v1, v2}
  Stale = {old}
  Clients = {"c"}
  Slots = {"t", "m"}
  Targets <- SomeTargets
  Queries <- Queried
  Stored = {FALSE}
  CanDie = TRUE
  MaxCommands = 3
  MaxDuring = 1
  Units <- AgentAndBranch
  Namespace = "none"
  Threshold = 1
  Aggregate <- Scored
  Hard <- Passing
  Results <- Loops
  QueueSize = 2
  MaxToolRounds = 1
  Specs <- MCSpecs
  Vars <- MCVars
  Values <- MCValues
  Asked <- MCAsked
  r1 = r1
  r2 = r2
  c1 = c1
  w1 = w1
  Waiters = {w1}
  MaxPolls = 2
  Requests <- OneRequest
  Supplied <- CallerIds
  Bodies <- AllBodies
  Policies <- Chains3
  MaxSteps = 3
  Scaffolds <- WithDatabase
  Faults = {"db", "logdir", "logfile"}
  MaxCrashes = 1
SPECIFICATION FairOperations
INVARIANTS SlotsTellHistory ResolvesMostSpecific FleetPromotesEarned SessionTold AnswersHold
PROPERTIES NoSilentClobber InOrder WhatBeginsEnds RowLifecycle NobodyWaitsForever
CHECK_DEADLOCK FALSE
