CONSTANTS
  r1 = r1
  r2 = r2
  c1 = c1
  Requests <- TwoRequests
  Supplied <- CallerIds
  Bodies <- MixedBodies
  Policies <- PairChains
  MaxSteps = 2
  Scaffolds = {TRUE, FALSE}
  Faults = {"db", "logdir", "logfile"}
  MaxCrashes = 1
SPECIFICATION DispatchSpec
SYMMETRY RequestSymmetry
INVARIANTS
  TypeOK
  RunsTellsOutcome
  
CHECK_DEADLOCK FALSE
