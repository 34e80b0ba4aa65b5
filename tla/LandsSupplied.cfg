CONSTANTS
  r1 = r1
  r2 = r2
  c1 = c1
  Requests <- OneRequest
  Supplied <- CallerIds
  Bodies <- OneSupplied
  Policies <- PairChains
  MaxSteps = 2
  Scaffolds <- WithDatabase
  Faults <- NoFaults
  MaxCrashes = 0
SPECIFICATION DispatchSpec
INVARIANTS
  RunLandsInTable
CHECK_DEADLOCK FALSE
