CONSTANTS
  k1 = k1
  k2 = k2
  c1 = c1
  c2 = c2
  Keys <- TwoKeys
  Callers <- TwoCallers
  Gets <- OneKey
  Prewarms <- TwoPrewarms
  Workers = 1
  WriteFails = TRUE
  MaxCrashes = 1
  b = b
  h1 = h1
  h2 = h2
  Hashes <- FewHashes
  Baseline = b
  AggregateScores <- TwoScores
  Mutators = 2
  FrontierSize = 2
  MaxRounds = 2
  MaxRuns = 2
  StoreFails = TRUE
  Sources <- MCSources
  Rewrites = {"new", "empty"}
  NewStep <- MCStep
  Tool = "t"
  MaxTemperature = 3
  MaxMutations = 2
  MaxSourceEdits = 1
  Graders = {"x", "y", "z", "v", "i"}
  Teams <- MCTeams
  HarnessOf <- MCHarness
  InstallOf <- MCInstall
  DirectoryOf <- MCDirectory
  ProbesOf <- MCProbes
  OutcomesOf <- MCOutcomes
  Contract <- MCContract
  MaxGraded = 1
  MaxWarmups = 2
  Jobs <- MCJobs
  Bodies = {"b1", "b2"}
  LoopScores = {0, 1}
  Frontier = 2
  MaxJobs = 1
  Heads <- MCHeads
  Literals <- MCLiterals
  Rests <- MCRests
  NewPrompt <- MCPrompt
  Parsable <- MCParsable
  Endings = {"crlf"}
  MaxApplies = 2
  MaxEdits = 1
SPECIFICATION ExportSpec
INVARIANT LatestIsBest
CHECK_DEADLOCK FALSE
