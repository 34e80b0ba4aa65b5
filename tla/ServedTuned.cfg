CONSTANTS
  Alphabet <- Names
  Nested = {"b"}
  Projects <- SomeProjects
  Commands <- SomeCommands
  MaxRuns = 2
  Trees <- SomeTrees
  Nothing = Nothing
  Error = Error
  t1 = t1
  t2 = t2
  goal = goal
  criterion = criterion
  Procs = {api}
  Clients = {c1}
  Roles <- MCRoles
  Builtins <- MCBuiltins
  Connections <- MCConnections
  Structures <- MCStructures
  Replies <- MCReplies
  Scores = {5}
  Target = 7
  MaxRequests = 2
  MaxRewrites = 1
  MaxDeaths = 0
  Enrolments <- MCEnrolments
  Templates <- MCTemplates
  Setups <- MCSetups
  Profiles <- MCProfiles
  Needs <- MCNeeds
  Snapshots <- MCSnapshots
  Words <- MCWords
  MaxPromoted = 2
  NoName = NoName
  Unpinned = Unpinned
  Blocks <- MCBlocks
  Assemblies <- MCAssemblies
  Agents = {chat, desk}
  ToolNames = {tool}
  Built <- MCBuilt
  MaxBlocks = 3
  MaxTurns = 2
  MaxCalls = 1
  MaxVersions = 1
  plain = plain
  tuned = tuned
  better = better
  flow = flow
  fixed = fixed
SPECIFICATION PersonalizeSpec
INVARIANT ServedIsTuned
CHECK_DEADLOCK FALSE
