CONSTANTS
  None = None
  Torn = Torn
  mine = mine
  a1 = a1
  a2 = a2
  b1 = b1
  Text <- MCText
  Versions = {1, 2}
  Configs <- MCConfigs
  Texts = {mine}
  Touched = {"registry"}
  Dialects = {"claude"}
  MaxInits = 3
  MaxEdits = 1
  MaxDeaths = 1
  Runs = {a1, b1}
  AgentOf <- MCAgent
  Safe <- MCSafe
  Callers <- MCCallers
  Items = {"i"}
  DayLength = 2
  MaxTime = 4
  MaxUses = 2
  Pids = {1, 2}
  Cmds = {p, q}
  MaxCommands = 3
  MaxFaults = 1
  MaxLines = 3
  Idle = 2
  MaxTotal = 3
  Events <- MCEvents
  Due <- MCDue
  Poll = 2
  Slow = 2
  Minutes = 4
  MaxCronFaults = 1
  Chats = {"x", "y"}
  Window = 2
  MaxMessages = 3
  Unset = Unset
  Procs = {p, q}
  Revisions <- MCRevisions
  Scripts <- MCScripts
  Options <- MCOptions
  Branches <- MCBranches
  Steps = {"plan", "act", "other"}
  MaxRuns = 2
  MaxRevisions = 1
  MaxRunDeaths = 1
  MaxCalls = 5
  Histories <- Repositories
  Excluded = {"agents", "improved", "scripts"}
  Compiled = {"agents"}
  Skills = {"claude"}
  Nested = {"nested"}
  Editable = {"new", "scripts", "nested"}
  Definitions <- Tried
  Ours <- Synthesized
  Teacher <- Stronger
  Tasks <- Examples
  MaxFiles = 3
  MaxReplays = 2
  MaxTries = 2
  MaxScripts = 2
  MaxLog = 3
SPECIFICATION InitsSpec
INVARIANT EditsPreserved
CHECK_DEADLOCK FALSE
