SPECIFICATION PSpec
CONSTANTS
  None = None
  Null = Null
  Files <- MCFiles
  MaxCalls = 2
INVARIANTS ProcessTypeOK DefaultKeyPathSurvives CleanExitCutsNothing
PROPERTIES RefusesOnlyUnusable ShutdownCompletes ServesOnEveryReplica
CHECK_DEADLOCK FALSE
