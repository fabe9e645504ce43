SPECIFICATION PSpec
CONSTANTS
  None = None
  Null = Null
  Files <- MCFiles
  MaxCalls = 0
INVARIANT ValidatedIsComplete
CHECK_DEADLOCK FALSE
