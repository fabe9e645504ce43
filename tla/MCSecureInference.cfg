SPECIFICATION SSpec
CONSTANTS
  None = None
  NotAString = NotAString
  NotAnObject = NotAnObject
  Names <- MCNames
  KindOf <- MCKindOf
  SpecsOf <- MCSpecsOf
  Replicas = {r1}
  LeaderElection = FALSE
  MaxEdits = 3
  MaxFaults = 1
  Handlers = {h1}
  Host <- MCHost
  CheckRequests <- MCRequests
  PublicKey = "K"
  Now = 1
  SelectorEnabled = FALSE
  AlwaysActive = FALSE
  Scores = {0}
  Threshold = 0
  NaN = NaN
INVARIANTS STypeOK EntriesHaveFinalizer RevokedIsRefused
PROPERTIES ServersAreExtAuthz
CHECK_DEADLOCK FALSE
