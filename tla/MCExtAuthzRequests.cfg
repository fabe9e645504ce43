SPECIFICATION WSpec
CONSTANTS
  None = None
  NotAString = NotAString
  NotAnObject = NotAnObject
  Handlers = {h1}
  UserIds <- MCUserIds
  ModelIds <- MCModelIds
  UserSpecs <- KindUserSpecs
  ModelSpecs <- KindModelSpecs
  CheckRequests <- AllRequests
  PublicKey = "K"
  Now = 1
  SelectorEnabled = TRUE
  AlwaysActive = FALSE
  Scores = {0, 1}
  Threshold = NaN
  NaN = NaN
INVARIANTS AnswersJustified AllowedIsAuthenticated
