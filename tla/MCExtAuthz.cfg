SPECIFICATION WSpec
CONSTANTS
  None = None
  NotAString = NotAString
  NotAnObject = NotAnObject
  Handlers = {h1}
  UserIds <- MCUserIds
  ModelIds <- MCModelIds
  UserSpecs <- RaceUserSpecs
  ModelSpecs <- RaceModelSpecs
  CheckRequests <- RaceRequests
  PublicKey = "K"
  Now = 1
  SelectorEnabled = TRUE
  AlwaysActive = FALSE
  Scores = {0, 1}
  Threshold = 1
  NaN = NaN
INVARIANTS TypeOK AnswersJustified StrangersAreRefused StableAccessIsGranted
PROPERTIES SelectionNeverDenies ImplementsContract EveryCallAnswered
