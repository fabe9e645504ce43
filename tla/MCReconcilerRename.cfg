SPECIFICATION Spec
CONSTANTS
  None = None
  Names <- OneNames
  KindOf <- OneKindOf
  SpecsOf <- RenameSpecsOf
  Replicas = {r1}
  LeaderElection = FALSE
  MaxEdits = 2
  MaxFaults = 0
PROPERTIES EventuallyConsistent
CHECK_DEADLOCK FALSE
