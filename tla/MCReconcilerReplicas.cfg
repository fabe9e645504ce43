SPECIFICATION Spec
CONSTANTS
  None = None
  Names <- OneNames
  KindOf <- OneKindOf
  SpecsOf <- OneSpecsOf
  Replicas = {r1, r2}
  LeaderElection = FALSE
  MaxEdits = 2
  MaxFaults = 0
PROPERTIES EventuallyConsistent
CHECK_DEADLOCK FALSE
