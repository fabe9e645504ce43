SPECIFICATION Spec
CONSTANTS
  None = None
  Names <- TwoNames
  KindOf <- TwoKindOf
  SpecsOf <- TwoSpecsOf
  Replicas = {r1}
  LeaderElection = FALSE
  MaxEdits = 2
  MaxFaults = 0
PROPERTIES ReadyMeansPopulated
CHECK_DEADLOCK FALSE
