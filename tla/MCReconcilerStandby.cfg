SPECIFICATION Spec
CONSTANTS
  None = None
  Names <- OneNames
  KindOf <- OneKindOf
  SpecsOf <- OneSpecsOf
  Replicas = {r1, r2}
  LeaderElection = TRUE
  MaxEdits = 1
  MaxFaults = 0
PROPERTIES EveryReplicaBecomesReady
CHECK_DEADLOCK FALSE
