SPECIFICATION Spec
CONSTANTS
  None = None
  Names <- BadNames
  KindOf <- BadKindOf
  SpecsOf <- BadSpecsOf
  Replicas = {r1, r2}
  LeaderElection = TRUE
  MaxEdits = 3
  MaxFaults = 2
INVARIANTS TypeOK EntriesHaveFinalizer
PROPERTIES StoreNeverRegresses EventuallyConsistent DeletionCompletes LeaderBecomesReady
CHECK_DEADLOCK FALSE
