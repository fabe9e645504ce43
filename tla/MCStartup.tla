----------------------------- MODULE MCStartup -----------------------------
(***************************************************************************)
(* Every combination of what a configuration file may say of one component *)
(* with usual settings of the others, and of the two that take parameters  *)
(* with each other.                                                        *)
(***************************************************************************)
EXTENDS Process

MCFiles ==
  {f \in FileShape :
     \/ f.dataStore = None /\ f.policyEngine = None
     \/ /\ f.authType = None /\ f.authParams = None
        /\ f.selType = None /\ f.selParams = None}

=============================================================================
