--------------------------- MODULE ProcessProofs ---------------------------
(***************************************************************************)
(* Proofs about the configuration, the start of the process and its end,   *)
(* for any set of configuration files and any number of calls in flight.   *)
(***************************************************************************)
EXTENDS Process, TLAPS

-----------------------------------------------------------------------------
(* Parameters *)

\* A map of parameters is a function on some of the keys.
LEMMA ParametersAre ==
  ASSUME NEW keys, NEW values, NEW p
  PROVE  p \in Parameters(keys, values) <=>
           \E k \in SUBSET keys : p \in [k -> values]
  BY DEF Parameters

\* The parameters of the authenticator.
LEMMA AuthParametersAre ==
  ASSUME NEW p \in AuthParameters
  PROVE  /\ DOMAIN p \subseteq {"publicKeyPath"}
         /\ p = [k \in DOMAIN p |-> p[k]]
         /\ \A k \in DOMAIN p : p[k] \in Paths
  BY ParametersAre DEF AuthParameters

\* Adding one map of the authenticator's parameters to another.
LEMMA AddAuthParameters ==
  ASSUME NEW old \in AuthParameters, NEW new \in AuthParameters
  PROVE  AddTo(old, new) \in AuthParameters
<1> DEFINE d == DOMAIN old \cup DOMAIN new
<1>1. d \subseteq {"publicKeyPath"}
  BY AuthParametersAre
<1>2. AddTo(old, new) \in [d -> Paths]
  BY AuthParametersAre DEF AddTo
<1> QED BY <1>1, <1>2, ParametersAre DEF AuthParameters

\* Adding one map of the selector's parameters to another.
LEMMA AddSelectionParameters ==
  ASSUME NEW old \in SelectionParameters, NEW new \in SelectionParameters
  PROVE  AddTo(old, new) \in SelectionParameters
<1> DEFINE d == DOMAIN old \cup DOMAIN new
           keys == {"url", "similarityThreshold"}
           values == Paths \cup Thresholds
           sum == AddTo(old, new)
<1>1. /\ \E k \in SUBSET keys : old \in [k -> values]
      /\ \E k \in SUBSET keys : new \in [k -> values]
  BY ParametersAre DEF SelectionParameters
<1>2. /\ d \in SUBSET keys
      /\ \A k \in DOMAIN old : old[k] \in values
      /\ \A k \in DOMAIN new : new[k] \in values
  BY <1>1
<1>3. /\ sum \in [d -> values]
      /\ \A k \in d : sum[k] = IF k \in DOMAIN new THEN new[k] ELSE old[k]
  BY <1>2 DEF AddTo
<1>4. sum \in Parameters(keys, values)
  BY <1>2, <1>3, ParametersAre
<1>5. DOMAIN sum = d
  BY <1>3
<1> HIDE DEF sum
<1>6. /\ "url" \in DOMAIN sum => sum["url"] \in Paths
      /\ "similarityThreshold" \in DOMAIN sum => sum["similarityThreshold"] \in Thresholds
  BY <1>3, <1>5 DEF SelectionParameters
<1>7. sum \in SelectionParameters
  BY <1>4, <1>6 DEF SelectionParameters
<1> QED BY <1>7 DEF sum

\* The empty map.
LEMMA NoParametersTypes ==
  /\ NoParameters \in AuthParameters
  /\ NoParameters \in SelectionParameters
<1>1. NoParameters \in [{} -> Paths] /\ NoParameters \in [{} -> Paths \cup Thresholds]
  BY DEF NoParameters
<1>2. DOMAIN NoParameters = {}
  BY DEF NoParameters
<1>3. /\ {} \in SUBSET {"publicKeyPath"}
      /\ {} \in SUBSET {"url", "similarityThreshold"}
  OBVIOUS
<1>4. /\ NoParameters \in Parameters({"publicKeyPath"}, Paths)
      /\ NoParameters \in Parameters({"url", "similarityThreshold"}, Paths \cup Thresholds)
  BY <1>1, <1>3, ParametersAre
<1> QED BY <1>2, <1>4 DEF AuthParameters, SelectionParameters

DefaultAuthParams == [publicKeyPath |-> "path"]

\* The default key path.
LEMMA DefaultAuthParamsAre ==
  /\ DOMAIN DefaultAuthParams = {"publicKeyPath"}
  /\ DefaultAuthParams["publicKeyPath"] = "path"
  /\ DefaultAuthParams \in AuthParameters
<1>1. /\ DOMAIN DefaultAuthParams = {"publicKeyPath"}
      /\ DefaultAuthParams["publicKeyPath"] = "path"
  BY DEF DefaultAuthParams
<1>2. DefaultAuthParams = [k \in {"publicKeyPath"} |-> "path"]
  BY <1>1 DEF DefaultAuthParams
<1>3. DefaultAuthParams \in [{"publicKeyPath"} -> Paths]
  BY <1>2 DEF Paths
<1> QED BY <1>1, <1>3, ParametersAre DEF AuthParameters

\* The built-in configuration is one.
LEMMA DefaultConfigTypes == DefaultConfig \in Config
  BY DefaultAuthParamsAre, NoParametersTypes DEF DefaultConfig, Config, DefaultAuthParams

\* So is what a file makes of it.
LEMMA LoadConfigTypes ==
  ASSUME NEW f \in FileShape
  PROVE  LoadConfig(f) \in Config
<1>1. /\ Scalar(f.dataStore, "memory") \in {"", "memory", "other"}
      /\ Scalar(f.policyEngine, "opa") \in {"", "opa", "other"}
      /\ Scalar(f.authType, "jwt") \in {"", "jwt", "other"}
      /\ Scalar(f.selType, "") \in {"", "semantic", "other"}
  BY DEF FileShape, Scalar
<1>2. Merge(f.authParams, DefaultAuthParams) \in AuthParameters
  BY DefaultAuthParamsAre, NoParametersTypes, AddAuthParameters DEF FileShape, Merge
<1>3. Merge(f.selParams, NoParameters) \in SelectionParameters
  BY NoParametersTypes, AddSelectionParameters DEF FileShape, Merge
<1>4. /\ DefaultConfig.dataStore = "memory" /\ DefaultConfig.policyEngine = "opa"
      /\ DefaultConfig.authType = "jwt" /\ DefaultConfig.selType = ""
      /\ DefaultConfig.authParams = DefaultAuthParams
      /\ DefaultConfig.selParams = NoParameters
  BY DEF DefaultConfig, DefaultAuthParams
<1> QED BY <1>1, <1>2, <1>3, <1>4 DEF LoadConfig, Config

\* A file that neither empties the map nor blanks the entry leaves a key path.
LEMMA KeyPathKept ==
  ASSUME NEW f \in FileShape, f.authParams \notin {Null, [publicKeyPath |-> ""]}
  PROVE  Lookup(LoadConfig(f).authParams, "publicKeyPath") # ""
<1> DEFINE p == f.authParams
<1>1. LoadConfig(f).authParams = Merge(p, DefaultAuthParams)
  BY DEF LoadConfig, DefaultConfig, DefaultAuthParams
<1>2. CASE p = None
  <2>1. Merge(p, DefaultAuthParams) = DefaultAuthParams
    BY <1>2 DEF Merge
  <2> QED BY <1>1, <2>1, DefaultAuthParamsAre DEF Lookup
<1>3. CASE p # None
  <2>1. p \in AuthParameters
    BY <1>3 DEF FileShape
  <2>2. Merge(p, DefaultAuthParams) = AddTo(DefaultAuthParams, p)
    BY <1>3 DEF Merge
  <2> HIDE DEF p
  <2>3. CASE "publicKeyPath" \notin DOMAIN p
    <3>1. AddTo(DefaultAuthParams, p)["publicKeyPath"] = "path"
      BY <2>3, DefaultAuthParamsAre DEF AddTo
    <3>2. "publicKeyPath" \in DOMAIN AddTo(DefaultAuthParams, p)
      BY DefaultAuthParamsAre DEF AddTo
    <3> QED BY <1>1, <2>2, <3>1, <3>2 DEF Lookup
  <2>4. CASE "publicKeyPath" \in DOMAIN p
    <3>1. /\ DOMAIN p = {"publicKeyPath"} /\ p["publicKeyPath"] \in Paths
          /\ p = [k \in DOMAIN p |-> p[k]]
      BY <2>1, <2>4, AuthParametersAre
    <3>2. p["publicKeyPath"] # ""
      <4> SUFFICES ASSUME p["publicKeyPath"] = "" PROVE FALSE
        OBVIOUS
      <4>1. p = [publicKeyPath |-> ""]
        BY <3>1
      <4> QED BY <4>1 DEF p
    <3>3. AddTo(DefaultAuthParams, p)["publicKeyPath"] = p["publicKeyPath"]
      BY <2>4 DEF AddTo
    <3>4. "publicKeyPath" \in DOMAIN AddTo(DefaultAuthParams, p)
      BY <2>4 DEF AddTo
    <3> QED BY <1>1, <2>2, <3>2, <3>3, <3>4 DEF Lookup
  <2> QED BY <2>3, <2>4
<1> QED BY <1>2, <1>3

\* What all the factories accept, Validate accepts.
LEMMA ValidateIsNoStricter ==
  ASSUME NEW c, Accepted(c)
  PROVE  Validate(c)
  BY DEF Accepted, Validate, NewStoreFromConfig, NewPolicyEngineFromConfig,
         NewAdapterSelectionFromConfig, NewAuthenticatorFromConfig, NewSelector, Lookup

-----------------------------------------------------------------------------
(* Types *)

\* A step of main before mgr.Start.
LEMMA MainEffect ==
  ASSUME TypeOK, Next
  PROVE  /\ TypeOK' /\ file' = file /\ pc \notin {"serving", "exited"}
         /\ \/ pc = "load" /\ pc' = "validate"
               /\ cfg' = IF file = None THEN DefaultConfig ELSE LoadConfig(file)
            \/ cfg' = cfg /\ (pc = "load" => pc' = "exited")
<1>1. CASE Load
  <2>1. file # None => LoadConfig(file) \in Config
    BY FilesAssumption, LoadConfigTypes DEF TypeOK
  <2> QED BY <1>1, <2>1, DefaultConfigTypes DEF Load, TypeOK
<1>2. CASE ~Load
  <2>1. /\ UNCHANGED <<cfg, file>>
        /\ pc \notin {"serving", "exited"}
        /\ pc' \in {"store", "engine", "manager", "selector", "authenticator", "start",
                    "serving", "exited"}
        /\ pc = "load" => pc' = "exited"
    BY <1>2
    DEF Next, LoadFails, ValidateConfig, CreateStore, CreateEngine, CreateManager,
        ManagerFails, CreateSelector, CreateAuthenticator, KeyFails, Start, Try, Exit
  <2> QED BY <2>1 DEF TypeOK
<1> QED BY <1>1, <1>2

-----------------------------------------------------------------------------
(* The inductive invariant *)

\* Calls are only ever in flight while Serve runs, none once GracefulStop
\* has returned, and Serve returns nil only after that.
CallsOK ==
  /\ pc # "exited" => cut = 0
  /\ serve \in {"waiting", "listen", "spawn", "serve"} => calls = 0
  /\ stopper = "done" => calls = 0
  /\ serve = "nil" => stopper = "done"

\* The configuration main works with is the one it has loaded.
LoadedOK == pc \notin {"load", "exited"} /\ file # None => cfg = LoadConfig(file)

PInv == ProcessTypeOK /\ CallsOK /\ LoadedOK /\ CleanExitCutsNothing

\* The start of the process.
LEMMA MainKeeps ==
  ASSUME PInv, MainStep
  PROVE  PInv'
<1>1. /\ TypeOK' /\ file' = file /\ pc \notin {"serving", "exited"}
      /\ \/ pc = "load" /\ pc' = "validate"
            /\ cfg' = IF file = None THEN DefaultConfig ELSE LoadConfig(file)
         \/ cfg' = cfg /\ (pc = "load" => pc' = "exited")
  BY MainEffect DEF PInv, ProcessTypeOK, MainStep
<1>2. exit' \in {None, 1} /\ UNCHANGED <<ctx, lease, serve, stopper, calls, cut>>
  BY DEF MainStep
<1>3. ProcessTypeOK'
  BY <1>1, <1>2 DEF PInv, ProcessTypeOK
<1>4. LoadedOK'
  BY <1>1 DEF PInv, LoadedOK
<1>5. cut' = 0
  BY <1>1, <1>2 DEF PInv, CallsOK
<1> QED BY <1>2, <1>3, <1>4, <1>5 DEF PInv, CallsOK, CleanExitCutsNothing

\* The steps under mgr.Start leave the configuration alone; those that do
\* not end the process cut nothing.
LEMMA ManagedKeeps ==
  ASSUME PInv, Managed, UNCHANGED <<exit, cut>>,
         ctx' \in {"open", "signalled", "failed"}, lease' \in BOOLEAN,
         serve' \in {"waiting", "listen", "spawn", "serve", "serving", "nil", "error"},
         stopper' \in {"none", "waiting", "stopping", "done"},
         calls' \in 0..MaxCalls,
         serve' \in {"waiting", "listen", "spawn", "serve"} => calls' = 0,
         stopper' = "done" => calls' = 0,
         serve' = "nil" => stopper' = "done"
  PROVE  PInv'
<1>1. ProcessTypeOK'
  BY DEF PInv, ProcessTypeOK, TypeOK, Managed
<1>2. cut = 0
  BY DEF PInv, CallsOK, Managed
<1> QED BY <1>1, <1>2 DEF PInv, CallsOK, LoadedOK, CleanExitCutsNothing, Managed

\* The end of the process: one that reports success has nothing in flight.
LEMMA ExitKeeps ==
  ASSUME PInv, NEW status \in {0, 1}, ExitWith(status),
         status = 0 /\ serve # "error" => calls = 0
  PROVE  PInv'
<1>1. cut = 0 /\ calls \in 0..MaxCalls
  BY DEF PInv, CallsOK, ProcessTypeOK, ExitWith
<1>2. cut' = calls /\ calls' = 0
  BY <1>1 DEF ExitWith
<1>3. ProcessTypeOK'
  BY <1>1, <1>2, CallsAssumption DEF PInv, ProcessTypeOK, TypeOK, ExitWith
<1> QED BY <1>1, <1>2, <1>3 DEF PInv, CallsOK, LoadedOK, CleanExitCutsNothing, ExitWith

\* The runnable, its goroutine and the calls.
LEMMA RunnableKeeps ==
  ASSUME PInv, RunnableStep \/ StopperStep \/ Call \/ CallEnds \/ ServeFails
  PROVE  PInv'
<1> USE DEF PInv, ProcessTypeOK, CallsOK
<1>1. ASSUME NEW from, NEW to, Advance(from, to),
             from \in {"waiting", "listen", "spawn", "serve", "serving"},
             to \in {"listen", "spawn", "serve", "serving", "nil", "error"},
             from = "serving" => to \in {"nil", "error"},
             to = "nil" => stopper = "done"
      PROVE  PInv'
  <2>1. /\ Managed /\ serve = from /\ serve' = to
        /\ UNCHANGED <<ctx, lease, stopper, calls, exit, cut>>
    BY <1>1 DEF Advance
  <2> QED BY <1>1, <2>1, ManagedKeeps
<1>2. CASE StartRunnable \/ Listen \/ Serve \/ ServeReturns \/ ServeFails
  BY <1>1, <1>2 DEF StartRunnable, Listen, Serve, ServeReturns, ServeFails
<1>3. CASE Spawn \/ StopperStep
  BY <1>3, ManagedKeeps DEF Spawn, StopperStep, GracefulStop, Drained
<1>4. CASE Call \/ CallEnds
  <2>1. /\ Managed /\ UNCHANGED <<ctx, lease, serve, stopper, exit, cut>>
        /\ calls' \in 0..MaxCalls
        /\ \/ serve = "serving" /\ stopper # "done"
           \/ calls # 0
    BY <1>4, CallsAssumption DEF Call, CallEnds, Stopping
  <2> QED BY <2>1, ManagedKeeps
<1> QED BY <1>2, <1>3, <1>4 DEF RunnableStep

\* The manager.
LEMMA ManagerKeeps ==
  ASSUME PInv, ManagerStep \/ Signal \/ AcquireLease \/ LoseLease
  PROVE  PInv'
<1>1. CASE TakeError \/ Signal \/ AcquireLease
  BY <1>1, ManagedKeeps DEF TakeError, Signal, AcquireLease, PInv, ProcessTypeOK, CallsOK
<1>2. CASE LoseLease
  BY <1>2, ExitKeeps DEF LoseLease
<1>3. CASE ManagerReturns
  <2>1. /\ serve \in {"nil", "error", "waiting"}
        /\ ExitWith(0) \/ ExitWith(1)
    BY <1>3 DEF ManagerReturns, Returned
  <2>2. serve # "error" => calls = 0
    BY <2>1 DEF PInv, CallsOK
  <2> QED BY <2>1, <2>2, ExitKeeps
<1> QED BY <1>1, <1>2, <1>3 DEF ManagerStep

\* The process starts well.
LEMMA ProcessInit == PInit => PInv
<1> SUFFICES ASSUME PInit PROVE PInv
  OBVIOUS
<1>1. TypeOK
  BY DefaultConfigTypes DEF PInit, Init, TypeOK
<1>2. 0 \in 0..MaxCalls
  BY CallsAssumption
<1>3. ProcessTypeOK
  BY <1>1, <1>2, Zenon DEF PInit, ProcessTypeOK
<1>4. CallsOK /\ LoadedOK /\ CleanExitCutsNothing
  BY DEF PInit, Init, CallsOK, LoadedOK, CleanExitCutsNothing
<1> QED BY <1>3, <1>4 DEF PInv

\* The invariant holds throughout.
LEMMA ProcessInvariant == PSpec => []PInv
<1>1. PInv /\ [PNext]_allVars => PInv'
  <2>1. ASSUME PInv, UNCHANGED allVars PROVE PInv'
    BY <2>1
    DEF allVars, procVars, PInv, ProcessTypeOK, TypeOK, CallsOK, LoadedOK, CleanExitCutsNothing
  <2>2. ASSUME PInv, PNext PROVE PInv'
    BY <2>2, MainKeeps, RunnableKeeps, ManagerKeeps DEF PNext
  <2> QED BY <2>1, <2>2
<1> QED BY <1>1, ProcessInit, PTL DEF PSpec

-----------------------------------------------------------------------------
(* Theorems *)

\* The configuration, the runnable and the manager keep their types; at most
\* MaxCalls calls are ever cut off.
THEOREM ProcessTypeCorrect == PSpec => []ProcessTypeOK
<1>1. PInv => ProcessTypeOK
  BY DEF PInv
<1> QED BY <1>1, ProcessInvariant, PTL

\* For any number of calls in flight and wherever the signal falls: a process
\* that exits with status 0, its listener intact, has answered every call.
THEOREM CleanExit == PSpec => []CleanExitCutsNothing
<1>1. PInv => CleanExitCutsNothing
  BY DEF PInv
<1> QED BY <1>1, ProcessInvariant, PTL

\* For every file: a key path the file does not take away is still there when
\* the authenticator is created.
THEOREM KeyPathSurvives == PSpec => []DefaultKeyPathSurvives
<1>1. PInv => DefaultKeyPathSurvives
  <2> SUFFICES ASSUME PInv, pc = "authenticator", file # None,
                      file.authParams \notin {Null, [publicKeyPath |-> ""]}
               PROVE  Lookup(cfg.authParams, "publicKeyPath") # ""
    BY DEF DefaultKeyPathSurvives
  <2>1. file \in FileShape /\ cfg = LoadConfig(file)
    BY FilesAssumption DEF PInv, ProcessTypeOK, TypeOK, LoadedOK
  <2> QED BY <2>1, KeyPathKept
<1> QED BY <1>1, ProcessInvariant, PTL

\* For every file: Validate refuses no configuration that all the factories
\* would accept.
THEOREM ValidateRefusesOnlyUnusable == PSpec => RefusesOnlyUnusable
<1>1. [PNext]_allVars => [pc = "validate" /\ pc' = "exited" => ~Accepted(cfg)]_vars
  <2> SUFFICES ASSUME [PNext]_allVars, pc = "validate", pc' = "exited"
               PROVE  ~Accepted(cfg)
    OBVIOUS
  <2>1. PNext
    BY DEF allVars
  <2>2. MainStep
    BY <2>1
    DEF PNext, RunnableStep, StopperStep, ManagerStep, StartRunnable, Listen, Spawn, Serve,
        ServeReturns, ServeFails, GracefulStop, Drained, Call, CallEnds, TakeError,
        ManagerReturns, Signal, AcquireLease, LoseLease, ExitWith, Advance, Managed
  <2>3. ValidateConfig
    BY <2>2
    DEF MainStep, Next, Load, LoadFails, CreateStore, CreateEngine, CreateManager,
        ManagerFails, CreateSelector, CreateAuthenticator, KeyFails, Start, Try
  <2>4. ~Validate(cfg)
    BY <2>3 DEF ValidateConfig, Try
  <2> QED BY <2>4, ValidateIsNoStricter
<1> QED BY <1>1, PTL DEF PSpec, RefusesOnlyUnusable

=============================================================================
