------------------------------ MODULE Startup ------------------------------
(***************************************************************************)
(* The start of the process: main builds the configuration, validates it   *)
(* and creates the components one after the other, and exits at the first  *)
(* error.  Nothing is served before the last step.                         *)
(*                                                                         *)
(* A configuration file mentions some fields and leaves others out (None). *)
(* The map "parameters" is a function on the keys that are present.  Of a  *)
(* threshold it matters how strconv.ParseFloat takes it.                   *)
(***************************************************************************)
EXTENDS Nil

CONSTANTS
  Files,   \* contents of configuration files, see FileShape
  Null     \* an explicit null in a file

VARIABLES
  pc,         \* the next step of main, "exited" or "serving"
  cfg,        \* the SecureInferenceConfig
  file        \* the configuration file: a member of Files, or None (no --config)

vars == <<pc, cfg, file>>

Paths == {"", "path"}
Thresholds == {"", "0.7", "NaN", "junk"}

Parameters(keys, values) == UNION {[k -> values] : k \in SUBSET keys}

AuthParameters == Parameters({"publicKeyPath"}, Paths)

SelectionParameters ==
  {p \in Parameters({"url", "similarityThreshold"}, Paths \cup Thresholds) :
     /\ "url" \in DOMAIN p => p["url"] \in Paths
     /\ "similarityThreshold" \in DOMAIN p => p["similarityThreshold"] \in Thresholds}

FileShape ==
  [dataStore    : {None, "", "memory", "other"},
   policyEngine : {None, "", "opa", "other"},
   authType     : {None, "", "jwt", "other"},
   authParams   : {None, Null} \cup AuthParameters,
   selType      : {None, "", "semantic", "other"},
   selParams    : {None, Null} \cup SelectionParameters]

ASSUME FilesAssumption == Files \subseteq FileShape

Config ==
  [dataStore    : {"", "memory", "other"},
   policyEngine : {"", "opa", "other"},
   authType     : {"", "jwt", "other"},
   authParams   : AuthParameters,
   selType      : {"", "semantic", "other"},
   selParams    : SelectionParameters]

-----------------------------------------------------------------------------
(* pkg/config *)

NoParameters == [k \in {} |-> ""]

DefaultConfig ==
  [dataStore    |-> "memory",
   policyEngine |-> "opa",
   authType     |-> "jwt",
   authParams   |-> [publicKeyPath |-> "path"],
   selType      |-> "",
   selParams    |-> NoParameters]

\* Reading a missing key of a Go map.
Lookup(params, k) == IF k \in DOMAIN params THEN params[k] ELSE ""

\* Mutant: an absent field overwrites the default.
Scalar_absent(new, old) == new

\* Decoding JSON into a string that has a value already.
Scalar(new, old) == IF new = None THEN old ELSE new

\* The entries of new, and those of old under other keys.
AddTo(old, new) == [k \in DOMAIN old \cup DOMAIN new |->
                      IF k \in DOMAIN new THEN new[k] ELSE old[k]]

\* Decoding into a map: null empties it, an object adds to its entries.
Merge(new, old) == IF new = None THEN old
                   ELSE IF new = Null THEN NoParameters ELSE AddTo(old, new)

\* Mutant: an object replaces the map.
LoadConfig_replaces(f) ==
  [dataStore    |-> Scalar(f.dataStore, DefaultConfig.dataStore),
   policyEngine |-> Scalar(f.policyEngine, DefaultConfig.policyEngine),
   authType     |-> Scalar(f.authType, DefaultConfig.authType),
   authParams   |-> IF f.authParams \in {None, Null} THEN NoParameters
                                                        ELSE f.authParams,
   selType      |-> Scalar(f.selType, DefaultConfig.selType),
   selParams    |-> Merge(f.selParams, DefaultConfig.selParams)]

\* yaml.Unmarshal of the file over the defaults.
LoadConfig(f) ==
  [dataStore    |-> Scalar(f.dataStore, DefaultConfig.dataStore),
   policyEngine |-> Scalar(f.policyEngine, DefaultConfig.policyEngine),
   authType     |-> Scalar(f.authType, DefaultConfig.authType),
   authParams   |-> Merge(f.authParams, DefaultConfig.authParams),
   selType      |-> Scalar(f.selType, DefaultConfig.selType),
   selParams    |-> Merge(f.selParams, DefaultConfig.selParams)]

ParsesAsFloat(v) == v \in {"0.7", "NaN"}

\* Mutant: the parameters of a selector that is switched off are looked at.
Validate_disabledToo(c) ==
  /\ c.dataStore \in {"memory", ""}
  /\ c.policyEngine \in {"opa", ""}
  /\ c.authType \in {"jwt", ""}
  /\ c.authType = "jwt" => Lookup(c.authParams, "publicKeyPath") # ""
  /\ c.selType \in {"semantic", ""}
  /\ LET v == Lookup(c.selParams, "similarityThreshold")
     IN  v # "" => ParsesAsFloat(v)
  /\ c.selType = "semantic" => Lookup(c.selParams, "url") # ""

\* Validate returns no error.
Validate(c) ==
  /\ c.dataStore \in {"memory", ""}
  /\ c.policyEngine \in {"opa", ""}
  /\ c.authType \in {"jwt", ""}
  /\ c.authType = "jwt" => Lookup(c.authParams, "publicKeyPath") # ""
  /\ c.selType \in {"semantic", ""}
  /\ c.selType = "semantic" =>
       /\ Lookup(c.selParams, "url") # ""
       /\ LET v == Lookup(c.selParams, "similarityThreshold")
          IN  v # "" => ParsesAsFloat(v)

-----------------------------------------------------------------------------
(* The factories: whether they accept their part of the configuration *)

NewStoreFromConfig(c) == c.dataStore \in {"memory", ""}

NewPolicyEngineFromConfig(c) == c.policyEngine \in {"opa", ""}

\* semantic.New: the threshold is parsed when the key is there, "" included.
NewSelector(c) ==
  /\ Lookup(c.selParams, "url") # ""
  /\ "similarityThreshold" \in DOMAIN c.selParams =>
       ParsesAsFloat(c.selParams["similarityThreshold"])

NewAdapterSelectionFromConfig(c) ==
  c.selType = "" \/ (c.selType = "semantic" /\ NewSelector(c))

\* jwt.New up to the loading of the key.
NewAuthenticatorFromConfig(c) ==
  c.authType \in {"jwt", ""} /\ Lookup(c.authParams, "publicKeyPath") # ""

-----------------------------------------------------------------------------
(* main *)

Init ==
  /\ pc = "load"
  /\ cfg = DefaultConfig
  /\ file \in Files \cup {None}

Exit == pc' = "exited" /\ UNCHANGED <<cfg, file>>

Load ==
  /\ pc = "load"
  /\ cfg' = IF file = None THEN DefaultConfig ELSE LoadConfig(file)
  /\ pc' = "validate"
  /\ UNCHANGED file

\* The file cannot be read or is not YAML.
LoadFails == pc = "load" /\ file # None /\ Exit

\* A step of main that goes on when ok holds and exits otherwise.
Try(at, ok, next) ==
  /\ pc = at
  /\ IF ok THEN pc' = next /\ UNCHANGED <<cfg, file>> ELSE Exit

ValidateConfig == Try("validate", Validate(cfg), "store")
CreateStore == Try("store", NewStoreFromConfig(cfg), "engine")
CreateEngine == Try("engine", NewPolicyEngineFromConfig(cfg), "manager")

\* ctrl.NewManager and SetupWithManager, and later the manager's Add calls;
\* they fail when the cluster does.
CreateManager == Try("manager", TRUE, "selector")
ManagerFails == pc \in {"manager", "start"} /\ Exit

CreateSelector ==
  Try("selector", NewAdapterSelectionFromConfig(cfg), "authenticator")

CreateAuthenticator ==
  Try("authenticator", NewAuthenticatorFromConfig(cfg), "start")

\* LoadPublicKey: the file is missing or holds no RSA key.
KeyFails == pc = "authenticator" /\ Exit

\* mgr.Start with the gRPC server and the health checks added.
Start == Try("start", TRUE, "serving")

Next ==
  \/ Load \/ LoadFails \/ ValidateConfig
  \/ CreateStore \/ CreateEngine
  \/ CreateManager \/ ManagerFails
  \/ CreateSelector \/ CreateAuthenticator \/ KeyFails \/ Start

Spec == Init /\ [][Next]_vars

-----------------------------------------------------------------------------
(* Properties *)

\* cfg is a configuration record and pc one of main's steps.
TypeOK ==
  /\ pc \in {"load", "validate", "store", "engine", "manager", "selector",
             "authenticator", "start", "serving", "exited"}
  /\ cfg \in Config
  /\ file \in Files \cup {None}

\* What the factories accept, taken together.
Accepted(c) ==
  /\ NewStoreFromConfig(c) /\ NewPolicyEngineFromConfig(c)
  /\ NewAdapterSelectionFromConfig(c) /\ NewAuthenticatorFromConfig(c)

\* Validate (config.go:64) is never stricter than the components: it refuses
\* no configuration with which all of them could be created.
RefusesOnlyUnusable ==
  [][pc = "validate" /\ pc' = "exited" => ~Accepted(cfg)]_vars

\* A key the file leaves alone keeps its default however the rest of its map
\* is filled in (config.go:109-110): unless the file empties the map or blanks
\* the entry, an authenticator is never refused for lack of a key path.
DefaultKeyPathSurvives ==
  /\ pc = "authenticator" /\ file # None
  /\ file.authParams \notin {Null, [publicKeyPath |-> ""]}
  => Lookup(cfg.authParams, "publicKeyPath") # ""

\* The factories know every type, and the components they create find the
\* parameters they cannot do without: the selector its url, the authenticator
\* its key path.  A threshold is optional and does not count.
Complete(c) ==
  /\ NewStoreFromConfig(c) /\ NewPolicyEngineFromConfig(c)
  /\ c.selType = "" \/ (c.selType = "semantic" /\ Lookup(c.selParams, "url") # "")
  /\ NewAuthenticatorFromConfig(c)

\* The comment on Validate (config.go:62-63): what it accepts has recognized
\* types, and every required parameter of the components that are enabled.
ValidatedIsComplete ==
  pc \notin {"load", "validate", "exited"} => Complete(cfg)

=============================================================================
