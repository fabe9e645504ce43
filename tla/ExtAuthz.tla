------------------------------ MODULE ExtAuthz ------------------------------
(***************************************************************************)
(* The ext-auth server: concurrent invocations of Check over the store.    *)
(*                                                                         *)
(* gRPC runs every call of Check on a goroutine of its own; Handlers is    *)
(* the set of such goroutines.  A handler takes the store's lock once per  *)
(* lookup (UserExists, GetUser, GetModel, ListModelsByType) and holds it   *)
(* across none of them, so each lookup is an action of its own and the     *)
(* reconcilers' writes interleave between them.  Everything Check does     *)
(* between two lookups is local to the goroutine and belongs to the        *)
(* action of the lookup that follows or precedes it.                       *)
(***************************************************************************)
EXTENDS CheckAPI

VARIABLES
  users, models,    \* the store
  pc,               \* where each handler is in Check
  request,          \* the CheckRequest of the call
  user, model,      \* Check's locals of these names
  adapters,         \* the candidates Pick sent to the sidecar
  response          \* the CheckResponse, None until it is built

storeVars == <<users, models>>
handlerVars == <<pc, request, user, model, adapters, response>>
vars == <<users, models, pc, request, user, model, adapters, response>>

PCs == {"idle", "parse", "userExists", "getUser", "getModel", "checkAccess",
        "listLoras", "pick", "done"}

-----------------------------------------------------------------------------
(* Adapter selection *)

\* The LoRA models of the requested base model.
Candidates(ms, modelID) ==
  {m \in ListModelsByType(ms, ModelTypeLora) : m.baseModelId = modelID}

\* Pick sends the sidecar the allowed models that are LoRAs of the
\* requested model and have descriptions; with none it makes no call.
PickCandidates(allowed, modelID) ==
  {m \in allowed : /\ m.type = ModelTypeLora
                   /\ m.baseModelId = modelID
                   /\ m.descriptions # {}}

\* What the sidecar may answer: any model id, known or not, with any score.
\* None stands for a failed call: refused, timed out, not 200, not JSON.
SidecarAnswers == [ModelID : ModelIds \cup {""}, Score : Scores] \cup {None}

\* No score is below NaN.
BelowThreshold(score) == Threshold # NaN /\ score < Threshold

\* Mutant: the sidecar's model id is not looked up among the candidates.
PickMatches_anyId(cands, answer) ==
  /\ answer # None
  /\ ~BelowThreshold(answer.Score)

\* Pick matches when the score reaches the threshold and the id is one of
\* the candidates it sent.
PickMatches(cands, answer) ==
  /\ answer # None
  /\ ~BelowThreshold(answer.Score)
  /\ \E m \in cands : m.id = answer.ModelID

-----------------------------------------------------------------------------
(* Check, step by step *)

Goto(h, label) == pc' = [pc EXCEPT ![h] = label]

Respond(h, rsp) ==
  /\ response' = [response EXCEPT ![h] = rsp]
  /\ Goto(h, "done")

\* Envoy calls Check.
Receive(h, rq) ==
  /\ pc[h] = "idle"
  /\ request' = [request EXCEPT ![h] = rq]
  /\ Goto(h, "parse")
  /\ UNCHANGED <<storeVars, user, model, adapters, response>>

\* Parse, pass unprotected paths through, authenticate.
Parse(h) ==
  LET rq == request[h] IN
  /\ pc[h] = "parse"
  /\ \/ /\ ParseFails(rq)
        /\ Respond(h, deny("parse"))
     \/ /\ ~ParseFails(rq)
        /\ IR(rq).Type = RequestTypeUnknown
        /\ Respond(h, allowWithoutClaims)
     \/ /\ ~ParseFails(rq)
        /\ IR(rq).Type # RequestTypeUnknown
        /\ UserID(rq) = None
        /\ Respond(h, deny("authentication"))
     \/ /\ ~ParseFails(rq)
        /\ IR(rq).Type # RequestTypeUnknown
        /\ UserID(rq) # None
        /\ Goto(h, "userExists")
        /\ UNCHANGED response
  /\ UNCHANGED <<storeVars, request, user, model, adapters>>

\* Mutant: models are listed before the user is looked up.
CheckUserExists_listFirst(h) ==
  LET rq == request[h] IN
  /\ pc[h] = "userExists"
  /\ \/ /\ IR(rq).Type = RequestTypeListModels
        /\ Respond(h, allow)
     \/ /\ IR(rq).Type # RequestTypeListModels
        /\ ~UserExists(users, UserID(rq))
        /\ Respond(h, deny("user not registered"))
     \/ /\ IR(rq).Type # RequestTypeListModels
        /\ UserExists(users, UserID(rq))
        /\ Goto(h, "getUser")
        /\ UNCHANGED response
  /\ UNCHANGED <<storeVars, request, user, model, adapters>>

\* UserExists, then the list-models and missing-model early returns.
CheckUserExists(h) ==
  LET rq == request[h] IN
  /\ pc[h] = "userExists"
  /\ \/ /\ ~UserExists(users, UserID(rq))
        /\ Respond(h, deny("user not registered"))
     \/ /\ UserExists(users, UserID(rq))
        /\ IR(rq).Type = RequestTypeListModels
        /\ Respond(h, allow)
     \/ /\ UserExists(users, UserID(rq))
        /\ IR(rq).Type # RequestTypeListModels
        /\ IR(rq).ModelID = ""
        /\ Respond(h, deny("missing model"))
     \/ /\ UserExists(users, UserID(rq))
        /\ IR(rq).Type # RequestTypeListModels
        /\ IR(rq).ModelID # ""
        /\ Goto(h, "getUser")
        /\ UNCHANGED response
  /\ UNCHANGED <<storeVars, request, user, model, adapters>>

\* The user may have been deleted since UserExists.
LookUpUser(h) ==
  LET found == GetUser(users, UserID(request[h])) IN
  /\ pc[h] = "getUser"
  /\ user' = [user EXCEPT ![h] = found]
  /\ \/ /\ found = None
        /\ Respond(h, deny("user not found"))
     \/ /\ found # None
        /\ Goto(h, "getModel")
        /\ UNCHANGED response
  /\ UNCHANGED <<storeVars, request, model, adapters>>

\* Mutant: a missing model is waited for.
LookUpModel_waits(h) ==
  LET found == GetModel(models, IR(request[h]).ModelID) IN
  /\ pc[h] = "getModel"
  /\ found # None
  /\ model' = [model EXCEPT ![h] = found]
  /\ Goto(h, "checkAccess")
  /\ UNCHANGED <<storeVars, request, user, adapters, response>>

LookUpModel(h) ==
  LET found == GetModel(models, IR(request[h]).ModelID) IN
  /\ pc[h] = "getModel"
  /\ model' = [model EXCEPT ![h] = found]
  /\ \/ /\ found = None
        /\ Respond(h, deny("model not found"))
     \/ /\ found # None
        /\ Goto(h, "checkAccess")
        /\ UNCHANGED response
  /\ UNCHANGED <<storeVars, request, user, adapters>>

\* The decision, on the copies read before.
EvaluatePolicy(h) ==
  /\ pc[h] = "checkAccess"
  /\ \/ /\ ~CheckAccess(user[h], model[h])
        /\ Respond(h, deny("access denied by policy"))
     \/ /\ CheckAccess(user[h], model[h])
        /\ ~ShouldSelect(request[h], model[h])
        /\ Respond(h, allow)
     \/ /\ CheckAccess(user[h], model[h])
        /\ ShouldSelect(request[h], model[h])
        /\ Goto(h, "listLoras")
        /\ UNCHANGED response
  /\ UNCHANGED <<storeVars, request, user, model, adapters>>

\* OPA's evaluation returns an error, as it does when the call's context is
\* cancelled while it runs.
PolicyError(h) ==
  /\ pc[h] = "checkAccess"
  /\ Respond(h, deny("policy evaluation error"))
  /\ UNCHANGED <<storeVars, request, user, model, adapters>>

\* Mutant: a base model without an adapter for the user is refused.
ListLoras_failsClosed(h) ==
  LET modelID == IR(request[h]).ModelID
      allowed == GetAllowedModels(user[h], Candidates(models, modelID))
      toSend  == PickCandidates(allowed, modelID) IN
  /\ pc[h] = "listLoras"
  /\ \/ /\ toSend = {}
        /\ Respond(h, deny("access denied by policy"))
        /\ UNCHANGED adapters
     \/ /\ toSend # {}
        /\ adapters' = [adapters EXCEPT ![h] = toSend]
        /\ Goto(h, "pick")
        /\ UNCHANGED response
  /\ UNCHANGED <<storeVars, request, user, model>>

\* ListModelsByType, GetAllowedModels and the first half of Pick.
ListLoras(h) ==
  LET modelID == IR(request[h]).ModelID
      allowed == GetAllowedModels(user[h], Candidates(models, modelID))
      toSend  == PickCandidates(allowed, modelID) IN
  /\ pc[h] = "listLoras"
  /\ \/ /\ toSend = {}
        /\ Respond(h, allow)
        /\ UNCHANGED adapters
     \/ /\ toSend # {}
        /\ adapters' = [adapters EXCEPT ![h] = toSend]
        /\ Goto(h, "pick")
        /\ UNCHANGED response
  /\ UNCHANGED <<storeVars, request, user, model>>

\* GetAllowedModels returns an error: the base model is served.
AllowedModelsError(h) ==
  /\ pc[h] = "listLoras"
  /\ Candidates(models, IR(request[h]).ModelID) # {}
  /\ Respond(h, allow)
  /\ UNCHANGED <<storeVars, request, user, model, adapters>>

\* Mutant: a sidecar that fails or finds nothing makes the call fail.
Pick_failsClosed(h, answer) ==
  /\ pc[h] = "pick"
  /\ \/ /\ PickMatches(adapters[h], answer)
        /\ Respond(h, allowWithModelRewrite(answer.ModelID))
     \/ /\ ~PickMatches(adapters[h], answer)
        /\ Respond(h, deny("model not found"))
  /\ UNCHANGED <<storeVars, request, user, model, adapters>>

\* The sidecar's HTTP call returns, or fails within the client's timeout.
Pick(h, answer) ==
  /\ pc[h] = "pick"
  /\ \/ /\ PickMatches(adapters[h], answer)
        /\ Respond(h, allowWithModelRewrite(answer.ModelID))
     \/ /\ ~PickMatches(adapters[h], answer)
        /\ Respond(h, allow)
  /\ UNCHANGED <<storeVars, request, user, model, adapters>>

\* Check returns; the goroutine's locals are gone.
Return(h) ==
  /\ pc[h] = "done"
  /\ Goto(h, "idle")
  /\ request'  = [request EXCEPT ![h] = None]
  /\ user'     = [user EXCEPT ![h] = None]
  /\ model'    = [model EXCEPT ![h] = None]
  /\ adapters' = [adapters EXCEPT ![h] = {}]
  /\ response' = [response EXCEPT ![h] = None]
  /\ UNCHANGED storeVars

-----------------------------------------------------------------------------
(* The reconcilers' writes, in any order (module Reconciler says which) *)

StoreWrite ==
  /\ \/ /\ \E u \in UserSpecs : users' = SyncUser(users, u)
        /\ UNCHANGED models
     \/ /\ \E i \in UserIds : users' = DeleteUser(users, i)
        /\ UNCHANGED models
     \/ /\ \E m \in ModelSpecs : models' = SyncModel(models, m)
        /\ UNCHANGED users
     \/ /\ \E i \in ModelIds : models' = DeleteModel(models, i)
        /\ UNCHANGED users
  /\ UNCHANGED handlerVars

-----------------------------------------------------------------------------
Init ==
  /\ users = EmptyMap(UserIds)
  /\ models = EmptyMap(ModelIds)
  /\ pc = [h \in Handlers |-> "idle"]
  /\ request = [h \in Handlers |-> None]
  /\ user = [h \in Handlers |-> None]
  /\ model = [h \in Handlers |-> None]
  /\ adapters = [h \in Handlers |-> {}]
  /\ response = [h \in Handlers |-> None]

\* The steps a handler takes on its own once it has a request.
Step(h) ==
  \/ Parse(h)
  \/ CheckUserExists(h)
  \/ LookUpUser(h)
  \/ LookUpModel(h)
  \/ EvaluatePolicy(h)
  \/ PolicyError(h)
  \/ ListLoras(h)
  \/ AllowedModelsError(h)
  \/ \E answer \in SidecarAnswers : Pick(h, answer)
  \/ Return(h)

Next ==
  \/ \E h \in Handlers :
       \/ \E rq \in CheckRequests : Receive(h, rq)
       \/ Step(h)
  \/ StoreWrite

\* A goroutine that can run is scheduled eventually, and the sidecar's HTTP
\* call ends within the client's 5 s timeout.
Fairness == \A h \in Handlers : WF_vars(Step(h))

Spec == Init /\ [][Next]_vars /\ Fairness

TypeOK ==
  /\ users \in [UserIds -> UserSpecs \cup {None}]
  /\ models \in [ModelIds -> ModelSpecs \cup {None}]
  /\ pc \in [Handlers -> PCs]
  /\ request \in [Handlers -> CheckRequests \cup {None}]
  /\ user \in [Handlers -> UserSpecs \cup {None}]
  /\ model \in [Handlers -> ModelSpecs \cup {None}]
  /\ adapters \in [Handlers -> SUBSET ModelSpecs]
  /\ response \in [Handlers -> Responses \cup {None}]

=============================================================================
