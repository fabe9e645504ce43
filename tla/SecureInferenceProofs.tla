----------------------- MODULE SecureInferenceProofs -----------------------
(***************************************************************************)
(* Proofs about the controllers and the server together, for any number of *)
(* replicas, objects, calls, edits and faults.                             *)
(***************************************************************************)
EXTENDS SecureInference, ReconcilerProofs

-----------------------------------------------------------------------------
(* The controllers are undisturbed *)

\* Every step of the system is a step of the controllers or none of theirs.
LEMMA ControllersStep == [SNext]_sysVars => [Next]_vars
  BY DEF SNext, sysVars, ControllerStep, Arrive, CheckStep

\* What the controllers keep on their own they keep here.
LEMMA HoldersHere == SSpec => []HInv
<1>1. SInit => HInv
  BY HoldersInit DEF SInit
<1>2. HInv /\ [SNext]_sysVars => HInv'
  BY ControllersStep, HoldersKeep
<1> QED BY <1>1, <1>2, PTL DEF SSpec

\* The entries' finalizers among it.
LEMMA EntriesHere ==
  ASSUME StableIds, OneActive
  PROVE  SSpec => []EInv
<1>1. SInit => EInv
  BY EntriesInit DEF SInit
<1>2. EInv /\ [SNext]_sysVars => EInv'
  BY ControllersStep, EntriesKeep
<1> QED BY <1>1, <1>2, PTL DEF SSpec

-----------------------------------------------------------------------------
(* Types *)

Labels == {"idle", "parse", "userExists", "getUser", "getModel", "checkAccess",
           "listLoras", "pick", "done"}

Users == SpecsOfKind("User")
Models == SpecsOfKind("Model")

\* The locals of the handlers.
LocalsOK(r) ==
  /\ pc \in [Handlers -> Labels]
  /\ request \in [Handlers -> CheckRequests \cup {None}]
  /\ user \in [Handlers -> Users \cup {None}]
  /\ model \in [Handlers -> Models \cup {None}]
  /\ adapters \in [Handlers -> SUBSET Models]
  /\ response \in [Handlers -> Server(r)!Responses \cup {None}]

\* The servers have the same answers.
LEMMA SameResponses ==
  ASSUME NEW r \in Replicas, NEW q \in Replicas
  PROVE  Server(r)!Responses = Server(q)!Responses
  BY DEF Server!Responses, Server!Reasons

\* The specs in a store are of its kind.
LEMMA StoreTypes ==
  ASSUME HInv, NEW r \in Replicas
  PROVE  /\ store[r]["User"] \in [Ids -> Users \cup {None}]
         /\ store[r]["Model"] \in [Ids -> Models \cup {None}]
<1>1. ASSUME NEW k \in Kinds PROVE store[r][k] \in [Ids -> SpecsOfKind(k) \cup {None}]
  <2>1. store[r][k] \in [Ids -> Specs \cup {None}] /\ StoreOK(r, k)
    BY DEF HInv, VInv, TypeOK
  <2>2. ASSUME NEW i \in Ids, store[r][k][i] # None PROVE store[r][k][i] \in SpecsOfKind(k)
    <3>1. store[r][k][i].id = i /\ i # ""
      BY <2>1, <2>2 DEF StoreOK, Ids
    <3>2. PICK n \in Names : KindOf[n] = k /\ store[r][k][i] \in SpecsOf[n]
      BY <2>1, <2>2 DEF StoreOK
    <3>3. n \in {m \in Names : KindOf[m] = k}
      BY <3>2
    <3>4. store[r][k][i] \in UNION {SpecsOf[m] : m \in {j \in Names : KindOf[j] = k}}
      BY <3>2, <3>3
    <3> QED BY <3>1, <3>4 DEF SpecsOfKind, ValidId
  <2> QED BY <2>1, <2>2
<1> QED BY <1>1 DEF Kinds, Users, Models

\* The answers Check gives.
LEMMA Answers ==
  ASSUME NEW r \in Replicas
  PROVE  /\ Server(r)!allow \in Server(r)!Responses
         /\ Server(r)!allowWithoutClaims \in Server(r)!Responses
         /\ \A reason \in Server(r)!Reasons : Server(r)!deny(reason) \in Server(r)!Responses
         /\ \A id \in Ids \cup {""} : Server(r)!allowWithModelRewrite(id) \in Server(r)!Responses
  BY DEF Server!allow, Server!allowWithoutClaims, Server!deny, Server!allowWithModelRewrite,
         Server!Responses, Server!Reasons

\* Those that do not allow anything.
LEMMA Refusals ==
  ASSUME NEW r \in Replicas
  PROVE  /\ Server(r)!allowWithoutClaims.result # "allowed"
         /\ \A reason \in Server(r)!Reasons : Server(r)!deny(reason).result # "allowed"
  BY DEF Server!allowWithoutClaims, Server!deny

\* A step of a handler gives an answer or goes on, or returns.
LEMMA StepLocals ==
  ASSUME HInv, NEW q \in Replicas, LocalsOK(q), NEW h \in Handlers, Server(q)!Step(h)
  PROVE  /\ LocalsOK(q)'
         /\ \A g \in Handlers \ {h} :
              /\ pc'[g] = pc[g] /\ request'[g] = request[g] /\ response'[g] = response[g]
              /\ user'[g] = user[g] /\ model'[g] = model[g] /\ adapters'[g] = adapters[g]
         /\ pc'[h] = "idle" \/ (pc'[h] # "idle" /\ pc[h] # "idle" /\ request'[h] = request[h])
<1> USE DEF LocalsOK, Server!Respond, Server!Goto
<1>0. /\ store[q]["User"] \in [Ids -> Users \cup {None}]
      /\ store[q]["Model"] \in [Ids -> Models \cup {None}]
  BY StoreTypes
<1>1. CASE Server(q)!Parse(h)
  <2>1. /\ \/ \E rsp \in Server(q)!Responses : response' = [response EXCEPT ![h] = rsp]
           \/ UNCHANGED response
        /\ pc[h] = "parse"
        /\ \E l \in Labels \ {"idle"} : pc' = [pc EXCEPT ![h] = l]
        /\ UNCHANGED <<request, user, model, adapters>>
    BY <1>1, Answers DEF Server!Parse, Server!Reasons, Labels
  <2> QED BY <2>1
<1>2. CASE Server(q)!CheckUserExists(h)
  <2>1. /\ \/ \E rsp \in Server(q)!Responses : response' = [response EXCEPT ![h] = rsp]
           \/ UNCHANGED response
        /\ pc[h] = "userExists"
        /\ \E l \in Labels \ {"idle"} : pc' = [pc EXCEPT ![h] = l]
        /\ UNCHANGED <<request, user, model, adapters>>
    BY <1>2, Answers DEF Server!CheckUserExists, Server!Reasons, Labels
  <2> QED BY <2>1
<1>3. CASE Server(q)!LookUpUser(h)
  <2>1. /\ \/ \E rsp \in Server(q)!Responses : response' = [response EXCEPT ![h] = rsp]
           \/ UNCHANGED response
        /\ pc[h] = "getUser"
        /\ \E l \in Labels \ {"idle"} : pc' = [pc EXCEPT ![h] = l]
        /\ \E u \in Users \cup {None} : user' = [user EXCEPT ![h] = u]
        /\ UNCHANGED <<request, model, adapters>>
    <3>1. Server(q)!GetUser(store[q]["User"], Server(q)!UserID(request[h])) \in Users \cup {None}
      BY <1>0 DEF Server!GetUser, Server!UserExists
    <3> QED BY <1>3, <3>1, Answers DEF Server!LookUpUser, Server!Reasons, Labels
  <2> QED BY <2>1
<1>4. CASE Server(q)!LookUpModel(h)
  <2>1. /\ \/ \E rsp \in Server(q)!Responses : response' = [response EXCEPT ![h] = rsp]
           \/ UNCHANGED response
        /\ pc[h] = "getModel"
        /\ \E l \in Labels \ {"idle"} : pc' = [pc EXCEPT ![h] = l]
        /\ \E m \in Models \cup {None} : model' = [model EXCEPT ![h] = m]
        /\ UNCHANGED <<request, user, adapters>>
    <3>1. Server(q)!GetModel(store[q]["Model"], Server(q)!IR(request[h]).ModelID)
            \in Models \cup {None}
      BY <1>0 DEF Server!GetModel
    <3> QED BY <1>4, <3>1, Answers DEF Server!LookUpModel, Server!Reasons, Labels
  <2> QED BY <2>1
<1>5. CASE Server(q)!EvaluatePolicy(h) \/ Server(q)!PolicyError(h)
  <2>1. /\ \/ \E rsp \in Server(q)!Responses : response' = [response EXCEPT ![h] = rsp]
           \/ UNCHANGED response
        /\ pc[h] = "checkAccess"
        /\ \E l \in Labels \ {"idle"} : pc' = [pc EXCEPT ![h] = l]
        /\ UNCHANGED <<request, user, model, adapters>>
    BY <1>5, Answers DEF Server!EvaluatePolicy, Server!PolicyError, Server!Reasons, Labels
  <2> QED BY <2>1
<1>6. CASE Server(q)!ListLoras(h) \/ Server(q)!AllowedModelsError(h)
  <2> DEFINE id == Server(q)!IR(request[h]).ModelID
             toSend == Server(q)!PickCandidates(
                         Server(q)!GetAllowedModels(user[h],
                           Server(q)!Candidates(store[q]["Model"], id)), id)
  <2>1. toSend \in SUBSET Models
    <3>1. Server(q)!Candidates(store[q]["Model"], id) \subseteq Models
      BY <1>0 DEF Server!Candidates, Server!ListModelsByType
    <3> QED BY <3>1 DEF Server!PickCandidates, Server!GetAllowedModels
  <2> HIDE DEF toSend
  <2>2. /\ \/ \E rsp \in Server(q)!Responses : response' = [response EXCEPT ![h] = rsp]
           \/ UNCHANGED response
        /\ pc[h] = "listLoras"
        /\ \E l \in Labels \ {"idle"} : pc' = [pc EXCEPT ![h] = l]
        /\ adapters' = [adapters EXCEPT ![h] = toSend] \/ UNCHANGED adapters
        /\ UNCHANGED <<request, user, model>>
    BY <1>6, Answers DEF Server!ListLoras, Server!AllowedModelsError, Labels, toSend
  <2> QED BY <2>1, <2>2
<1>7. CASE \E answer \in Server(q)!SidecarAnswers : Server(q)!Pick(h, answer)
  <2>1. PICK answer \in Server(q)!SidecarAnswers : Server(q)!Pick(h, answer)
    BY <1>7
  <2>2. Server(q)!PickMatches(adapters[h], answer) => answer.ModelID \in Ids \cup {""}
    BY DEF Server!SidecarAnswers, Server!PickMatches
  <2>3. /\ \E rsp \in Server(q)!Responses : response' = [response EXCEPT ![h] = rsp]
        /\ pc[h] = "pick"
        /\ pc' = [pc EXCEPT ![h] = "done"]
        /\ UNCHANGED <<request, user, model, adapters>>
    BY <2>1, <2>2, Answers DEF Server!Pick
  <2> QED BY <2>3 DEF Labels
<1>8. CASE Server(q)!Return(h)
  BY <1>8 DEF Server!Return, Labels
<1> QED BY <1>1, <1>2, <1>3, <1>4, <1>5, <1>6, <1>7, <1>8 DEF Server!Step

\* The servers' types.
LEMMA ServerTypes ==
  ASSUME HInv, NEW r \in Replicas, LocalsOK(r)
  PROVE  Server(r)!TypeOK
  BY StoreTypes DEF LocalsOK, Server!TypeOK, Server!PCs, Labels, Users, Models

-----------------------------------------------------------------------------
(* Revoked objects: the inductive invariant behind RevokedIsRefused *)

\* The history only names kinds, and only those of which there is still no
\* object.  A call without its User gets no further than UserExists, one
\* without its Model no further than GetModel.
GoneTypes == gone \in [Handlers -> SUBSET Kinds]
GoneOK(h) ==
  /\ pc[h] # "idle" => gone[h] \subseteq Missing(h, request[h])
  /\ "User" \in gone[h] => pc[h] \in {"idle", "parse", "userExists", "done"}
  /\ "Model" \in gone[h] => pc[h] \notin {"checkAccess", "listLoras", "pick"}
  /\ pc[h] = "done" /\ gone[h] # {} => response[h].result # "allowed"

\* What the history of a call may say.
LEMMA MissingKinds ==
  ASSUME NEW h \in Handlers, NEW rq
  PROVE  /\ Missing(h, rq) \subseteq Kinds
         /\ "User" \in Missing(h, rq) <=> ~HasObject("User", Server(Host[h])!UserID(rq))
         /\ "Model" \in Missing(h, rq) =>
              /\ Server(Host[h])!IR(rq).Type # Server(Host[h])!RequestTypeListModels
              /\ ~HasObject("Model", Server(Host[h])!IR(rq).ModelID)
  BY DEF Missing, Kinds

\* There is an object for every entry.
LEMMA EntryHasObject ==
  ASSUME EInv, NEW r \in Replicas, NEW k \in Kinds, NEW i \in Ids, store[r][k][i] # None
  PROVE  HasObject(k, i)
  BY EntriesMeaning DEF EntriesHaveFinalizer, HasObject

\* UserExists and GetModel only find what there is an object for.
LEMMA FoundHasObject ==
  ASSUME EInv, NEW r \in Replicas, NEW id
  PROVE  /\ Server(r)!UserExists(store[r]["User"], id) => HasObject("User", id)
         /\ Server(r)!GetModel(store[r]["Model"], id) # None => HasObject("Model", id)
<1>1. HInv
  BY DEF EInv
<1>2. DOMAIN store[r]["User"] = Ids /\ DOMAIN store[r]["Model"] = Ids
  BY <1>1, StoreTypes
<1>3. "User" \in Kinds /\ "Model" \in Kinds
  BY DEF Kinds
<1>4. Server(r)!UserExists(store[r]["User"], id) => HasObject("User", id)
  BY <1>2, <1>3, EntryHasObject DEF Server!UserExists
<1>5. Server(r)!GetModel(store[r]["Model"], id) # None => HasObject("Model", id)
  BY <1>2, <1>3, EntryHasObject DEF Server!GetModel
<1> QED BY <1>4, <1>5

\* A step of Check, for the handler that takes it.
LEMMA CheckKeeps ==
  ASSUME EInv, NEW h \in Handlers, NEW q \in Replicas, q = Host[h], LocalsOK(q), GoneTypes,
         GoneOK(h), CheckStep(h)
  PROVE  GoneOK(h)'
<1>0. /\ HInv /\ Server(q)!Step(h) /\ UNCHANGED vars
      /\ gone' = [gone EXCEPT ![h] = IF request'[h] = None THEN {} ELSE @]
  BY DEF EInv, CheckStep
<1>1. gone'[h] = {} \/ gone'[h] = gone[h]
  BY <1>0 DEF GoneTypes
<1>2. pc'[h] = "idle" \/ (pc'[h] # "idle" /\ pc[h] # "idle" /\ request'[h] = request[h])
  BY <1>0, StepLocals
<1>3. CASE gone'[h] = {} \/ pc'[h] = "idle"
  BY <1>3 DEF GoneOK
<1>4. CASE gone'[h] = gone[h] /\ gone[h] # {} /\ pc'[h] # "idle"
  <2>1. /\ pc[h] # "idle" /\ request'[h] = request[h]
        /\ gone[h] \subseteq Missing(h, request[h]) /\ gone[h] \subseteq Kinds
    BY <1>2, <1>4 DEF GoneOK, GoneTypes
  <2>2. gone'[h] \subseteq Missing(h, request[h])'
    BY <1>0, <1>4, <2>1 DEF Missing, HasObject, vars
  <2> DEFINE rq == request[h]
  <2>3. /\ "User" \in gone[h] => ~Server(q)!UserExists(store[q]["User"], Server(q)!UserID(rq))
        /\ "Model" \in gone[h] =>
             /\ Server(q)!IR(rq).Type # Server(q)!RequestTypeListModels
             /\ Server(q)!GetModel(store[q]["Model"], Server(q)!IR(rq).ModelID) = None
    BY <2>1, MissingKinds, FoundHasObject
  <2>4. "User" \in gone[h] \/ "Model" \in gone[h]
    BY <1>4, <2>1 DEF Kinds
  <2>5. /\ "User" \in gone[h] => pc[h] \in {"idle", "parse", "userExists", "done"}
        /\ "Model" \in gone[h] => pc[h] \notin {"checkAccess", "listLoras", "pick"}
    BY DEF GoneOK
  <2>6. CASE Server(q)!Parse(h)
    <3>1. \/ pc'[h] = "userExists"
          \/ /\ pc'[h] = "done"
             /\ \/ response'[h] = Server(q)!allowWithoutClaims
                \/ \E reason \in Server(q)!Reasons : response'[h] = Server(q)!deny(reason)
      BY <2>6 DEF Server!Parse, Server!Respond, Server!Goto, Server!Reasons, LocalsOK
    <3> QED BY <2>2, <3>1, Refusals DEF GoneOK
  <2>7. CASE Server(q)!CheckUserExists(h)
    <3>1. \/ pc'[h] = "getUser" /\ "User" \notin gone[h]
          \/ /\ pc'[h] = "done"
             /\ \E reason \in Server(q)!Reasons : response'[h] = Server(q)!deny(reason)
      BY <2>3, <2>4, <2>7
      DEF Server!CheckUserExists, Server!Respond, Server!Goto, Server!Reasons, LocalsOK
    <3> QED BY <1>4, <2>2, <3>1, Refusals DEF GoneOK
  <2>8. CASE Server(q)!LookUpUser(h)
    <3>1. /\ pc[h] = "getUser"
          /\ \/ pc'[h] = "getModel"
             \/ /\ pc'[h] = "done"
                /\ \E reason \in Server(q)!Reasons : response'[h] = Server(q)!deny(reason)
      BY <2>8 DEF Server!LookUpUser, Server!Respond, Server!Goto, Server!Reasons, LocalsOK
    <3> QED BY <1>4, <2>2, <2>5, <3>1, Refusals DEF GoneOK
  <2>9. CASE Server(q)!LookUpModel(h)
    <3>1. /\ pc[h] = "getModel"
          /\ \/ pc'[h] = "checkAccess" /\ "Model" \notin gone[h]
             \/ /\ pc'[h] = "done"
                /\ \E reason \in Server(q)!Reasons : response'[h] = Server(q)!deny(reason)
      BY <2>3, <2>9 DEF Server!LookUpModel, Server!Respond, Server!Goto, Server!Reasons, LocalsOK
    <3> QED BY <1>4, <2>2, <2>5, <3>1, Refusals DEF GoneOK
  <2>10. pc[h] \notin {"checkAccess", "listLoras", "pick", "done"}
    <3>1. CASE pc[h] = "done"
      <4>1. Server(q)!Return(h)
        BY <1>0, <3>1
        DEF Server!Step, Server!Parse, Server!CheckUserExists, Server!LookUpUser,
            Server!LookUpModel, Server!EvaluatePolicy, Server!PolicyError,
            Server!ListLoras, Server!AllowedModelsError, Server!Pick
      <4> QED BY <1>4, <4>1 DEF Server!Return, Server!Goto, LocalsOK
    <3> QED BY <2>4, <2>5, <3>1
  <2> QED BY <1>0, <2>6, <2>7, <2>8, <2>9, <2>10
          DEF Server!Step, Server!EvaluatePolicy, Server!PolicyError, Server!ListLoras,
              Server!AllowedModelsError, Server!Pick, Server!Return
<1> QED BY <1>1, <1>3, <1>4

-----------------------------------------------------------------------------
(* The steps of the whole system *)

\* The locals of every server, and the history, keep their types.
LocalsInv == GoneTypes /\ \A r \in Replicas : LocalsOK(r)

\* Every handler runs on a replica.
LEMMA HostIn == \A h \in Handlers : Host[h] \in Replicas
  BY HostAssumption

\* The locals after a step of the controllers: as before, or lost.
LEMMA ControllerLocals ==
  ASSUME LocalsInv, ControllerStep
  PROVE  LocalsInv'
<1>1. ASSUME NEW r \in Replicas PROVE LocalsOK(r)'
  <2>1. LocalsOK(r)
    BY DEF LocalsInv
  <2>2. "idle" \in Labels
    BY DEF Labels
  <2> QED BY <2>1, <2>2 DEF ControllerStep, Lost, LocalsOK, Server!Responses, Server!Reasons
<1>2. GoneTypes'
  <2>1. /\ gone' = [h \in Handlers |-> IF request'[h] = None THEN {}
                                       ELSE gone[h] \cap Missing(h, request[h])']
        /\ gone \in [Handlers -> SUBSET Kinds]
    BY DEF ControllerStep, LocalsInv, GoneTypes
  <2> QED BY <2>1 DEF GoneTypes
<1> QED BY <1>1, <1>2 DEF LocalsInv

\* The locals after the arrival of a call.
LEMMA ArriveLocals ==
  ASSUME LocalsInv, NEW h \in Handlers, NEW rq \in CheckRequests, Arrive(h, rq)
  PROVE  LocalsInv'
<1>1. ASSUME NEW r \in Replicas PROVE LocalsOK(r)'
  <2>1. LocalsOK(r)
    BY DEF LocalsInv
  <2>2. "parse" \in Labels
    BY DEF Labels
  <2> QED BY <2>1, <2>2
          DEF Arrive, Server!Receive, Server!Goto, LocalsOK, Server!Responses, Server!Reasons
<1>2. GoneTypes'
  BY MissingKinds DEF Arrive, LocalsInv, GoneTypes
<1> QED BY <1>1, <1>2 DEF LocalsInv

\* The locals after a step of Check.
LEMMA CheckLocals ==
  ASSUME HInv, LocalsInv, NEW h \in Handlers, CheckStep(h)
  PROVE  LocalsInv'
<1>1. PICK q \in Replicas : q = Host[h]
  BY HostIn
<1>2. LocalsOK(q)'
  BY <1>1, StepLocals DEF LocalsInv, CheckStep
<1>3. ASSUME NEW r \in Replicas PROVE LocalsOK(r)'
  BY <1>2 DEF LocalsOK, Server!Responses, Server!Reasons
<1>4. GoneTypes'
  BY DEF CheckStep, LocalsInv, GoneTypes
<1> QED BY <1>3, <1>4 DEF LocalsInv

\* Every step of the system keeps the types.
LEMMA LocalsKeep == HInv /\ LocalsInv /\ [SNext]_sysVars => LocalsInv'
<1>1. ASSUME LocalsInv, UNCHANGED sysVars PROVE LocalsInv'
  BY <1>1
  DEF sysVars, handlerVars, LocalsInv, GoneTypes, LocalsOK, Server!Responses, Server!Reasons
<1> QED BY <1>1, ControllerLocals, ArriveLocals, CheckLocals DEF SNext

\* Initially there are no calls.
LEMMA LocalsInit == SInit => LocalsInv
<1> SUFFICES ASSUME SInit PROVE LocalsInv
  OBVIOUS
<1>1. ASSUME NEW r \in Replicas PROVE LocalsOK(r)
  <2>1. Server(r)!Init
    BY DEF SInit
  <2> QED BY <2>1 DEF Server!Init, LocalsOK, Labels
<1>2. GoneTypes
  BY DEF SInit, GoneTypes
<1> QED BY <1>1, <1>2 DEF LocalsInv

\* The types at every moment.
LEMMA LocalsHere == SSpec => []LocalsInv
  BY LocalsInit, LocalsKeep, HoldersHere, PTL DEF SSpec

\* The controllers' state, every server's and the history keep their types:
\* for any replicas, objects, calls, edits and faults, and although a store
\* is written by workers that know no more of an object than that some
\* version of it was once listed or watched.
THEOREM SystemTypeCorrect == SSpec => []STypeOK
<1>1. HInv /\ LocalsInv => STypeOK
  BY ServerTypes DEF STypeOK, LocalsInv, GoneTypes, HInv, VInv
<1> QED BY <1>1, HoldersHere, LocalsHere, PTL

-----------------------------------------------------------------------------
(* Revocation *)

GoneInv == EInv /\ LocalsInv /\ \A h \in Handlers : GoneOK(h)

\* A handler that takes no step, while the controllers take none.
LEMMA OtherHandlers ==
  ASSUME NEW h \in Handlers, GoneOK(h), UNCHANGED vars,
         pc'[h] = pc[h], request'[h] = request[h], response'[h] = response[h],
         gone'[h] = gone[h]
  PROVE  GoneOK(h)'
<1>1. Missing(h, request[h])' = Missing(h, request[h])
  BY DEF Missing, HasObject, vars
<1> QED BY <1>1 DEF GoneOK

\* A step of the controllers may create an object, which shortens the history.
LEMMA ControllerGone ==
  ASSUME LocalsInv, NEW h \in Handlers, GoneOK(h), ControllerStep
  PROVE  GoneOK(h)'
<1>1. /\ pc' = Lost(pc, "idle") /\ request' = Lost(request, None)
      /\ response' = Lost(response, None)
      /\ gone'[h] = IF request'[h] = None THEN {}
                    ELSE gone[h] \cap Missing(h, request[h])'
  BY DEF ControllerStep
<1>2. CASE Host[h] \in up \ up'
  <2>1. pc'[h] = "idle" /\ request'[h] = None
    BY <1>1, <1>2 DEF Lost
  <2> QED BY <1>1, <2>1 DEF GoneOK
<1>3. CASE Host[h] \notin up \ up'
  <2>1. pc'[h] = pc[h] /\ response'[h] = response[h]
    BY <1>1, <1>3 DEF Lost
  <2>2. gone'[h] \subseteq gone[h] /\ gone'[h] \subseteq Missing(h, request[h])'
    BY <1>1
  <2> QED BY <2>1, <2>2 DEF GoneOK
<1> QED BY <1>2, <1>3

\* A call starts with nothing found.
LEMMA ArriveGone ==
  ASSUME LocalsInv, NEW h \in Handlers, NEW rq \in CheckRequests, Arrive(h, rq),
         NEW g \in Handlers, GoneOK(g)
  PROVE  GoneOK(g)'
<1>1. PICK q \in Replicas : q = Host[h]
  BY HostIn
<1>2. /\ UNCHANGED <<vars, response>> /\ pc' = [pc EXCEPT ![h] = "parse"]
      /\ request' = [request EXCEPT ![h] = rq] /\ gone' = [gone EXCEPT ![h] = Missing(h, rq)]
  BY DEF Arrive, Server!Receive, Server!Goto
<1>3. /\ pc \in [Handlers -> Labels] /\ request \in [Handlers -> CheckRequests \cup {None}]
      /\ gone \in [Handlers -> SUBSET Kinds]
  BY <1>1 DEF LocalsInv, LocalsOK, GoneTypes
<1>4. CASE g = h
  <2>1. pc'[h] = "parse" /\ request'[h] = rq /\ gone'[h] = Missing(h, rq)
    BY <1>2, <1>3
  <2>2. Missing(h, request[h])' = Missing(h, rq)
    BY <1>2, <2>1 DEF Missing, HasObject, vars
  <2> QED BY <1>4, <2>1, <2>2 DEF GoneOK
<1>5. CASE g # h
  <2>1. pc'[g] = pc[g] /\ request'[g] = request[g] /\ gone'[g] = gone[g]
    BY <1>2, <1>3, <1>5
  <2> QED BY <1>2, <2>1, OtherHandlers
<1> QED BY <1>4, <1>5

\* A step of Check, for every handler.
LEMMA CheckGone ==
  ASSUME EInv, LocalsInv, NEW h \in Handlers, CheckStep(h), NEW g \in Handlers, GoneOK(g)
  PROVE  GoneOK(g)'
<1>1. PICK q \in Replicas : q = Host[h]
  BY HostIn
<1>2. HInv /\ LocalsOK(q) /\ GoneTypes /\ Server(q)!Step(h) /\ UNCHANGED vars
  BY <1>1 DEF EInv, LocalsInv, CheckStep
<1>3. CASE g = h
  BY <1>1, <1>2, <1>3, CheckKeeps
<1>4. CASE g # h
  <2>1. pc'[g] = pc[g] /\ request'[g] = request[g] /\ response'[g] = response[g]
    BY <1>2, <1>4, StepLocals
  <2>2. gone'[g] = gone[g]
    BY <1>2, <1>4 DEF CheckStep, GoneTypes
  <2> QED BY <1>2, <2>1, <2>2, OtherHandlers
<1> QED BY <1>3, <1>4

\* Every step of the system keeps it.
LEMMA GoneKeeps ==
  ASSUME StableIds, OneActive
  PROVE  GoneInv /\ [SNext]_sysVars => GoneInv'
<1> SUFFICES ASSUME GoneInv, [SNext]_sysVars PROVE GoneInv'
  OBVIOUS
<1>1. EInv' /\ LocalsInv'
  BY ControllersStep, EntriesKeep, LocalsKeep DEF GoneInv, EInv
<1>2. ASSUME NEW g \in Handlers PROVE GoneOK(g)'
  <2>1. EInv /\ LocalsInv /\ GoneOK(g)
    BY DEF GoneInv
  <2>2. CASE UNCHANGED sysVars
    BY <2>1, <2>2, OtherHandlers DEF sysVars, handlerVars
  <2> QED BY <2>1, <2>2, ControllerGone, ArriveGone, CheckGone DEF SNext
<1> QED BY <1>1, <1>2 DEF GoneInv

\* When updates keep ids and one replica at a time runs controllers, a call
\* that arrives after the caller's User object, or the object of the model it
\* asks for, has gone from the API server is not allowed by any replica: for
\* any number of replicas, failovers, calls, edits and faults, and however
\* late the watch events are.
THEOREM RevokedCallsRefused ==
  ASSUME StableIds, OneActive
  PROVE  SSpec => []RevokedIsRefused
<1>1. SInit => GoneInv
  <2>1. SInit => \A h \in Handlers : GoneOK(h)
    BY HostIn DEF SInit, Server!Init, GoneOK
  <2> QED BY <2>1, EntriesInit, LocalsInit DEF GoneInv, SInit
<1>2. GoneInv => RevokedIsRefused
  BY DEF GoneInv, GoneOK, RevokedIsRefused
<1> QED BY <1>1, <1>2, GoneKeeps, PTL DEF SSpec

-----------------------------------------------------------------------------
(* Every server is an ExtAuthz server *)

\* A controller's change of a store is one of the writes ExtAuthz expects.
LEMMA ControllersWrite ==
  ASSUME HInv, NEW r \in Replicas, NEW k \in Kinds, DeleteFromStore(r, k) \/ Sync(r, k),
         UNCHANGED handlerVars
  PROVE  /\ Server(r)!StoreWrite \/ store'[r] = store[r]
         /\ \A q \in Replicas \ {r} : store'[q] = store[q]
         /\ UNCHANGED up
<1>1. PICK w : w = worker[r][k]
  OBVIOUS
<1>2. /\ TypeOK /\ JobOK(r, k)
      /\ store \in [Replicas -> [Kinds -> [Ids -> Specs \cup {None}]]]
  BY DEF HInv, VInv, VersionsOK, TypeOK
<1>3. Kinds = {"User", "Model"}
  BY DEF Kinds
<1>4. /\ UNCHANGED up /\ w \in Jobs
      /\ store' \in [Replicas -> [Kinds -> [Ids -> Specs \cup {None}]]]
      /\ \A q \in Replicas, l \in Kinds : q # r \/ l # k => store'[q][l] = store[q][l]
  BY <1>1, <1>2, DeleteFromStoreEffect, SyncEffect DEF processVars
<1>5. \A q \in Replicas \ {r} : store'[q] = store[q]
  <2> TAKE q \in Replicas \ {r}
  <2>1. store'[q] \in [Kinds -> [Ids -> Specs \cup {None}]]
    BY <1>4
  <2>2. store[q] \in [Kinds -> [Ids -> Specs \cup {None}]]
    BY <1>2
  <2> QED BY <1>4, <2>1, <2>2
<1>6. CASE DeleteFromStore(r, k)
  <2>1. store'[r][k] = DeleteSpec(k, store[r][k], w.obj.spec.id)
    BY <1>1, <1>2, <1>6 DEF DeleteFromStore
  <2>2. CASE w.obj.spec.id \in Ids
    <3>1. CASE k = "User"
      <4>1. /\ store'[r]["User"] = Server(r)!DeleteUser(store[r]["User"], w.obj.spec.id)
            /\ store'[r]["Model"] = store[r]["Model"]
        BY <1>3, <1>4, <2>1, <3>1 DEF DeleteSpec, DeleteUser, Server!DeleteUser
      <4> QED BY <1>4, <1>5, <2>2, <4>1 DEF Server!StoreWrite, Server!handlerVars, handlerVars
    <3>2. CASE k = "Model"
      <4>1. /\ store'[r]["Model"] = Server(r)!DeleteModel(store[r]["Model"], w.obj.spec.id)
            /\ store'[r]["User"] = store[r]["User"]
        BY <1>3, <1>4, <2>1, <3>2 DEF DeleteSpec, DeleteModel, Server!DeleteModel
      <4> QED BY <1>4, <1>5, <2>2, <4>1 DEF Server!StoreWrite, Server!handlerVars, handlerVars
    <3> QED BY <1>3, <3>1, <3>2
  <2>3. CASE w.obj.spec.id \notin Ids
    <3>1. store'[r][k] = store[r][k]
      BY <1>2, <2>1, <2>3 DEF DeleteSpec, DeleteUser, DeleteModel
    <3>2. store'[r] = store[r]
      BY <1>2, <1>4, <3>1
    <3> QED BY <1>4, <1>5, <3>2
  <2> QED BY <1>4, <1>5, <2>2, <2>3
<1>7. CASE Sync(r, k)
  <2>1. store'[r][k] = SyncSpec(k, store[r][k], w.obj.spec)
    BY <1>1, <1>2, <1>7 DEF Sync
  <2>2. CASE ValidId(w.obj.spec)
    <3>1. /\ KindOf[w.name] = k /\ w.obj.spec \in SpecsOf[w.name] /\ w.name \in Names
      <4>1. w # Idle /\ w.name \in Names
        BY <1>4, JobFields
      <4> QED BY <1>1, <1>2, <4>1 DEF JobOK
    <3>2. w.obj.spec \in SpecsOfKind(k)
      <4>1. w.name \in {m \in Names : KindOf[m] = k}
        BY <3>1
      <4>2. w.obj.spec \in UNION {SpecsOf[m] : m \in {j \in Names : KindOf[j] = k}}
        BY <3>1, <4>1
      <4> QED BY <2>2, <4>2 DEF SpecsOfKind
    <3> QED BY <1>3, <1>4, <1>5, <2>1, <3>2
            DEF SyncSpec, Server!StoreWrite, Server!handlerVars, handlerVars,
                SyncUser, SyncModel, Server!SyncUser, Server!SyncModel, ValidId, Server!ValidId
  <2>3. CASE ~ValidId(w.obj.spec)
    <3>1. store'[r][k] = store[r][k]
      BY <1>2, <2>1, <2>3 DEF SyncSpec, SyncUser, SyncModel
    <3>2. store'[r] = store[r]
      BY <1>2, <1>4, <3>1
    <3> QED BY <1>4, <1>5, <3>2
  <2> QED BY <2>2, <2>3
<1> QED BY <1>6, <1>7

\* What makes a server's part of the state the same.
LEMMA SameHosted ==
  ASSUME NEW r \in Replicas, store'[r] = store[r],
         \A h \in Handlers : Host[h] = r =>
           /\ pc'[h] = pc[h] /\ request'[h] = request[h] /\ response'[h] = response[h]
           /\ user'[h] = user[h] /\ model'[h] = model[h] /\ adapters'[h] = adapters[h]
  PROVE  UNCHANGED Hosted(r)
  BY DEF Hosted

\* A controllers' step, seen from a server that lives on.
LEMMA ControllerSeen ==
  ASSUME HInv, LocalsInv, ControllerStep, NEW r \in Replicas, r \notin up \ up'
  PROVE  Server(r)!Next \/ UNCHANGED Hosted(r)
<1>1. \A h \in Handlers : Host[h] = r =>
        /\ pc'[h] = pc[h] /\ request'[h] = request[h] /\ response'[h] = response[h]
        /\ user'[h] = user[h] /\ model'[h] = model[h] /\ adapters'[h] = adapters[h]
  BY DEF ControllerStep, Lost
<1>2. Next /\ TypeOK
  BY DEF ControllerStep, HInv, VInv
<1>3. CASE \E q \in Replicas, k \in Kinds : DeleteFromStore(q, k) \/ Sync(q, k)
  <2>1. PICK q \in Replicas, k \in Kinds : DeleteFromStore(q, k) \/ Sync(q, k)
    BY <1>3
  <2>2. UNCHANGED up
    BY <2>1 DEF DeleteFromStore, Sync, processVars
  <2>3. UNCHANGED handlerVars
    <3>1. LocalsOK(r)
      BY DEF LocalsInv
    <3> QED BY <2>2, <3>1 DEF ControllerStep, Lost, LocalsOK, handlerVars
  <2>4. /\ Server(q)!StoreWrite \/ store'[q] = store[q]
        /\ \A p \in Replicas \ {q} : store'[p] = store[p]
    BY <2>1, <2>3, ControllersWrite
  <2>5. CASE store'[r] = store[r]
    BY <1>1, <2>5, SameHosted
  <2>6. CASE store'[r] # store[r]
    <3>1. r = q
      BY <2>4, <2>6
    <3> QED BY <2>4, <2>6, <3>1 DEF Server!Next
  <2> QED BY <2>5, <2>6
<1>4. CASE ~\E q \in Replicas, k \in Kinds : DeleteFromStore(q, k) \/ Sync(q, k)
  <2>1. store'[r] = store[r]
    <3>1. CASE \E q \in Replicas : Crash(q)
      <4>1. PICK q \in Replicas : Crash(q)
        BY <3>1
      <4>2. q # r
        BY <4>1 DEF Crash
      <4> QED BY <1>2, <4>1, <4>2, CrashEffect
    <3>2. CASE \E q \in Replicas : Start(q) \/ Acquire(q)
      BY <3>2 DEF Start, Acquire, storeVars
    <3>3. CASE \E q \in Replicas, k \in Kinds : StartController(q, k)
      BY <3>3 DEF StartController, storeVars
    <3> QED BY <1>2, <1>4, <3>1, <3>2, <3>3, QuietSteps
  <2> QED BY <1>1, <2>1, SameHosted
<1> QED BY <1>3, <1>4

\* A step of a call, seen from any server.
LEMMA CallSeen ==
  ASSUME HInv, LocalsInv, NEW h \in Handlers,
         (\E rq \in CheckRequests : Arrive(h, rq)) \/ CheckStep(h), NEW r \in Replicas
  PROVE  Server(r)!Next \/ UNCHANGED Hosted(r)
<1>1. PICK q \in Replicas : q = Host[h]
  BY HostIn
<1>2. LocalsOK(q) /\ UNCHANGED vars
  BY <1>1 DEF LocalsInv, Arrive, CheckStep
<1>3. (\E rq \in CheckRequests : Server(q)!Receive(h, rq)) \/ Server(q)!Step(h)
  BY <1>1 DEF Arrive, CheckStep
<1>4. CASE r = q
  BY <1>3, <1>4 DEF Server!Next
<1>5. CASE r # q
  <2>1. \A g \in Handlers \ {h} :
          /\ pc'[g] = pc[g] /\ request'[g] = request[g] /\ response'[g] = response[g]
          /\ user'[g] = user[g] /\ model'[g] = model[g] /\ adapters'[g] = adapters[g]
    <3>1. CASE \E rq \in CheckRequests : Server(q)!Receive(h, rq)
      BY <1>2, <3>1 DEF LocalsOK, Server!Receive, Server!Goto
    <3>2. CASE Server(q)!Step(h)
      BY <1>2, <3>2, StepLocals
    <3> QED BY <1>3, <3>1, <3>2
  <2>2. store'[r] = store[r]
    BY <1>2 DEF vars, storeVars
  <2> QED BY <1>1, <1>5, <2>1, <2>2, SameHosted
<1> QED BY <1>4, <1>5

\* As long as its process lives, every step that touches a replica's store or
\* calls is a step of module ExtAuthz, with or without leader election, for
\* any replicas, renames, edits and faults: the writes that ExtAuthz's own
\* theorems allow for are all that Reconcile makes.
THEOREM ServersImplementExtAuthz == SSpec => ServersAreExtAuthz
<1>1. HInv /\ LocalsInv /\ [SNext]_sysVars =>
        [\A r \in Replicas :
           r \notin up \ up' => Server(r)!Next \/ UNCHANGED Hosted(r)]_sysVars
  BY ControllerSeen, CallSeen DEF SNext
<1> QED BY <1>1, HoldersHere, LocalsHere, PTL DEF SSpec, ServersAreExtAuthz

=============================================================================
