--------------------------- MODULE ExtAuthzProofs ---------------------------
(***************************************************************************)
(* Proofs about the ext-auth server, for any number of concurrent calls    *)
(* and any users, models, requests and configuration.                      *)
(***************************************************************************)
EXTENDS ExtAuthzWindow, TLAPS

-----------------------------------------------------------------------------
(* The store *)

\* SyncUser and DeleteUser keep the users a map from ids to specs, in which
\* every spec is found under its own id (memory.go: s.users[user.Id]).
LEMMA UserWritesKeyed ==
  ASSUME NEW us \in [UserIds -> UserSpecs \cup {None}],
         \A i \in UserIds : us[i] # None => us[i].id = i
  PROVE  /\ \A u \in UserSpecs :
              /\ SyncUser(us, u) \in [UserIds -> UserSpecs \cup {None}]
              /\ \A i \in UserIds : SyncUser(us, u)[i] # None => SyncUser(us, u)[i].id = i
         /\ \A j \in UserIds :
              /\ DeleteUser(us, j) \in [UserIds -> UserSpecs \cup {None}]
              /\ \A i \in UserIds : DeleteUser(us, j)[i] # None => DeleteUser(us, j)[i].id = i
  BY SpecsAssumption DEF SyncUser, DeleteUser, ValidId, IsUserSpec

\* The same for the models (memory.go: s.models[model.Id]).
LEMMA ModelWritesKeyed ==
  ASSUME NEW ms \in [ModelIds -> ModelSpecs \cup {None}],
         \A i \in ModelIds : ms[i] # None => ms[i].id = i
  PROVE  /\ \A m \in ModelSpecs :
              /\ SyncModel(ms, m) \in [ModelIds -> ModelSpecs \cup {None}]
              /\ \A i \in ModelIds : SyncModel(ms, m)[i] # None => SyncModel(ms, m)[i].id = i
         /\ \A j \in ModelIds :
              /\ DeleteModel(ms, j) \in [ModelIds -> ModelSpecs \cup {None}]
              /\ \A i \in ModelIds : DeleteModel(ms, j)[i] # None => DeleteModel(ms, j)[i].id = i
  BY SpecsAssumption DEF SyncModel, DeleteModel, ValidId, IsModelSpec

\* Every spec in the store is found under its own id.
StoreKeyed ==
  /\ \A i \in UserIds : users[i] # None => users[i].id = i
  /\ \A i \in ModelIds : models[i] # None => models[i].id = i

-----------------------------------------------------------------------------
(* Adapter selection *)

\* The adapters sent to the sidecar are entries of the store, LoRAs of the
\* requested model, with descriptions, and the user has access to each of
\* them.  GetAllowedModels goes from specs to ids and back, so this needs
\* the store to be keyed by id (opa.go: allowedSet).
LEMMA SentAdaptersAllowed ==
  ASSUME NEW ms \in [ModelIds -> ModelSpecs \cup {None}],
         \A i \in ModelIds : ms[i] # None => ms[i].id = i,
         NEW u, NEW id,
         NEW a \in PickCandidates(GetAllowedModels(u, Candidates(ms, id)), id)
  PROVE  /\ a \in ModelSpecs
         /\ \E i \in ModelIds : a = ms[i] /\ ms[i] # None
         /\ a.type = ModelTypeLora
         /\ a.baseModelId = id
         /\ CheckAccess(u, a)
<1>1. /\ a.type = ModelTypeLora /\ a.baseModelId = id
      /\ a \in Candidates(ms, id)
      /\ a.id \in allowed_models(u, Candidates(ms, id))
  BY DEF PickCandidates, GetAllowedModels
<1>2. \A c \in Candidates(ms, id) : \E i \in ModelIds : c = ms[i] /\ ms[i] # None /\ c.id = i
  BY DEF Candidates, ListModelsByType
<1>3. PICK b \in Candidates(ms, id) : is_user_allowed_check(u, b) /\ b.id = a.id
  BY <1>1 DEF allowed_models
<1>4. b = a
  BY <1>1, <1>2, <1>3
<1> QED BY <1>1, <1>2, <1>3, <1>4 DEF CheckAccess

-----------------------------------------------------------------------------
(* Types *)

\* A store write keeps the types and the keys.
LEMMA StoreWriteTypes ==
  ASSUME TypeOK, StoreKeyed, StoreWrite
  PROVE  TypeOK' /\ StoreKeyed'
<1>1. /\ users \in [UserIds -> UserSpecs \cup {None}]
      /\ models \in [ModelIds -> ModelSpecs \cup {None}]
  BY DEF TypeOK
<1>2. /\ users' \in [UserIds -> UserSpecs \cup {None}]
      /\ \A i \in UserIds : users'[i] # None => users'[i].id = i
  <2>1. CASE users' = users
    BY <1>1, <2>1 DEF StoreKeyed
  <2>2. CASE users' # users
    <3>1. \/ \E u \in UserSpecs : users' = SyncUser(users, u)
          \/ \E i \in UserIds : users' = DeleteUser(users, i)
      BY <2>2 DEF StoreWrite
    <3> QED BY <1>1, <3>1, UserWritesKeyed DEF StoreKeyed
  <2> QED BY <2>1, <2>2
<1>3. /\ models' \in [ModelIds -> ModelSpecs \cup {None}]
      /\ \A i \in ModelIds : models'[i] # None => models'[i].id = i
  <2>1. CASE models' = models
    BY <1>1, <2>1 DEF StoreKeyed
  <2>2. CASE models' # models
    <3>1. \/ \E m \in ModelSpecs : models' = SyncModel(models, m)
          \/ \E i \in ModelIds : models' = DeleteModel(models, i)
      BY <2>2 DEF StoreWrite
    <3> QED BY <1>1, <3>1, ModelWritesKeyed DEF StoreKeyed
  <2> QED BY <2>1, <2>2
<1>4. UNCHANGED handlerVars
  BY DEF StoreWrite
<1> QED BY <1>2, <1>3, <1>4 DEF TypeOK, StoreKeyed, handlerVars

\* The responses Check builds.
LEMMA ResponseTypes ==
  /\ allow \in Responses
  /\ allowWithoutClaims \in Responses
  /\ \A reason \in Reasons : deny(reason) \in Responses
  /\ \A id \in ModelIds \cup {""} : allowWithModelRewrite(id) \in Responses
  BY SpecsAssumption
  DEF allow, allowWithoutClaims, deny, allowWithModelRewrite, Responses, Reasons

\* Their results.
LEMMA ResponseResults ==
  /\ allow.result = "allowed"
  /\ \A id \in ModelIds : allowWithModelRewrite(id).result = "allowed"
  /\ allowWithoutClaims.result = "not-applicable"
  /\ \A reason \in Reasons : deny(reason).result = "denied"
  BY DEF allow, allowWithModelRewrite, allowWithoutClaims, deny

\* What the steps of a handler leave alone: the store and other handlers.
LEMMA StepFrame ==
  ASSUME TypeOK, NEW h \in Handlers, Step(h)
  PROVE  /\ UNCHANGED storeVars
         /\ \A g \in Handlers \ {h} :
              /\ pc'[g] = pc[g] /\ request'[g] = request[g] /\ user'[g] = user[g]
              /\ model'[g] = model[g] /\ adapters'[g] = adapters[g]
              /\ response'[g] = response[g]
  BY DEF TypeOK, Step, Parse, CheckUserExists, LookUpUser, LookUpModel, EvaluatePolicy,
         PolicyError, ListLoras, AllowedModelsError, Pick, Return, Respond, Goto, storeVars

\* A step other than the return gives an answer or goes on.
LEMMA StepAnswers ==
  ASSUME TypeOK, NEW h \in Handlers, Step(h), ~Return(h)
  PROVE  /\ Pending(h) /\ UNCHANGED request
         /\ \/ \E rsp \in Responses : Respond(h, rsp)
            \/ /\ UNCHANGED response
               /\ \E l \in PCs \ {"idle", "done"} : Goto(h, l)
<1>1. CASE \E answer \in SidecarAnswers : Pick(h, answer)
  <2>1. PICK answer \in SidecarAnswers : Pick(h, answer)
    BY <1>1
  <2>2. PickMatches(adapters[h], answer) => answer.ModelID \in ModelIds \cup {""}
    BY DEF SidecarAnswers, PickMatches
  <2> QED BY <2>1, <2>2, ResponseTypes DEF Pick, Pending
<1>2. CASE ~\E answer \in SidecarAnswers : Pick(h, answer)
  <2>1. /\ Pending(h) /\ UNCHANGED request
        /\ \/ \E reason \in Reasons : Respond(h, deny(reason))
           \/ Respond(h, allow)
           \/ Respond(h, allowWithoutClaims)
           \/ /\ UNCHANGED response
              /\ \E l \in PCs \ {"idle", "done"} : Goto(h, l)
    BY <1>2
    DEF Step, Parse, CheckUserExists, LookUpUser, LookUpModel, EvaluatePolicy,
        PolicyError, ListLoras, AllowedModelsError, Pending, PCs, Reasons
  <2> QED BY <2>1, ResponseTypes
<1> QED BY <1>1, <1>2

\* A handler's step keeps the types.
LEMMA StepTypes ==
  ASSUME TypeOK, StoreKeyed, NEW h \in Handlers, Step(h)
  PROVE  TypeOK'
<1> USE DEF TypeOK, Respond, Goto, PCs, storeVars, Reasons
<1>1. CASE Parse(h)
  <2>1. /\ \/ \E rsp \in Responses : response' = [response EXCEPT ![h] = rsp]
           \/ UNCHANGED response
        /\ \E l \in PCs : pc' = [pc EXCEPT ![h] = l]
        /\ UNCHANGED <<users, models, request, user, model, adapters>>
    BY <1>1, ResponseTypes DEF Parse
  <2> QED BY <2>1
<1>2. CASE CheckUserExists(h)
  <2>1. /\ \/ \E rsp \in Responses : response' = [response EXCEPT ![h] = rsp]
           \/ UNCHANGED response
        /\ \E l \in PCs : pc' = [pc EXCEPT ![h] = l]
        /\ UNCHANGED <<users, models, request, user, model, adapters>>
    BY <1>2, ResponseTypes DEF CheckUserExists
  <2> QED BY <2>1
<1>3. CASE LookUpUser(h)
  <2>1. GetUser(users, UserID(request[h])) \in UserSpecs \cup {None}
    BY DEF GetUser, UserExists
  <2> QED BY <1>3, <2>1, ResponseTypes DEF LookUpUser
<1>4. CASE LookUpModel(h)
  <2>1. GetModel(models, IR(request[h]).ModelID) \in ModelSpecs \cup {None}
    BY DEF GetModel
  <2> QED BY <1>4, <2>1, ResponseTypes DEF LookUpModel
<1>5. CASE EvaluatePolicy(h)
  BY <1>5, ResponseTypes DEF EvaluatePolicy
<1>6. CASE PolicyError(h)
  BY <1>6, ResponseTypes DEF PolicyError
<1>7. CASE ListLoras(h)
  <2> DEFINE id == IR(request[h]).ModelID
             toSend == PickCandidates(GetAllowedModels(user[h], Candidates(models, id)), id)
  <2>1. toSend \in SUBSET ModelSpecs
    BY SentAdaptersAllowed DEF StoreKeyed
  <2> HIDE DEF toSend
  <2>2. /\ adapters' = [adapters EXCEPT ![h] = toSend] \/ UNCHANGED adapters
        /\ response' = [response EXCEPT ![h] = allow] \/ UNCHANGED response
        /\ \E l \in PCs : pc' = [pc EXCEPT ![h] = l]
        /\ UNCHANGED <<users, models, request, user, model>>
    BY <1>7 DEF ListLoras, toSend
  <2> QED BY <2>1, <2>2, ResponseTypes
<1>8. CASE AllowedModelsError(h)
  BY <1>8, ResponseTypes DEF AllowedModelsError
<1>9. CASE \E answer \in SidecarAnswers : Pick(h, answer)
  <2>1. PICK answer \in SidecarAnswers : Pick(h, answer)
    BY <1>9
  <2>2. PickMatches(adapters[h], answer) => answer.ModelID \in ModelIds \cup {""}
    BY DEF SidecarAnswers, PickMatches
  <2>3. \E rsp \in Responses : Respond(h, rsp)
    BY <2>1, <2>2, ResponseTypes DEF Pick
  <2> QED BY <2>1, <2>3 DEF Pick
<1>10. CASE Return(h)
  BY <1>10 DEF Return
<1> QED BY <1>1, <1>2, <1>3, <1>4, <1>5, <1>6, <1>7, <1>8, <1>9, <1>10 DEF Step

\* The types are an invariant of the server, with the keys of the store.
LEMMA TypeStep ==
  ASSUME TypeOK, StoreKeyed, [Next]_vars
  PROVE  TypeOK' /\ StoreKeyed'
<1>1. CASE \E h \in Handlers : \E rq \in CheckRequests : Receive(h, rq)
  BY <1>1 DEF TypeOK, StoreKeyed, Receive, Goto, PCs, storeVars
<1>2. CASE \E h \in Handlers : Step(h)
  BY <1>2, StepTypes, StepFrame DEF StoreKeyed, storeVars
<1>3. CASE StoreWrite
  BY <1>3, StoreWriteTypes
<1>4. CASE UNCHANGED vars
  BY <1>4 DEF TypeOK, StoreKeyed, vars
<1> QED BY <1>1, <1>2, <1>3, <1>4 DEF Next

\* The server starts well typed, with an empty store.
LEMMA TypeInit == Init => TypeOK /\ StoreKeyed
  BY DEF Init, TypeOK, StoreKeyed, EmptyMap, PCs

\* Check's locals, its responses and the store keep their types whatever
\* calls and store writes interleave.
THEOREM TypeCorrect == Spec => []TypeOK
<1>1. Init => TypeOK /\ StoreKeyed
  BY TypeInit
<1>2. TypeOK /\ StoreKeyed /\ [Next]_vars => (TypeOK /\ StoreKeyed)'
  BY TypeStep
<1> QED BY <1>1, <1>2, PTL DEF Spec

-----------------------------------------------------------------------------
(* The window of a call *)

Windows == [users  : SUBSET (UserSpecs \cup {None}),
            pairs  : SUBSET (UserSpecs \X ModelSpecs),
            absent : SUBSET ModelIds]

\* A pair of the window is made of specs the window has seen.
PairsSeen(w) == \A p \in w.pairs : p[1] \in w.users

\* The window has seen what the store holds now.
SeesStore(w, rq, us, ms) ==
  /\ GetUser(us, UserID(rq)) \in w.users
  /\ \A u \in w.users \ {None} : \A i \in ModelIds :
       ms[i] # None => <<u, ms[i]>> \in w.pairs
  /\ \A i \in ModelIds : ms[i] = None => i \in w.absent

\* Looking at the store once more adds what it holds and forgets nothing.
LEMMA ObserveGrows ==
  ASSUME NEW us \in [UserIds -> UserSpecs \cup {None}],
         NEW ms \in [ModelIds -> ModelSpecs \cup {None}],
         NEW rq, NEW w \in Windows, PairsSeen(w)
  PROVE  LET v == Observe(w, rq, us, ms) IN
         /\ v \in Windows
         /\ PairsSeen(v)
         /\ SeesStore(v, rq, us, ms)
         /\ w.users \subseteq v.users /\ w.pairs \subseteq v.pairs
<1> DEFINE v == Observe(w, rq, us, ms)
           seen == w.users \cup {GetUser(us, UserID(rq))}
           held == {ms[i] : i \in ModelIds} \ {None}
<1>1. GetUser(us, UserID(rq)) \in UserSpecs \cup {None}
  BY DEF GetUser, UserExists
<1>2. seen \in SUBSET (UserSpecs \cup {None}) /\ held \in SUBSET ModelSpecs
  BY <1>1 DEF Windows
<1>3. /\ v.users = seen
      /\ v.pairs = w.pairs \cup ((seen \ {None}) \X held)
      /\ v.absent = w.absent \cup {i \in ModelIds : ms[i] = None}
      /\ v = [users |-> v.users, pairs |-> v.pairs, absent |-> v.absent]
  BY DEF Observe
<1>4. v \in Windows
  <2>1. (seen \ {None}) \X held \in SUBSET (UserSpecs \X ModelSpecs)
    BY <1>2
  <2>2. /\ v.users \in SUBSET (UserSpecs \cup {None})
        /\ v.pairs \in SUBSET (UserSpecs \X ModelSpecs)
        /\ v.absent \in SUBSET ModelIds
    BY <1>2, <1>3, <2>1 DEF Windows
  <2> HIDE DEF v
  <2> QED BY <1>3, <2>2 DEF Windows
<1>5. PairsSeen(v)
  BY <1>3 DEF PairsSeen
<1>6. SeesStore(v, rq, us, ms)
  BY <1>3 DEF SeesStore
<1> QED BY <1>3, <1>4, <1>5, <1>6

-----------------------------------------------------------------------------
(* The inductive invariant *)

AfterUserExists == {"getUser", "getModel", "checkAccess", "listLoras", "pick"}
AfterGetUser    == {"getModel", "checkAccess", "listLoras", "pick"}
AfterGetModel   == {"checkAccess", "listLoras", "pick"}

\* What a handler has established at each point of Check, in terms of its
\* window rather than of the store, which may have changed since.
Established(h) ==
  LET rq == request[h]
      w == window[h]
      u == user[h]
      m == model[h]
  IN  /\ pc[h] = "userExists" => Identified(rq)
      /\ pc[h] \in AfterUserExists => ForModel(rq) /\ SeenRegistered(w)
      /\ pc[h] \in AfterGetUser => u \in w.users \ {None}
      /\ pc[h] \in AfterGetModel => <<u, m>> \in w.pairs /\ m.id = IR(rq).ModelID
      /\ pc[h] \in {"listLoras", "pick"} => CheckAccess(u, m) /\ ShouldSelect(rq, m)
      /\ pc[h] = "pick" =>
           \A a \in adapters[h] : /\ <<u, a>> \in w.pairs
                                  /\ a.type = ModelTypeLora
                                  /\ a.baseModelId = IR(rq).ModelID
                                  /\ CheckAccess(u, a)
      /\ pc[h] = "done" => Permits(rq, w, response[h])

WindowOK(h) ==
  /\ window[h] \in Windows
  /\ PairsSeen(window[h])
  /\ Pending(h) => SeesStore(window[h], request[h], users, models)

WTypeOK == TypeOK /\ StoreKeyed /\ window \in [Handlers -> Windows]

IInv == WTypeOK /\ \A h \in Handlers : WindowOK(h) /\ Established(h)

\* The empty window is a window.
LEMMA EmptyWindowOK == EmptyWindow \in Windows /\ PairsSeen(EmptyWindow)
  BY DEF EmptyWindow, Windows, PairsSeen

\* Initially no call is in progress.
LEMMA IInvInit == WInit => IInv
<1> SUFFICES ASSUME WInit PROVE IInv
  OBVIOUS
<1>1. TypeOK /\ StoreKeyed
  BY TypeInit DEF WInit
<1>2. \A h \in Handlers : pc[h] = "idle" /\ window[h] = EmptyWindow
  BY DEF WInit, Init
<1>3. window \in [Handlers -> Windows]
  BY EmptyWindowOK DEF WInit
<1>4. \A h \in Handlers : WindowOK(h)
  BY <1>2, EmptyWindowOK DEF WindowOK, Pending
<1>5. \A h \in Handlers : Established(h)
  BY <1>2 DEF Established, AfterUserExists, AfterGetUser, AfterGetModel
<1> QED BY <1>1, <1>3, <1>4, <1>5 DEF IInv, WTypeOK

\* The arrival of a call: its window starts with what the store holds.
LEMMA ReceiveKeeps ==
  ASSUME IInv, NEW h \in Handlers, NEW rq \in CheckRequests, WReceive(h, rq)
  PROVE  IInv'
<1>1. TypeOK /\ StoreKeyed /\ window \in [Handlers -> Windows]
  BY DEF IInv, WTypeOK
<1>2. TypeOK' /\ StoreKeyed'
  <2>1. Next
    BY DEF WReceive, Next
  <2> QED BY <1>1, <2>1, TypeStep
<1>3. /\ UNCHANGED storeVars
      /\ pc' = [pc EXCEPT ![h] = "parse"]
      /\ request' = [request EXCEPT ![h] = rq]
      /\ UNCHANGED <<user, model, adapters, response>>
      /\ window' = [window EXCEPT ![h] = Observe(EmptyWindow, rq, users, models)]
  BY DEF WReceive, Receive, Goto
<1> DEFINE v == Observe(EmptyWindow, rq, users, models)
<1>4. v \in Windows /\ PairsSeen(v) /\ SeesStore(v, rq, users, models)
  BY <1>1, EmptyWindowOK, ObserveGrows DEF TypeOK
<1> HIDE DEF v
<1>5. window' \in [Handlers -> Windows]
  BY <1>1, <1>3, <1>4 DEF v
<1>6. ASSUME NEW g \in Handlers PROVE WindowOK(g)' /\ Established(g)'
  <2>1. CASE g = h
    <3>1. pc'[g] = "parse" /\ request'[g] = rq /\ window'[g] = v
      BY <1>1, <1>3, <2>1 DEF TypeOK, v
    <3>2. WindowOK(g)'
      BY <1>3, <1>4, <3>1 DEF WindowOK, storeVars
    <3>3. Established(g)'
      BY <3>1 DEF Established, AfterUserExists, AfterGetUser, AfterGetModel
    <3> QED BY <3>2, <3>3
  <2>2. CASE g # h
    <3>1. /\ pc'[g] = pc[g] /\ request'[g] = request[g] /\ window'[g] = window[g]
          /\ user'[g] = user[g] /\ model'[g] = model[g]
          /\ adapters'[g] = adapters[g] /\ response'[g] = response[g]
      BY <1>1, <1>3, <2>2 DEF TypeOK
    <3> QED BY <1>3, <3>1 DEF IInv, WindowOK, Established, Pending, storeVars
  <2> QED BY <2>1, <2>2
<1> QED BY <1>2, <1>5, <1>6 DEF IInv, WTypeOK

\* A store write: the windows of the calls in progress grow by what the
\* store now holds, and what the handlers have established stays true.
LEMMA StoreWriteKeeps ==
  ASSUME IInv, WStoreWrite
  PROVE  IInv'
<1>1. TypeOK /\ StoreKeyed /\ window \in [Handlers -> Windows]
  BY DEF IInv, WTypeOK
<1>2. TypeOK' /\ StoreKeyed'
  BY <1>1, StoreWriteTypes DEF WStoreWrite
<1>3. UNCHANGED handlerVars
  BY DEF WStoreWrite, StoreWrite
<1> DEFINE v(g) == Observe(window[g], request[g], users', models')
<1>4. ASSUME NEW g \in Handlers
      PROVE  /\ v(g) \in Windows /\ PairsSeen(v(g))
             /\ SeesStore(v(g), request[g], users', models')
             /\ window[g].users \subseteq v(g).users
             /\ window[g].pairs \subseteq v(g).pairs
  BY <1>1, <1>2, ObserveGrows DEF IInv, WindowOK, TypeOK
<1>5. \A g \in Handlers : window'[g] = IF Pending(g) THEN v(g) ELSE window[g]
  BY DEF WStoreWrite
<1>6. window' \in [Handlers -> Windows]
  BY <1>1, <1>4 DEF WStoreWrite
<1> HIDE DEF v
<1>7. ASSUME NEW g \in Handlers PROVE WindowOK(g)' /\ Established(g)'
  <2>1. CASE Pending(g)
    <3>1. window'[g] = v(g)
      BY <1>5, <2>1
    <3>2. WindowOK(g)'
      BY <1>3, <1>4, <3>1 DEF WindowOK, handlerVars
    <3>3. Established(g)'
      <4>1. Established(g)
        BY DEF IInv
      <4>2. SeenRegistered(window[g]) => SeenRegistered(window'[g])
        BY <1>4, <3>1 DEF SeenRegistered
      <4>3. pc[g] # "done"
        BY <2>1 DEF Pending
      <4> QED BY <1>3, <1>4, <3>1, <4>1, <4>2, <4>3
              DEF Established, handlerVars, AfterUserExists, AfterGetUser, AfterGetModel
    <3> QED BY <3>2, <3>3
  <2>2. CASE ~Pending(g)
    <3>1. window'[g] = window[g]
      BY <1>5, <2>2
    <3> QED BY <1>3, <2>2, <3>1
            DEF IInv, WindowOK, Established, Pending, handlerVars
  <2> QED BY <2>1, <2>2
<1> QED BY <1>2, <1>6, <1>7 DEF IInv, WTypeOK

-----------------------------------------------------------------------------
(* One lemma for every lookup or decision of Check *)

\* Parsing and authentication: the early answers are the right ones, and a
\* call that goes on has an identified caller.
LEMMA ParseEstablishes ==
  ASSUME IInv, NEW h \in Handlers, Parse(h), window'[h] = window[h]
  PROVE  Established(h)'
<1>1. TypeOK
  BY DEF IInv, WTypeOK
<1>2. request'[h] = request[h]
  BY DEF Parse
<1>3. CASE pc'[h] = "userExists" /\ Identified(request[h])
  BY <1>2, <1>3 DEF Established, AfterUserExists, AfterGetUser, AfterGetModel
<1>4. CASE pc'[h] = "done" /\ Permits(request[h], window[h], response'[h])
  BY <1>2, <1>4 DEF Established, AfterUserExists, AfterGetUser, AfterGetModel
<1> QED BY <1>1, <1>3, <1>4
        DEF TypeOK, Parse, Respond, Goto, Permits, Protected, Identified

\* UserExists: "not registered" and the answers that need no model are
\* justified by the store of this instant.
LEMMA CheckUserExistsEstablishes ==
  ASSUME IInv, NEW h \in Handlers, CheckUserExists(h), window'[h] = window[h]
  PROVE  Established(h)'
<1>1. TypeOK /\ WindowOK(h) /\ Established(h) /\ pc[h] = "userExists"
  BY DEF IInv, WTypeOK, CheckUserExists
<1>2. request'[h] = request[h]
  BY DEF CheckUserExists
<1>3. Identified(request[h])
  BY <1>1 DEF Established
<1>4. GetUser(users, UserID(request[h])) \in window[h].users
  BY <1>1 DEF WindowOK, SeesStore, Pending
<1>5. /\ UserExists(users, UserID(request[h])) => SeenRegistered(window[h])
      /\ ~UserExists(users, UserID(request[h])) => SeenUnregistered(window[h])
  BY <1>1, <1>4 DEF GetUser, UserExists, SeenRegistered, SeenUnregistered
<1>6. CASE /\ pc'[h] = "getUser" /\ ForModel(request[h])
           /\ SeenRegistered(window[h])
  BY <1>2, <1>6 DEF Established, AfterUserExists, AfterGetUser, AfterGetModel
<1>7. CASE pc'[h] = "done" /\ Permits(request[h], window[h], response'[h])
  BY <1>2, <1>7 DEF Established, AfterUserExists, AfterGetUser, AfterGetModel
<1> QED BY <1>1, <1>3, <1>5, <1>6, <1>7
        DEF TypeOK, CheckUserExists, Respond, Goto, Permits, ForModel

\* GetUser: the copy Check works with from now on is one the window has.
LEMMA LookUpUserEstablishes ==
  ASSUME IInv, NEW h \in Handlers, LookUpUser(h), window'[h] = window[h]
  PROVE  Established(h)'
<1> DEFINE found == GetUser(users, UserID(request[h]))
<1>1. TypeOK /\ WindowOK(h) /\ Established(h) /\ pc[h] = "getUser"
  BY DEF IInv, WTypeOK, LookUpUser
<1>2. request'[h] = request[h] /\ user'[h] = found
  BY <1>1 DEF LookUpUser, TypeOK
<1>3. ForModel(request[h]) /\ SeenRegistered(window[h])
  BY <1>1 DEF Established, AfterUserExists
<1>4. found \in window[h].users
  BY <1>1 DEF WindowOK, SeesStore, Pending
<1>5. CASE found = None
  <2>1. pc'[h] = "done" /\ response'[h] = deny("user not found")
    BY <1>1, <1>5 DEF LookUpUser, Respond, Goto, TypeOK
  <2>2. Permits(request[h], window[h], response'[h])
    BY <1>3, <1>4, <1>5, <2>1 DEF Permits, PermitsForModel, SeenUnregistered
  <2> QED BY <1>2, <2>1, <2>2 DEF Established, AfterUserExists, AfterGetUser, AfterGetModel
<1>6. CASE found # None
  <2>1. pc'[h] = "getModel"
    BY <1>1, <1>6 DEF LookUpUser, Goto, TypeOK
  <2> QED BY <1>2, <1>3, <1>4, <1>6, <2>1
          DEF Established, AfterUserExists, AfterGetUser, AfterGetModel
<1> QED BY <1>5, <1>6

\* GetModel: the model now goes with the user that was read before.
LEMMA LookUpModelEstablishes ==
  ASSUME IInv, NEW h \in Handlers, LookUpModel(h), window'[h] = window[h]
  PROVE  Established(h)'
<1> DEFINE id == IR(request[h]).ModelID
           found == GetModel(models, id)
<1>1. /\ TypeOK /\ StoreKeyed /\ WindowOK(h) /\ Established(h)
      /\ pc[h] = "getModel"
  BY DEF IInv, WTypeOK, LookUpModel
<1>2. request'[h] = request[h] /\ user'[h] = user[h] /\ model'[h] = found
  BY <1>1 DEF LookUpModel, TypeOK
<1>3. /\ ForModel(request[h]) /\ SeenRegistered(window[h])
      /\ user[h] \in window[h].users \ {None}
  BY <1>1 DEF Established, AfterUserExists, AfterGetUser
<1>4. SeesStore(window[h], request[h], users, models)
  BY <1>1 DEF WindowOK, Pending
<1>5. CASE found = None
  <2>1. pc'[h] = "done" /\ response'[h] = deny("model not found")
    BY <1>1, <1>5 DEF LookUpModel, Respond, Goto, TypeOK
  <2>2. id \in window[h].absent \/ id \notin ModelIds
    BY <1>1, <1>4, <1>5 DEF SeesStore, GetModel, TypeOK
  <2>3. Permits(request[h], window[h], response'[h])
    BY <1>3, <2>1, <2>2 DEF Permits, PermitsForModel
  <2> QED BY <1>2, <2>1, <2>3 DEF Established, AfterUserExists, AfterGetUser, AfterGetModel
<1>6. CASE found # None
  <2>1. pc'[h] = "checkAccess"
    BY <1>1, <1>6 DEF LookUpModel, Goto, TypeOK
  <2>2. id \in ModelIds /\ found = models[id] /\ found.id = id
    BY <1>1, <1>6 DEF GetModel, TypeOK, StoreKeyed
  <2>3. <<user[h], found>> \in window[h].pairs
    BY <1>3, <1>4, <1>6, <2>2 DEF SeesStore
  <2> QED BY <1>2, <1>3, <2>1, <2>2, <2>3
          DEF Established, AfterUserExists, AfterGetUser, AfterGetModel
<1> QED BY <1>5, <1>6

\* CheckAccess, or its failure.
LEMMA PolicyEstablishes ==
  ASSUME IInv, NEW h \in Handlers, EvaluatePolicy(h) \/ PolicyError(h),
         window'[h] = window[h]
  PROVE  Established(h)'
<1> DEFINE rq == request[h]
           w == window[h]
           u == user[h]
           m == model[h]
<1>1. TypeOK /\ Established(h) /\ pc[h] = "checkAccess"
  BY DEF IInv, WTypeOK, EvaluatePolicy, PolicyError
<1>2. request'[h] = rq /\ user'[h] = u /\ model'[h] = m
  BY DEF EvaluatePolicy, PolicyError
<1>3. /\ ForModel(rq) /\ SeenRegistered(w) /\ u \in w.users \ {None}
      /\ <<u, m>> \in w.pairs /\ m.id = IR(rq).ModelID
  BY <1>1 DEF Established, AfterUserExists, AfterGetUser, AfterGetModel
<1>4. CASE pc'[h] = "listLoras" /\ CheckAccess(u, m) /\ ShouldSelect(rq, m)
  BY <1>2, <1>3, <1>4 DEF Established, AfterUserExists, AfterGetUser, AfterGetModel
<1>5. CASE pc'[h] = "done" /\ Permits(rq, w, response'[h])
  BY <1>2, <1>5 DEF Established, AfterUserExists, AfterGetUser, AfterGetModel
<1>6. \/ pc'[h] = "listLoras" /\ CheckAccess(u, m) /\ ShouldSelect(rq, m)
      \/ /\ pc'[h] = "done"
         /\ \/ response'[h] = deny("policy evaluation error")
            \/ response'[h] = deny("access denied by policy") /\ ~CheckAccess(u, m)
            \/ response'[h] = allow /\ CheckAccess(u, m)
  BY <1>1 DEF EvaluatePolicy, PolicyError, Respond, Goto, TypeOK
<1>7. ~CheckAccess(u, m) => Refused(rq, w)
  BY <1>3 DEF Refused
<1>8. CheckAccess(u, m) => Granted(rq, w, u)
  BY <1>3 DEF Granted
<1> QED BY <1>3, <1>4, <1>5, <1>6, <1>7, <1>8 DEF Permits, PermitsForModel

\* ListModelsByType and GetAllowedModels, or the engine's failure.
LEMMA ListLorasEstablishes ==
  ASSUME IInv, NEW h \in Handlers, ListLoras(h) \/ AllowedModelsError(h),
         window'[h] = window[h]
  PROVE  Established(h)'
<1> DEFINE rq == request[h]
           w == window[h]
           u == user[h]
           m == model[h]
           id == IR(rq).ModelID
           toSend == PickCandidates(GetAllowedModels(u, Candidates(models, id)), id)
<1>1. /\ TypeOK /\ StoreKeyed /\ WindowOK(h) /\ Established(h)
      /\ pc[h] = "listLoras"
  BY DEF IInv, WTypeOK, ListLoras, AllowedModelsError
<1>2. request'[h] = rq /\ user'[h] = u /\ model'[h] = m
  BY DEF ListLoras, AllowedModelsError
<1>3. /\ ForModel(rq) /\ SeenRegistered(w) /\ u \in w.users \ {None}
      /\ <<u, m>> \in w.pairs /\ m.id = id
      /\ CheckAccess(u, m) /\ ShouldSelect(rq, m)
  BY <1>1 DEF Established, AfterUserExists, AfterGetUser, AfterGetModel
<1>4. SeesStore(w, rq, users, models)
  BY <1>1 DEF WindowOK, Pending
<1>5. CASE pc'[h] = "done" /\ response'[h] = allow
  <2>1. Granted(rq, w, u)
    BY <1>3 DEF Granted
  <2>2. Permits(rq, w, response'[h])
    BY <1>3, <1>5, <2>1 DEF Permits, PermitsForModel
  <2> QED BY <1>2, <1>5, <2>2 DEF Established, AfterUserExists, AfterGetUser, AfterGetModel
<1>6. CASE pc'[h] = "pick" /\ adapters'[h] = toSend
  <2>1. \A a \in toSend : /\ a.type = ModelTypeLora
                          /\ a.baseModelId = id
                          /\ CheckAccess(u, a)
                          /\ \E i \in ModelIds : a = models[i] /\ models[i] # None
    BY <1>1, SentAdaptersAllowed DEF TypeOK, StoreKeyed
  <2>2. \A a \in toSend : <<u, a>> \in w.pairs
    BY <1>3, <1>4, <2>1 DEF SeesStore
  <2> HIDE DEF toSend
  <2> QED BY <1>2, <1>3, <1>6, <2>1, <2>2
          DEF Established, AfterUserExists, AfterGetUser, AfterGetModel
<1> QED BY <1>1, <1>5, <1>6
        DEF ListLoras, AllowedModelsError, Respond, Goto, TypeOK

\* Pick: whatever the sidecar answers, a rewrite names one of the adapters
\* that were sent to it.
LEMMA PickEstablishes ==
  ASSUME IInv, NEW h \in Handlers, NEW answer \in SidecarAnswers, Pick(h, answer),
         window'[h] = window[h]
  PROVE  Established(h)'
<1> DEFINE rq == request[h]
           w == window[h]
           u == user[h]
           m == model[h]
<1>1. TypeOK /\ WindowOK(h) /\ Established(h) /\ pc[h] = "pick"
  BY DEF IInv, WTypeOK, Pick
<1>2. request'[h] = rq /\ pc'[h] = "done"
  BY <1>1 DEF Pick, Respond, Goto, TypeOK
<1>3. /\ ForModel(rq) /\ u \in w.users \ {None}
      /\ <<u, m>> \in w.pairs /\ m.id = IR(rq).ModelID
      /\ CheckAccess(u, m) /\ ShouldSelect(rq, m)
  BY <1>1 DEF Established, AfterUserExists, AfterGetUser, AfterGetModel
<1>4. \A a \in adapters[h] : /\ <<u, a>> \in w.pairs
                             /\ a.type = ModelTypeLora
                             /\ a.baseModelId = IR(rq).ModelID
                             /\ CheckAccess(u, a)
  BY <1>1 DEF Established
<1>5. GrantedSelectable(rq, w, u) /\ Granted(rq, w, u)
  BY <1>3 DEF GrantedSelectable, Granted
<1>6. Permits(rq, w, response'[h])
  <2>1. CASE PickMatches(adapters[h], answer)
    <3>1. PICK a \in adapters[h] : a.id = answer.ModelID
      BY <2>1 DEF PickMatches
    <3>2. a.id \in ModelIds
      BY <1>1, SpecsAssumption DEF TypeOK, IsModelSpec
    <3>3. RewriteEntitled(rq, w, a.id)
      BY <1>4, <1>5 DEF RewriteEntitled
    <3>4. response'[h] = allowWithModelRewrite(a.id)
      BY <1>1, <2>1, <3>1 DEF Pick, Respond, TypeOK
    <3> QED BY <1>3, <3>2, <3>3, <3>4 DEF Permits, PermitsForModel
  <2>2. CASE ~PickMatches(adapters[h], answer)
    <3>1. response'[h] = allow
      BY <1>1, <2>2 DEF Pick, Respond, TypeOK
    <3> QED BY <1>3, <1>5, <3>1 DEF Permits, PermitsForModel
  <2> QED BY <2>1, <2>2
<1> QED BY <1>2, <1>6 DEF Established, AfterUserExists, AfterGetUser, AfterGetModel

\* A step of a handler.
LEMMA StepKeeps ==
  ASSUME IInv, NEW h \in Handlers, WStep(h)
  PROVE  IInv'
<1>1. TypeOK /\ StoreKeyed /\ window \in [Handlers -> Windows] /\ Step(h)
  BY DEF IInv, WTypeOK, WStep
<1>2. /\ TypeOK' /\ StoreKeyed'
      /\ UNCHANGED storeVars
      /\ \A g \in Handlers \ {h} :
           /\ pc'[g] = pc[g] /\ request'[g] = request[g] /\ user'[g] = user[g]
           /\ model'[g] = model[g] /\ adapters'[g] = adapters[g]
           /\ response'[g] = response[g] /\ window'[g] = window[g]
  <2>1. TypeOK' /\ UNCHANGED storeVars
    BY <1>1, StepTypes, StepFrame
  <2> QED BY <1>1, <2>1, StepFrame DEF StoreKeyed, storeVars, WStep
<1>3. window' \in [Handlers -> Windows]
  BY <1>1, EmptyWindowOK DEF WStep
<1>4. ASSUME NEW g \in Handlers \ {h} PROVE WindowOK(g)' /\ Established(g)'
  BY <1>2 DEF IInv, WindowOK, Established, Pending, storeVars
<1>5. WindowOK(h)' /\ Established(h)'
  <2>1. CASE Return(h)
    <3>1. pc'[h] = "idle" /\ window'[h] = EmptyWindow
      BY <1>1, <2>1 DEF Return, Goto, WStep, TypeOK
    <3> QED BY <3>1, EmptyWindowOK
            DEF WindowOK, Pending, Established, AfterUserExists, AfterGetUser, AfterGetModel
  <2>2. CASE ~Return(h)
    <3>1. pc'[h] # "idle" /\ request'[h] = request[h] /\ Pending(h)
      BY <1>1, <2>2
      DEF Step, Parse, CheckUserExists, LookUpUser, LookUpModel, EvaluatePolicy,
          PolicyError, ListLoras, AllowedModelsError, Pick, Respond, Goto, TypeOK, Pending
    <3>2. window'[h] = window[h]
      BY <1>1, <3>1 DEF WStep
    <3>3. WindowOK(h)'
      BY <1>2, <3>1, <3>2 DEF IInv, WindowOK, storeVars
    <3>4. Established(h)'
      BY <1>1, <2>2, <3>2, ParseEstablishes, CheckUserExistsEstablishes,
         LookUpUserEstablishes, LookUpModelEstablishes, PolicyEstablishes,
         ListLorasEstablishes, PickEstablishes
      DEF Step
    <3> QED BY <3>3, <3>4
  <2> QED BY <2>1, <2>2
<1> QED BY <1>2, <1>3, <1>4, <1>5 DEF IInv, WTypeOK

-----------------------------------------------------------------------------
(* Theorems *)

\* The invariant holds throughout.
LEMMA Invariance == WSpec => []IInv
<1>1. WInit => IInv
  BY IInvInit
<1>2. IInv /\ [WNext]_wvars => IInv'
  <2> SUFFICES ASSUME IInv, [WNext]_wvars PROVE IInv'
    OBVIOUS
  <2>1. CASE \E h \in Handlers : \E rq \in CheckRequests : WReceive(h, rq)
    BY <2>1, ReceiveKeeps
  <2>2. CASE \E h \in Handlers : WStep(h)
    BY <2>2, StepKeeps
  <2>3. CASE WStoreWrite
    BY <2>3, StoreWriteKeeps
  <2>4. CASE UNCHANGED wvars
    BY <2>4
    DEF wvars, IInv, WTypeOK, TypeOK, StoreKeyed, WindowOK, Established, Pending
  <2> QED BY <2>1, <2>2, <2>3, <2>4 DEF WNext
<1> QED BY <1>1, <1>2, PTL DEF WSpec

\* For any number of concurrent calls and any store writes between their
\* lookups: every answer of Check, and every reason it gives, is justified
\* by what the store held between the call's arrival and its answer.
THEOREM AnswersAreJustified == WSpec => []AnswersJustified
<1>1. IInv => AnswersJustified
  BY DEF IInv, Established, AnswersJustified
<1> QED BY <1>1, Invariance, PTL

\* Nobody whose entry is missing during the whole call is let in.
THEOREM StrangersStayOut == WSpec => []StrangersAreRefused
<1>1. IInv => StrangersAreRefused
  <2> SUFFICES ASSUME IInv, NEW h \in Handlers,
                      pc[h] = "done", window[h].users = {None}
               PROVE  response[h].result # "allowed"
    BY DEF StrangersAreRefused
  <2>1. /\ Permits(request[h], window[h], response[h])
        /\ window[h] \in Windows /\ PairsSeen(window[h])
    BY DEF IInv, Established, WindowOK
  <2>2. \A p \in window[h].pairs : p[1] \in UserSpecs
    BY <2>1 DEF Windows
  <2>3. window[h].pairs = {} /\ ~SeenRegistered(window[h])
    BY <2>1, <2>2, SpecsAssumption DEF SeenRegistered, PairsSeen
  <2>4. \/ response[h] = allowWithoutClaims
        \/ \E reason \in Reasons : response[h] = deny(reason)
    BY <2>1, <2>3
    DEF Permits, PermitsForModel, Granted, RewriteEntitled, Reasons
  <2> QED BY <2>4, ResponseResults
<1> QED BY <1>1, Invariance, PTL

\* Nobody entitled to the model during the whole call is refused it, except
\* by a failure of the policy engine.
THEOREM StableAccessGranted == WSpec => []StableAccessIsGranted
<1>1. IInv => StableAccessIsGranted
  <2> SUFFICES ASSUME IInv, NEW h \in Handlers, pc[h] = "done",
                      StableAccess(request[h], window[h]),
                      response[h] # deny("policy evaluation error")
               PROVE  response[h].result = "allowed"
    BY DEF StableAccessIsGranted
  <2>1. Permits(request[h], window[h], response[h])
    BY DEF IInv, Established
  <2>2. ForModel(request[h]) /\ Identified(request[h]) /\ Protected(request[h])
    BY DEF StableAccess, ForModel, Identified
  <2>3. PermitsForModel(request[h], window[h], response[h])
    BY <2>1, <2>2 DEF Permits, StableAccess, SeenUnregistered, ForModel, Protected
  <2>4. \/ response[h] = allow
        \/ \E id \in ModelIds : response[h] = allowWithModelRewrite(id)
    BY <2>3 DEF PermitsForModel, StableAccess, SeenUnregistered
  <2> QED BY <2>4, ResponseResults
<1> QED BY <1>1, Invariance, PTL

\* No failure of adapter selection turns a granted call into a denial.
THEOREM SelectionOnlyAllows == WSpec => SelectionNeverDenies
<1>1. IInv /\ [WNext]_wvars => [AllowsOnceGranted]_wvars
  <2> SUFFICES ASSUME IInv, WNext, NEW h \in Handlers,
                      pc[h] \in {"listLoras", "pick"}, pc'[h] = "done"
               PROVE  response'[h].result = "allowed"
    BY DEF AllowsOnceGranted
  <2>1. TypeOK
    BY DEF IInv, WTypeOK
  <2>2. Step(h)
    <3>1. CASE \E g \in Handlers : \E rq \in CheckRequests : WReceive(g, rq)
      BY <2>1, <3>1 DEF WReceive, Receive, Goto, TypeOK
    <3>2. CASE \E g \in Handlers : WStep(g)
      BY <2>1, <3>2, StepFrame DEF WStep
    <3>3. CASE WStoreWrite
      BY <3>3 DEF WStoreWrite, StoreWrite, handlerVars
    <3> QED BY <3>1, <3>2, <3>3 DEF WNext
  <2>3. CASE ListLoras(h) \/ AllowedModelsError(h)
    <3>1. response'[h] = allow
      BY <2>1, <2>3 DEF ListLoras, AllowedModelsError, Respond, Goto, TypeOK
    <3> QED BY <3>1, ResponseResults
  <2>4. CASE \E answer \in SidecarAnswers : Pick(h, answer)
    <3>1. PICK answer \in SidecarAnswers : Pick(h, answer)
      BY <2>4
    <3>2. CASE PickMatches(adapters[h], answer)
      <4>1. answer.ModelID \in ModelIds
        BY <2>1, <3>2, SpecsAssumption DEF PickMatches, TypeOK, IsModelSpec
      <4>2. response'[h] = allowWithModelRewrite(answer.ModelID)
        BY <2>1, <3>1, <3>2 DEF Pick, Respond, TypeOK
      <4> QED BY <4>1, <4>2, ResponseResults
    <3>3. CASE ~PickMatches(adapters[h], answer)
      <4>1. response'[h] = allow
        BY <2>1, <3>1, <3>3 DEF Pick, Respond, TypeOK
      <4> QED BY <4>1, ResponseResults
    <3> QED BY <3>2, <3>3
  <2> QED BY <2>2, <2>3, <2>4
          DEF Step, Parse, CheckUserExists, LookUpUser, LookUpModel, EvaluatePolicy,
              PolicyError, Return
<1> QED BY <1>1, Invariance, PTL DEF WSpec, SelectionNeverDenies

-----------------------------------------------------------------------------
(* Who is let in *)

\* The window of a call only ever has specs of the user the token names.
OwnSpecs(h) ==
  pc[h] # "idle" => \A u \in window[h].users \ {None} : u.id = UserID(request[h])

\* GetUser finds a spec under its own id.
LEMMA FoundUnderId ==
  ASSUME NEW us \in [UserIds -> UserSpecs \cup {None}], NEW id,
         \A i \in UserIds : us[i] # None => us[i].id = i
  PROVE  GetUser(us, id) # None => GetUser(us, id).id = id
  BY DEF GetUser, UserExists

\* So does one more look at the store.
LEMMA ObserveOwn ==
  ASSUME NEW us \in [UserIds -> UserSpecs \cup {None}], NEW ms, NEW rq, NEW w,
         \A i \in UserIds : us[i] # None => us[i].id = i,
         \A u \in w.users \ {None} : u.id = UserID(rq)
  PROVE  \A u \in Observe(w, rq, us, ms).users \ {None} : u.id = UserID(rq)
<1>1. Observe(w, rq, us, ms).users = w.users \cup {GetUser(us, UserID(rq))}
  BY DEF Observe
<1> QED BY <1>1, FoundUnderId

\* Every step keeps the windows to the caller's specs.
LEMMA OwnSpecsStep ==
  ASSUME IInv, IInv', [WNext]_wvars, \A h \in Handlers : OwnSpecs(h)
  PROVE  \A h \in Handlers : OwnSpecs(h)'
<1>1. /\ TypeOK /\ StoreKeyed /\ StoreKeyed' /\ window \in [Handlers -> Windows]
      /\ users \in [UserIds -> UserSpecs \cup {None}]
      /\ users' \in [UserIds -> UserSpecs \cup {None}]
  BY DEF IInv, WTypeOK, TypeOK
<1>2. ASSUME NEW h \in Handlers, NEW rq \in CheckRequests, WReceive(h, rq), NEW g \in Handlers
      PROVE  OwnSpecs(g)'
  <2>1. CASE g = h
    <3>1. /\ request'[h] = rq
          /\ window'[h] = Observe(EmptyWindow, rq, users, models)
      BY <1>1, <1>2 DEF WReceive, Receive, TypeOK
    <3>2. \A u \in EmptyWindow.users \ {None} : u.id = UserID(rq)
      BY DEF EmptyWindow
    <3>3. \A u \in window'[h].users \ {None} : u.id = UserID(rq)
      BY <1>1, <3>1, <3>2, ObserveOwn DEF StoreKeyed
    <3> QED BY <2>1, <3>1, <3>3 DEF OwnSpecs
  <2>2. CASE g # h
    <3>1. pc'[g] = pc[g] /\ request'[g] = request[g] /\ window'[g] = window[g]
      BY <1>1, <1>2, <2>2 DEF WReceive, Receive, Goto, TypeOK
    <3> QED BY <3>1 DEF OwnSpecs
  <2> QED BY <2>1, <2>2
<1>3. ASSUME NEW h \in Handlers, WStep(h), NEW g \in Handlers PROVE OwnSpecs(g)'
  <2>1. CASE g # h
    <3>1. pc'[g] = pc[g] /\ request'[g] = request[g] /\ window'[g] = window[g]
      BY <1>1, <1>3, <2>1, StepFrame DEF WStep
    <3> QED BY <3>1 DEF OwnSpecs
  <2>2. CASE g = h /\ Return(h)
    <3>1. pc'[h] = "idle"
      BY <1>1, <2>2 DEF Return, Goto, TypeOK
    <3> QED BY <2>2, <3>1 DEF OwnSpecs
  <2>3. CASE g = h /\ ~Return(h)
    <3>1. Pending(h) /\ UNCHANGED request /\ window'[h] \in {window[h], EmptyWindow}
      BY <1>1, <1>3, <2>3, StepAnswers DEF WStep
    <3>2. EmptyWindow.users = {}
      BY DEF EmptyWindow
    <3> QED BY <2>3, <3>1, <3>2 DEF OwnSpecs, Pending
  <2> QED BY <2>1, <2>2, <2>3
<1>4. ASSUME WStoreWrite, NEW g \in Handlers PROVE OwnSpecs(g)'
  <2>1. UNCHANGED handlerVars
    BY <1>4 DEF WStoreWrite, StoreWrite
  <2>2. window'[g] = IF Pending(g) THEN Observe(window[g], request[g], users', models')
                                  ELSE window[g]
    BY <1>4 DEF WStoreWrite
  <2>3. ASSUME \A u \in window[g].users \ {None} : u.id = UserID(request[g])
        PROVE  \A u \in window'[g].users \ {None} : u.id = UserID(request[g])
    BY <1>1, <2>2, <2>3, ObserveOwn DEF StoreKeyed
  <2> QED BY <2>1, <2>3 DEF OwnSpecs, handlerVars
<1>5. CASE UNCHANGED wvars
  BY <1>5 DEF wvars, OwnSpecs
<1> QED BY <1>2, <1>3, <1>4, <1>5 DEF WNext

\* An allowing answer is for an identified caller that was seen registered.
LEMMA AllowedAnswers ==
  ASSUME NEW rq, NEW w \in Windows, PairsSeen(w), NEW rsp,
         Permits(rq, w, rsp), rsp.result = "allowed"
  PROVE  Identified(rq) /\ \E u \in w.users : u # None
<1>1. \A p \in w.pairs : p[1] \in w.users /\ p[1] # None
  BY SpecsAssumption DEF Windows, PairsSeen
<1>2. /\ rsp # allowWithoutClaims
      /\ \A reason \in Reasons : rsp # deny(reason)
  BY ResponseResults
<1>3. \/ Identified(rq) /\ SeenRegistered(w)
      \/ ForModel(rq) /\ \E p \in w.pairs : TRUE
  BY <1>2 DEF Permits, PermitsForModel, Reasons, Granted, RewriteEntitled
<1> QED BY <1>1, <1>3 DEF ForModel, SeenRegistered

\* What Authenticate has checked of a caller it identifies, and on which
\* paths.
LEMMA IdentifiedCaller ==
  ASSUME NEW rq, Identified(rq)
  PROVE  LET token == rq.authorization.token
         IN  /\ rq.path \in {pathCompletions, pathChatCompletions, pathModels}
             /\ rq.authorization # None
             /\ token.method = "RSA" /\ token.key = PublicKey
             /\ token.issuer = ServerName
             /\ token.exp # None => Now < token.exp
             /\ UserID(rq) = token.username
<1>1. RequestType(rq.path) # RequestTypeUnknown
  BY DEF Identified, Protected, IR, ParseCheckRequest
<1>2. rq.path \in {pathCompletions, pathChatCompletions, pathModels}
  BY <1>1 DEF RequestType
<1>3. /\ rq.authorization # None
      /\ ValidateJWTWithKey(rq.authorization.token, PublicKey, Now)
      /\ UserID(rq) = rq.authorization.token.username
  BY DEF Identified, UserID, Authenticate
<1> QED BY <1>2, <1>3 DEF ValidateJWTWithKey, SignatureVerifies, NotExpired

\* For any number of concurrent calls and any store writes between their
\* lookups: whoever is let in came with a valid token of the admin's, and
\* the very user it names was registered at some instant of the call.
THEOREM AllowedAreAuthenticated == WSpec => []AllowedIsAuthenticated
<1>1. WInit => \A h \in Handlers : OwnSpecs(h)
  BY DEF WInit, Init, OwnSpecs
<1>2. IInv /\ (\A h \in Handlers : OwnSpecs(h)) => AllowedIsAuthenticated
  <2> SUFFICES ASSUME IInv, \A h \in Handlers : OwnSpecs(h), NEW h \in Handlers,
                      pc[h] = "done", response[h].result = "allowed"
               PROVE  LET rq == request[h]
                          token == rq.authorization.token
                      IN  /\ rq.path \in {pathCompletions, pathChatCompletions, pathModels}
                          /\ rq.authorization # None
                          /\ token.method = "RSA" /\ token.key = PublicKey
                          /\ token.issuer = ServerName
                          /\ token.exp # None => Now < token.exp
                          /\ \E u \in window[h].users \ {None} : u.id = token.username
    BY DEF AllowedIsAuthenticated
  <2>1. /\ Permits(request[h], window[h], response[h])
        /\ window[h] \in Windows /\ PairsSeen(window[h])
    BY DEF IInv, Established, WindowOK
  <2>2. Identified(request[h]) /\ \E u \in window[h].users : u # None
    BY <2>1, AllowedAnswers
  <2>3. \A u \in window[h].users \ {None} : u.id = UserID(request[h])
    BY DEF OwnSpecs
  <2> QED BY <2>2, <2>3, IdentifiedCaller
<1>3. IInv /\ IInv' /\ [WNext]_wvars /\ (\A h \in Handlers : OwnSpecs(h))
        => (\A h \in Handlers : OwnSpecs(h))'
  BY OwnSpecsStep
<1> QED BY <1>1, <1>2, <1>3, Invariance, PTL DEF WSpec

-----------------------------------------------------------------------------
(* Refinement *)

\* Store writes are store changes of the contract.
LEMMA StoreWriteRefines ==
  ASSUME IInv, IInv', WStoreWrite
  PROVE  Contract!StoreChange
<1>1. UNCHANGED handlerVars
  BY DEF WStoreWrite, StoreWrite
<1>2. users' \in [UserIds -> UserSpecs \cup {None}] /\ models' \in [ModelIds -> ModelSpecs \cup {None}]
  BY DEF IInv, WTypeOK, TypeOK
<1>3. Status' = Status
  BY <1>1 DEF Status, handlerVars
<1>4. \A h \in Handlers : Pending(h) <=> Status[h] = "pending"
  BY DEF Pending, Status
<1>5. window' = [h \in Handlers |->
                   IF Status[h] = "pending"
                     THEN Observe(window[h], request[h], users', models')
                     ELSE window[h]]
  BY <1>4 DEF WStoreWrite
<1> QED BY <1>1, <1>2, <1>3, <1>5 DEF Contract!StoreChange, handlerVars

\* The arrival of a call begins one of the contract's calls.
LEMMA ReceiveRefines ==
  ASSUME IInv, NEW h \in Handlers, NEW rq \in CheckRequests, WReceive(h, rq)
  PROVE  Contract!Begin(h, rq)
<1>1. /\ TypeOK /\ pc[h] = "idle" /\ pc' = [pc EXCEPT ![h] = "parse"]
  BY DEF IInv, WTypeOK, WReceive, Receive, Goto
<1>2. Status[h] = "idle" /\ Status' = [Status EXCEPT ![h] = "pending"]
  BY <1>1 DEF Status, TypeOK
<1> QED BY <1>2 DEF Contract!Begin, WReceive, Receive, storeVars

\* A step of Check is invisible, an answer the window justifies, or the end
\* of the call.
LEMMA StepRefines ==
  ASSUME IInv, IInv', NEW h \in Handlers, WStep(h)
  PROVE  \/ \E rsp \in Responses : Contract!Answer(h, rsp)
         \/ Contract!Finish(h)
         \/ UNCHANGED Contract!cvars
<1>1. /\ TypeOK /\ TypeOK' /\ Established(h)' /\ Step(h)
      /\ window \in [Handlers -> Windows]
  BY DEF IInv, WTypeOK, WStep
<1>2. UNCHANGED storeVars
  BY <1>1, StepFrame
<1>3. CASE Return(h)
  <2>1. Status[h] = "answered" /\ Status' = [Status EXCEPT ![h] = "idle"]
    BY <1>1, <1>3 DEF Status, Return, Goto, TypeOK
  <2>2. window' = [window EXCEPT ![h] = EmptyWindow]
    BY <1>1, <1>3 DEF WStep, Return, Goto, TypeOK
  <2>3. Contract!Finish(h)
    BY <1>2, <1>3, <2>1, <2>2 DEF Contract!Finish, Return, storeVars
  <2> QED BY <2>3
<1>4. CASE ~Return(h)
  <2>1. /\ Pending(h) /\ UNCHANGED request
        /\ \/ \E rsp \in Responses : Respond(h, rsp)
           \/ /\ UNCHANGED response
              /\ \E l \in PCs \ {"idle", "done"} : Goto(h, l)
    BY <1>1, <1>4, StepAnswers
  <2>2. pc'[h] # "idle"
    BY <1>1, <2>1 DEF Respond, Goto, TypeOK
  <2>3. window' = window
    BY <1>1, <2>2 DEF WStep
  <2>4. Status[h] = "pending"
    BY <2>1 DEF Status, Pending
  <2>5. CASE \E rsp \in Responses : Respond(h, rsp)
    <3>1. PICK rsp \in Responses : Respond(h, rsp)
      BY <2>5
    <3>2. response'[h] = rsp /\ pc'[h] = "done"
      BY <1>1, <3>1 DEF Respond, Goto, TypeOK
    <3>3. Permits(request[h], window[h], rsp)
      BY <1>1, <2>1, <2>3, <3>2 DEF Established
    <3>4. Status' = [Status EXCEPT ![h] = "answered"]
      BY <1>1, <3>1 DEF Status, Respond, Goto, TypeOK
    <3>5. Contract!Answer(h, rsp)
      BY <1>2, <2>1, <2>3, <2>4, <3>1, <3>3, <3>4 DEF Contract!Answer, Respond, storeVars
    <3> QED BY <3>5
  <2>6. CASE UNCHANGED response /\ \E l \in PCs \ {"idle", "done"} : Goto(h, l)
    <3>1. Status' = Status
      BY <1>1, <2>1, <2>6 DEF Status, Goto, TypeOK, Pending
    <3> QED BY <1>2, <2>1, <2>3, <2>6, <3>1 DEF Contract!cvars, storeVars
  <2> QED BY <2>1, <2>5, <2>6
<1> QED BY <1>3, <1>4

\* The server refines the contract: its initial states are the contract's,
\* and each of its steps is a step of the contract or invisible to it.
THEOREM ServerRefinesContract == WSpec => ImplementsContract
<1>1. WInit => Contract!CInit
  BY DEF WInit, Init, Contract!CInit, Status
<1>2. IInv /\ IInv' /\ [WNext]_wvars => [Contract!CNext]_(Contract!cvars)
  <2> SUFFICES ASSUME IInv, IInv', [WNext]_wvars
               PROVE  Contract!CNext \/ UNCHANGED Contract!cvars
    OBVIOUS
  <2>1. CASE UNCHANGED wvars
    BY <2>1 DEF wvars, Contract!cvars, Status
  <2>2. CASE WNext
    BY <2>2, ReceiveRefines, StepRefines, StoreWriteRefines DEF WNext, Contract!CNext
  <2> QED BY <2>1, <2>2
<1> QED BY <1>1, <1>2, Invariance, PTL DEF WSpec, ImplementsContract, Contract!CSafety

=============================================================================
