---------------------------- MODULE ExtAuthzWindow ----------------------------
(***************************************************************************)
(* ExtAuthz with the history the contract talks about: for every call in   *)
(* progress, what the store has held since the call arrived.  The variable *)
(* window only records; no step of the server reads it.                    *)
(***************************************************************************)
EXTENDS ExtAuthz, AnswerRules

VARIABLE window

wvars == <<users, models, pc, request, user, model, adapters, response, window>>

Pending(h) == pc[h] \notin {"idle", "done"}

\* The server's program counters, mapped to the contract's three phases.
Status == [h \in Handlers |-> CASE pc[h] = "idle" -> "idle"
                                [] pc[h] = "done" -> "answered"
                                [] OTHER          -> "pending"]

\* The contract; every other variable stands for itself.
Contract == INSTANCE AuthzContract WITH
  UserStores  <- [UserIds -> UserSpecs \cup {None}],
  ModelStores <- [ModelIds -> ModelSpecs \cup {None}],
  EmptyStores <- <<EmptyMap(UserIds), EmptyMap(ModelIds)>>,
  status      <- Status

WReceive(h, rq) ==
  /\ Receive(h, rq)
  /\ window' = [window EXCEPT ![h] =
                  Observe(EmptyWindow, rq, users, models)]

WStep(h) ==
  /\ Step(h)
  /\ window' = [window EXCEPT ![h] =
                  IF pc'[h] = "idle" THEN EmptyWindow ELSE @]

WStoreWrite ==
  /\ StoreWrite
  /\ window' = [h \in Handlers |->
                  IF Pending(h)
                    THEN Observe(window[h], request[h], users', models')
                    ELSE window[h]]

WInit == Init /\ window = [h \in Handlers |-> EmptyWindow]

WNext ==
  \/ \E h \in Handlers :
       \/ \E rq \in CheckRequests : WReceive(h, rq)
       \/ WStep(h)
  \/ WStoreWrite

WSpec == WInit /\ [][WNext]_wvars /\ \A h \in Handlers : WF_wvars(WStep(h))

-----------------------------------------------------------------------------
(* Properties *)

\* Every answer of Check, and every reason it gives for a denial, is one the
\* store justified at some instants between the call's arrival and its
\* answer, although Check looks the user and the models up in separate
\* critical sections of the store (server.go: UserExists, GetUser, GetModel,
\* ListModelsByType) and trusts a sidecar it does not control to name the
\* adapter.
AnswersJustified ==
  \A h \in Handlers :
    pc[h] = "done" => Permits(request[h], window[h], response[h])

\* A caller whose entry is missing from the store during the whole call is
\* never allowed to list models or to use one, whatever was deleted or added
\* meanwhile (server.go, Check: the UserExists test and the second lookup).
StrangersAreRefused ==
  \A h \in Handlers :
    /\ pc[h] = "done"
    /\ window[h].users = {None}
    => response[h].result # "allowed"

\* Whoever is let in to list or use models came with a token that the admin
\* key signed, that names the admin as its issuer and has not expired, and
\* the user it names was registered at some instant of the call
\* (jwt.go: Authenticate, keys.go: ValidateJWTWithKey, server.go: Check).
AllowedIsAuthenticated ==
  \A h \in Handlers :
    /\ pc[h] = "done"
    /\ response[h].result = "allowed"
    => LET rq == request[h]
           token == rq.authorization.token
       IN  /\ rq.path \in {pathCompletions, pathChatCompletions, pathModels}
           /\ rq.authorization # None
           /\ token.method = "RSA" /\ token.key = PublicKey
           /\ token.issuer = ServerName
           /\ token.exp # None => Now < token.exp
           /\ \E u \in window[h].users \ {None} : u.id = token.username

\* A caller who is entitled to the model during the whole call is let
\* through, however the store's other entries change under the call and
\* whatever becomes of adapter selection; only a failed policy evaluation
\* can refuse it (server.go, Check: every deny on the path to the decision).
StableAccessIsGranted ==
  \A h \in Handlers :
    /\ pc[h] = "done"
    /\ StableAccess(request[h], window[h])
    /\ response[h] # deny("policy evaluation error")
    => response[h].result = "allowed"

\* A step that answers a call whose base model was granted allows it.
AllowsOnceGranted ==
  \A h \in Handlers :
    /\ pc[h] \in {"listLoras", "pick"}
    /\ pc'[h] = "done"
    => response'[h].result = "allowed"

\* Adapter selection is best effort: once the policy has granted the base
\* model, no failure of the store listing, of the engine or of the sidecar
\* turns the call into a denial (server.go, Check: the "err == nil" and
\* "matched" guards fall through to allow).
SelectionNeverDenies == [][AllowsOnceGranted]_wvars

\* The server implements the contract: each of its steps is a step of
\* AuthzContract or invisible to it.  Check has no state it shares between
\* calls, so concurrent calls do not disturb each other's answers.
ImplementsContract == Contract!CSafety

\* Every call of Check returns, whatever happens to the store meanwhile and
\* however the sidecar fails (selector.go: the HTTP client's timeout).
EveryCallAnswered == Contract!CAnswered

=============================================================================
