-------------------------- MODULE SecureInference --------------------------
(***************************************************************************)
(* The controllers and the server together: on each replica, the store     *)
(* that Reconciler's workers write is the one ExtAuthz's handlers read.    *)
(* The server accepts calls as soon as its process is up, ready or not; a  *)
(* call in progress when its process ends is never answered.               *)
(***************************************************************************)
EXTENDS Reconciler

CONSTANTS
  Handlers, Host,   \* goroutines running Check, and the replica of each
  CheckRequests, PublicKey, Now, SelectorEnabled, AlwaysActive,
  Scores, Threshold, NaN, NotAString, NotAnObject

ASSUME HostAssumption == Host \in [Handlers -> Replicas]

VARIABLES
  pc, request, user, model, adapters, response,
  gone              \* history: of the objects a call is about, the kinds of
                    \* which there was none at any instant since it arrived

handlerVars == <<pc, request, user, model, adapters, response>>
sysVars == <<vars, handlerVars, gone>>

SpecsOfKind(k) ==
  {s \in UNION {SpecsOf[n] : n \in {m \in Names : KindOf[m] = k}} : ValidId(s)}

\* The server of replica r, over its store.
Server(r) == INSTANCE ExtAuthz WITH
  users <- store[r]["User"], models <- store[r]["Model"],
  UserIds <- Ids, ModelIds <- Ids,
  UserSpecs <- SpecsOfKind("User"), ModelSpecs <- SpecsOfKind("Model")

-----------------------------------------------------------------------------
(* History *)

HasObject(k, id) ==
  \E n \in Names : KindOf[n] = k /\ api[n] # None /\ api[n].spec.id = id

\* The kinds of the objects call rq of handler h depends on that do not exist.
Missing(h, rq) ==
  (IF HasObject("User", Server(Host[h])!UserID(rq)) THEN {} ELSE {"User"})
  \cup
  (IF \/ Server(Host[h])!IR(rq).Type = Server(Host[h])!RequestTypeListModels
      \/ HasObject("Model", Server(Host[h])!IR(rq).ModelID) THEN {} ELSE {"Model"})

-----------------------------------------------------------------------------
SInit ==
  /\ Init
  /\ \A r \in Replicas : Server(r)!Init
  /\ gone = [h \in Handlers |-> {}]

\* A local of the handlers; lost, it is v, where the process has ended.
Lost(var, v) == [h \in Handlers |-> IF Host[h] \in up \ up' THEN v ELSE var[h]]

\* A step of the cluster, of a worker or of a process.
ControllerStep ==
  /\ Next
  /\ pc' = Lost(pc, "idle")
  /\ request' = Lost(request, None)
  /\ user' = Lost(user, None)
  /\ model' = Lost(model, None)
  /\ adapters' = Lost(adapters, {})
  /\ response' = Lost(response, None)
  /\ gone' = [h \in Handlers |-> IF request'[h] = None THEN {}
                                 ELSE gone[h] \cap Missing(h, request[h])']

Arrive(h, rq) ==
  /\ Host[h] \in up
  /\ UNCHANGED vars
  /\ Server(Host[h])!Receive(h, rq)
  /\ gone' = [gone EXCEPT ![h] = Missing(h, rq)]

CheckStep(h) ==
  /\ UNCHANGED vars
  /\ Server(Host[h])!Step(h)
  /\ gone' = [gone EXCEPT ![h] = IF request'[h] = None THEN {} ELSE @]

SNext ==
  \/ ControllerStep
  \/ \E h \in Handlers :
       \/ \E rq \in CheckRequests : Arrive(h, rq)
       \/ CheckStep(h)

SSpec == SInit /\ [][SNext]_sysVars

-----------------------------------------------------------------------------
(* Properties *)

STypeOK ==
  /\ TypeOK
  /\ \A r \in Replicas : Server(r)!TypeOK
  /\ gone \in [Handlers -> SUBSET Kinds]

\* Once the User object of the caller, or the Model object of the model it
\* asks for, is gone from the API server, no call that arrives is allowed,
\* whatever the watch, the queue, the retries and the crashes do to the store
\* in the meantime, and also when two objects have claimed the same id
\* (Reconcile's finalizer, and the lookups of Check).
RevokedIsRefused ==
  \A h \in Handlers :
    pc[h] = "done" /\ gone[h] # {} => response[h].result # "allowed"

\* What the server of replica r has: its store and the locals of its calls.
Hosted(r) ==
  <<store[r], [h \in {g \in Handlers : Host[g] = r} |->
                 <<pc[h], request[h], user[h], model[h], adapters[h], response[h]>>]>>

\* As long as a process lives, all that happens to its store and to its calls
\* is a step of the server as module ExtAuthz describes it: the controllers
\* only ever change the store by one SyncUser, DeleteUser, SyncModel or
\* DeleteModel at a time, with specs of the right kind, and neither they nor
\* another replica touch a call in progress.  So what holds of every behaviour
\* of ExtAuthz holds of every replica from its start to its crash
\* (Reconcile's calls of the store; main.go: one store per process).
ServersAreExtAuthz ==
  [][\A r \in Replicas :
       r \notin up \ up' => Server(r)!Next \/ UNCHANGED Hosted(r)]_sysVars

=============================================================================
