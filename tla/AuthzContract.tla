---------------------------- MODULE AuthzContract ----------------------------
(***************************************************************************)
(* What the ext-auth server promises about its answers, without saying     *)
(* when it looks at the store: a call arrives, the store changes any       *)
(* number of times, and the call is answered in a way its window           *)
(* justifies (module AnswerRules).                                         *)
(***************************************************************************)
CONSTANTS
  Handlers,             \* calls that may be in progress at a time
  CheckRequests, Responses,
  UserStores,           \* the contents the two maps of the store may have
  ModelStores,
  EmptyStores,          \* << users, models >> before the first write
  None,
  EmptyWindow,          \* see AnswerRules
  Observe(_, _, _, _),
  Permits(_, _, _)

VARIABLES
  users, models,    \* the store
  status,           \* "idle", "pending" or "answered", per handler
  request,          \* the call's request
  window,           \* what the store held since the call arrived
  response          \* the answer

cvars == <<users, models, status, request, window, response>>

-----------------------------------------------------------------------------
CInit ==
  /\ <<users, models>> = EmptyStores
  /\ status = [h \in Handlers |-> "idle"]
  /\ request = [h \in Handlers |-> None]
  /\ window = [h \in Handlers |-> EmptyWindow]
  /\ response = [h \in Handlers |-> None]

Begin(h, rq) ==
  /\ status[h] = "idle"
  /\ status' = [status EXCEPT ![h] = "pending"]
  /\ request' = [request EXCEPT ![h] = rq]
  /\ window' = [window EXCEPT ![h] = Observe(EmptyWindow, rq, users, models)]
  /\ UNCHANGED <<users, models, response>>

Answer(h, rsp) ==
  /\ status[h] = "pending"
  /\ status' = [status EXCEPT ![h] = "answered"]
  /\ response' = [response EXCEPT ![h] = rsp]
  /\ Permits(request[h], window[h], rsp)
  /\ UNCHANGED <<users, models, request, window>>

Finish(h) ==
  /\ status[h] = "answered"
  /\ status' = [status EXCEPT ![h] = "idle"]
  /\ request' = [request EXCEPT ![h] = None]
  /\ window' = [window EXCEPT ![h] = EmptyWindow]
  /\ response' = [response EXCEPT ![h] = None]
  /\ UNCHANGED <<users, models>>

\* The store changes in any way; every call in progress sees it.
StoreChange ==
  /\ users' \in UserStores
  /\ models' \in ModelStores
  /\ window' = [h \in Handlers |->
                  IF status[h] = "pending"
                    THEN Observe(window[h], request[h], users', models')
                    ELSE window[h]]
  /\ UNCHANGED <<status, request, response>>

CNext ==
  \/ \E h \in Handlers :
       \/ \E rq \in CheckRequests : Begin(h, rq)
       \/ \E rsp \in Responses : Answer(h, rsp)
       \/ Finish(h)
  \/ StoreChange

\* Every call is answered.
CAnswered == \A h \in Handlers : (status[h] = "pending") ~> (status[h] = "answered")

CSafety == CInit /\ [][CNext]_cvars

CSpec == CSafety /\ CAnswered

=============================================================================
