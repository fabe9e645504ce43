------------------------------ MODULE CheckAPI ------------------------------
(***************************************************************************)
(* What a call of Check is about: the specs the store may hold, the        *)
(* requests Envoy may send, the responses Check may build, and the parts   *)
(* of the decision that depend on the request and the configuration only.  *)
(* Shared by the server (ExtAuthz) and by the contract it is shown to      *)
(* implement (AuthzContract).                                              *)
(***************************************************************************)
EXTENDS AccessPolicy, MemoryStore, InferenceRequest, JWTAuth

CONSTANTS
  Handlers,         \* goroutines running Check
  UserIds, ModelIds,
  UserSpecs,        \* the specs the reconcilers may write
  ModelSpecs,
  CheckRequests,    \* raw requests, see InferenceRequest and JWTAuth
  PublicKey,        \* the key the authenticator loaded when it started
  Now,              \* the time; the tokens' expiries lie on both sides of it
  SelectorEnabled,  \* s.selector != nil
  AlwaysActive,     \* s.alwaysActiveAdapterSelection
  Scores,           \* similarity scores the sidecar may return
  Threshold,        \* s.threshold of the semantic selector, a score or NaN
  NaN               \* what strconv.ParseFloat makes of "NaN"

\* The shape of a user spec.
IsUserSpec(u) == u.id \in UserIds

\* The shape of a model spec.
IsModelSpec(m) == m.id \in ModelIds

ASSUME SpecsAssumption ==
  /\ None \notin UserSpecs /\ \A u \in UserSpecs : IsUserSpec(u)
  /\ None \notin ModelSpecs /\ \A m \in ModelSpecs : IsModelSpec(m)
  /\ "" \notin UserIds /\ "" \notin ModelIds
  /\ None \notin UserIds /\ None \notin ModelIds

ASSUME RequestsAssumption == None \notin CheckRequests

-----------------------------------------------------------------------------
(* Responses *)

allow == [result |-> "allowed", rewrite |-> None, reason |-> "none"]

\* The rewrite header is added only for a non-empty model id.
allowWithModelRewrite(loraModelID) ==
  [result  |-> "allowed",
   rewrite |-> IF loraModelID # "" THEN loraModelID ELSE None,
   reason  |-> "none"]

allowWithoutClaims ==
  [result |-> "not-applicable", rewrite |-> None, reason |-> "none"]

deny(reason) == [result |-> "denied", rewrite |-> None, reason |-> reason]

Reasons == {"none", "parse", "authentication", "user not registered",
            "missing model", "user not found", "model not found",
            "policy evaluation error", "access denied by policy"}

Responses == [result  : {"allowed", "not-applicable", "denied"},
              rewrite : ModelIds \cup {None},
              reason  : Reasons]

-----------------------------------------------------------------------------
(* The request, as Check sees it *)

\* ir and result.UserID: pure functions of the request.
IR(rq) == ParseCheckRequest(rq)
UserID(rq) == Authenticate(rq.authorization, PublicKey, Now)

\* The conditions under which Check looks for an adapter once access to
\* model m has been granted.
ShouldSelect(rq, m) ==
  /\ SelectorEnabled
  /\ m.type = ModelTypeBase
  /\ AlwaysActive \/ IR(rq).Header
  /\ PromptText(IR(rq)) # ""

=============================================================================
