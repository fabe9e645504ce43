----------------------------- MODULE AnswerRules -----------------------------
(***************************************************************************)
(* Which answers to a CheckRequest are right.                              *)
(*                                                                         *)
(* A call has a window: what the store held for the caller and for the     *)
(* models at the instants between the call's arrival and its answer.  An   *)
(* answer, and the reason given for a denial, must be justified by that    *)
(* window.  In particular a user that is absent during the whole call is   *)
(* never let in, and one that was present during the whole call, with      *)
(* access to a model that was too, is never refused (except by a failure   *)
(* of the policy engine).                                                  *)
(*                                                                         *)
(* It is not asked that one instant justifies the answer: Check looks up   *)
(* the user and then the model, so it may combine a user with a model that *)
(* came later.                                                             *)
(***************************************************************************)
EXTENDS CheckAPI

\* users : the values (specs, or None) the caller's entry has had;
\* pairs : <<u, m>> for a spec m some model's entry has had, and a spec u
\*         the caller's entry had then or earlier;
\* absent: the model ids that have had no entry at some instant.
EmptyWindow == [users |-> {}, pairs |-> {}, absent |-> {}]

\* The window after one more look at the store.
Observe(w, rq, us, ms) ==
  LET seen == w.users \cup {GetUser(us, UserID(rq))} IN
  [users  |-> seen,
   pairs  |-> w.pairs \cup ((seen \ {None}) \X ({ms[i] : i \in ModelIds} \ {None})),
   absent |-> w.absent \cup {i \in ModelIds : ms[i] = None}]

-----------------------------------------------------------------------------
(* Which answers a window justifies *)

SeenRegistered(w) == w.users \ {None} # {}
SeenUnregistered(w) == None \in w.users

\* Access to the requested model, granted to user spec u.
Granted(rq, w, u) ==
  \E p \in w.pairs : /\ p[1] = u
                     /\ p[2].id = IR(rq).ModelID
                     /\ CheckAccess(u, p[2])

\* As above, for a base model for which an adapter may be selected.
GrantedSelectable(rq, w, u) ==
  \E p \in w.pairs : /\ p[1] = u
                     /\ p[2].id = IR(rq).ModelID
                     /\ CheckAccess(u, p[2])
                     /\ ShouldSelect(rq, p[2])

Refused(rq, w) ==
  \E p \in w.pairs : /\ p[2].id = IR(rq).ModelID
                     /\ ~CheckAccess(p[1], p[2])

\* The adapter extends the requested model and the same user spec that was
\* granted the base model has access to the adapter too.
RewriteEntitled(rq, w, id) ==
  \E p \in w.pairs : /\ p[2].id = id
                     /\ p[2].type = ModelTypeLora
                     /\ p[2].baseModelId = IR(rq).ModelID
                     /\ CheckAccess(p[1], p[2])
                     /\ GrantedSelectable(rq, w, p[1])

\* Calls Check protects, and those whose caller it can identify.
Protected(rq) == ~ParseFails(rq) /\ IR(rq).Type # RequestTypeUnknown
Identified(rq) == Protected(rq) /\ UserID(rq) # None

\* Identified calls that ask for a model.
ForModel(rq) ==
  /\ Identified(rq)
  /\ IR(rq).Type # RequestTypeListModels
  /\ IR(rq).ModelID # ""

PermitsForModel(rq, w, rsp) ==
  \/ rsp = deny("user not found") /\ SeenRegistered(w) /\ SeenUnregistered(w)
  \/ /\ rsp = deny("model not found")
     /\ SeenRegistered(w)
     /\ IR(rq).ModelID \in w.absent \/ IR(rq).ModelID \notin ModelIds
  \/ rsp = deny("access denied by policy") /\ Refused(rq, w)
  \/ rsp = deny("policy evaluation error") /\ SeenRegistered(w)
  \/ rsp = allow /\ \E u \in w.users : Granted(rq, w, u)
  \/ \E id \in ModelIds :
       rsp = allowWithModelRewrite(id) /\ RewriteEntitled(rq, w, id)

Permits(rq, w, rsp) ==
  \/ ParseFails(rq) /\ rsp = deny("parse")
  \/ ~ParseFails(rq) /\ ~Protected(rq) /\ rsp = allowWithoutClaims
  \/ Protected(rq) /\ ~Identified(rq) /\ rsp = deny("authentication")
  \/ Identified(rq) /\ rsp = deny("user not registered") /\ SeenUnregistered(w)
  \/ /\ Identified(rq) /\ IR(rq).Type = RequestTypeListModels
     /\ rsp = allow /\ SeenRegistered(w)
  \/ /\ Identified(rq) /\ IR(rq).Type # RequestTypeListModels /\ IR(rq).ModelID = ""
     /\ rsp = deny("missing model") /\ SeenRegistered(w)
  \/ ForModel(rq) /\ PermitsForModel(rq, w, rsp)

\* The caller was registered during the whole call, so was the requested
\* model, and every spec the user had goes with every spec the model had.
StableAccess(rq, w) ==
  /\ ForModel(rq)
  /\ None \notin w.users
  /\ IR(rq).ModelID \in ModelIds \ w.absent
  /\ ~Refused(rq, w)

=============================================================================
