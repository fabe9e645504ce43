---------------------------- MODULE AccessPolicy ----------------------------
(***************************************************************************)
(* The policy engine: the Rego policy access.rego and the two queries the  *)
(* OPA engine prepares over it.  Evaluation is a pure function of the      *)
(* specs it is given; the engine keeps no state (opa.go: "It holds only    *)
(* the OPA engine - no store").                                            *)
(*                                                                         *)
(* A user's attributes are a function from attribute names to values, a    *)
(* model's access policy a function from attribute names to sets of        *)
(* allowed values; both are partial maps, so their DOMAINs vary.           *)
(***************************************************************************)

\* For every attribute the policy names, the user has a value for it and
\* the value is one of the allowed ones.  An attribute the user lacks makes
\* the body of "every" undefined, which the else branch turns into false.
is_user_allowed_check(user, model) ==
  \A n \in DOMAIN model.userAttributes :
    /\ n \in DOMAIN user.attributes
    /\ \E allowed \in model.userAttributes[n] : allowed = user.attributes[n]

\* Query data.auth.is_user_allowed.
CheckAccess(user, model) == is_user_allowed_check(user, model)

\* Query data.auth.allowed_models: the ids of the models that pass.
allowed_models(user, ms) ==
  {m.id : m \in {x \in ms : is_user_allowed_check(user, x)}}

\* Mutant: the filter is forgotten.
GetAllowedModels_unfiltered(user, ms) == ms

\* The engine maps the allowed ids back to the models it was given.
GetAllowedModels(user, ms) == {m \in ms : m.id \in allowed_models(user, ms)}

=============================================================================
