------------------------- MODULE MCSecureInference -------------------------
(***************************************************************************)
(* One replica and one call at a time; a user, a second object that claims *)
(* the same id with other attributes, and a base model.                    *)
(***************************************************************************)
EXTENDS SecureInference, TLC

UserSpec(dept) == [id |-> "a", attributes |-> [dept |-> dept]]
BaseSpec == [id |-> "b", type |-> ModelTypeBase, baseModelId |-> "",
             userAttributes |-> [dept |-> {"hr"}], descriptions |-> {}]

MCKindOf == "alice" :> "User" @@ "twin" :> "User" @@ "base" :> "Model"
MCNames == DOMAIN MCKindOf
MCSpecsOf == "alice" :> {UserSpec("hr")} @@ "twin" :> {UserSpec("it")} @@ "base" :> {BaseSpec}

MCHost == [h \in Handlers |-> CHOOSE r \in Replicas : TRUE]

Request(path, body) ==
  [path |-> path, adapterHeader |-> FALSE, body |-> body,
   authorization |-> [bearer |-> TRUE,
                      token  |-> [method |-> "RSA", key |-> "K", issuer |-> "llm-d-admin",
                                  exp |-> 2, username |-> "a"]]]

MCRequests ==
  {Request("/v1/completions", [model |-> "b", prompt |-> "p", messages |-> << >>]),
   Request("/v1/models", None)}

=============================================================================
