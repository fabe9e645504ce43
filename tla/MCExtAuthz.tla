----------------------------- MODULE MCExtAuthz -----------------------------
(***************************************************************************)
(* Small instances of ExtAuthzWindow: one user in two variants, a base     *)
(* model and adapters.  MCExtAuthz.cfg lets the specs change under a call  *)
(* for a model; MCExtAuthzRequests.cfg sends every kind of request to a    *)
(* store whose entries only come and go.                                   *)
(***************************************************************************)
EXTENDS ExtAuthzWindow

MCUserIds == {"alice"}
HR == [id |-> "alice", attributes |-> [dept |-> "hr"]]
IT == [id |-> "alice", attributes |-> [dept |-> "it"]]

Model(id, type, base, depts, descriptions) ==
  [id |-> id, type |-> type, baseModelId |-> base,
   userAttributes |-> [dept |-> depts], descriptions |-> descriptions]

\* IT may use the adapter and not the base model; a second version of the
\* adapter moves it out of the base model's reach.
MCModelIds == {"base", "lora"}
RaceModelSpecs ==
  {Model("base", ModelTypeBase, "", {"hr"}, {}),
   Model("lora", ModelTypeLora, "base", {"it", "hr"}, {"d"}),
   Model("lora", ModelTypeLora, "base", {"it"}, {"d"})}
RaceUserSpecs == {HR, IT}

\* The adapter with and without descriptions, and as one of another base
\* model that the user may not use.
KindModelSpecs ==
  {Model("base", ModelTypeBase, "", {"hr"}, {}),
   Model("lora", ModelTypeLora, "base", {"hr"}, {"d"}),
   Model("lora", ModelTypeLora, "base", {"hr"}, {}),
   Model("lora", ModelTypeLora, "elsewhere", {"it"}, {"d"})}
KindUserSpecs == {HR}

Token(key, issuer, exp, username) ==
  [bearer |-> TRUE,
   token  |-> [method |-> "RSA", key |-> key, issuer |-> issuer,
               exp |-> exp, username |-> username]]

Good == Token("K", ServerName, 2, "alice")

Body(m, prompt, messages) ==
  [model |-> m, prompt |-> prompt, messages |-> messages]

Message(role, content) == [role |-> role, content |-> content]

Request(path, authorization, adapterHeader, body) ==
  [path |-> path, authorization |-> authorization,
   adapterHeader |-> adapterHeader, body |-> body]

Complete(authorization, adapterHeader, m, prompt) ==
  Request(pathCompletions, authorization, adapterHeader, Body(m, prompt, << >>))

Chat(messages) == Request(pathChatCompletions, Good, TRUE, Body("base", NotAString, messages))

\* At least one request for every branch of the parser, the authenticator
\* and the conditions for adapter selection.
AllRequests ==
  { Request(None, Good, FALSE, None),
    Request("/health", None, FALSE, None),
    Request(pathModels, Good, FALSE, None),
    Request(pathModels, None, FALSE, None),
    Request(pathCompletions, Good, TRUE, None),
    Complete([Good EXCEPT !.bearer = FALSE], TRUE, "base", "p"),
    Complete([Good EXCEPT !.token.method = "HMAC"], TRUE, "base", "p"),
    Complete(Token("other", ServerName, 2, "alice"), TRUE, "base", "p"),
    Complete(Token("K", "someone", 2, "alice"), TRUE, "base", "p"),
    Complete(Token("K", ServerName, 1, "alice"), TRUE, "base", "p"),
    Complete(Token("K", ServerName, None, "alice"), TRUE, "base", "p"),
    Complete(Token("K", ServerName, 2, "mallory"), TRUE, "base", "p"),
    Complete(Good, FALSE, "base", "p"),
    Complete(Good, TRUE, "base", NotAString),
    Complete(Good, TRUE, NotAString, "p"),
    Complete(Good, TRUE, "gone", "p"),
    Complete(Good, TRUE, "lora", "p"),
    Chat(<<Message("user", "p"), NotAnObject, Message("system", "s")>>),
    Chat(<<Message("system", "s"), Message("user", NotAString)>>),
    Chat(<< >>) }

RaceRequests == {Complete(Good, TRUE, "base", "p"), Request(pathModels, Good, FALSE, None)}

=============================================================================
