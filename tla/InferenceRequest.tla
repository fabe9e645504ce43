--------------------------- MODULE InferenceRequest ---------------------------
(***************************************************************************)
(* The internal representation of an Envoy CheckRequest.                   *)
(*                                                                         *)
(* A raw request is a record                                               *)
(*   path           the :path header, or None when it is missing           *)
(*   authorization  the authorization header (module JWTAuth), or None     *)
(*   adapterHeader  whether x-adapter-selection is present and "true"      *)
(*   body           None when the body is not JSON, else a record of the   *)
(*                  fields the parser looks at: model and prompt are a     *)
(*                  string or NotAString (missing, or of another JSON      *)
(*                  type), messages a sequence whose entries are records   *)
(*                  of role and content or NotAnObject.                    *)
(***************************************************************************)
EXTENDS Nil, Sequences, Integers, FiniteSetsExt

CONSTANTS NotAString, NotAnObject

pathCompletions     == "/v1/completions"
pathChatCompletions == "/v1/chat/completions"
pathModels          == "/v1/models"

RequestTypeCompletion     == "completion"
RequestTypeChatCompletion == "chat_completion"
RequestTypeListModels     == "list_models"
RequestTypeUnknown        == "unknown"

\* x, _ := v.(string): the empty string unless v is a string.
StringOrEmpty(v) == IF v = NotAString THEN "" ELSE v

\* The type is decided by an exact match on the path.
RequestType(path) ==
  CASE path = pathCompletions     -> RequestTypeCompletion
    [] path = pathChatCompletions -> RequestTypeChatCompletion
    [] path = pathModels          -> RequestTypeListModels
    [] OTHER                      -> RequestTypeUnknown

HasBody(type) == type \in {RequestTypeCompletion, RequestTypeChatCompletion}

\* Entries of "messages" that are not objects are skipped; a missing or
\* non-string role or content becomes the empty string.
ParseMessages(messages) ==
  LET objects == SelectSeq(messages, LAMBDA m : m # NotAnObject)
  IN  [i \in DOMAIN objects |-> [Role    |-> StringOrEmpty(objects[i].role),
                                 Content |-> StringOrEmpty(objects[i].content)]]

\* ParseCheckRequest fails on a missing path and, on the paths that carry a
\* body, on a body that is not JSON.
ParseFails(rq) ==
  \/ rq.path = None
  \/ HasBody(RequestType(rq.path)) /\ rq.body = None

\* The parsed request; defined when ParseFails(rq) is false.
ParseCheckRequest(rq) ==
  LET type == RequestType(rq.path)
  IN  [Type     |-> type,
       ModelID  |-> IF HasBody(type) THEN StringOrEmpty(rq.body.model) ELSE "",
       Prompt   |-> IF type = RequestTypeCompletion
                      THEN StringOrEmpty(rq.body.prompt) ELSE "",
       Messages |-> IF type = RequestTypeChatCompletion
                      THEN ParseMessages(rq.body.messages) ELSE << >>,
       Header   |-> rq.adapterHeader]

\* The prompt of a completion, or the content of the last message whose
\* role is "user"; the empty string when there is none.
PromptText(ir) ==
  LET fromUser == {i \in DOMAIN ir.Messages : ir.Messages[i].Role = "user"}
  IN  CASE ir.Type = RequestTypeCompletion -> ir.Prompt
        [] ir.Type = RequestTypeChatCompletion /\ fromUser # {} ->
             ir.Messages[Max(fromUser)].Content
        [] OTHER -> ""

=============================================================================
