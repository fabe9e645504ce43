----------------------------- MODULE MCSidecar -----------------------------
(***************************************************************************)
(* Two threads of the sidecar and four texts, some of them both prompts    *)
(* and descriptions.  Candidates share a description, tie, have none, or   *)
(* point away from the prompt (cosine -1); the model maps one text to the  *)
(* null vector.                                                            *)
(***************************************************************************)
EXTENDS Sidecar

MCTexts == {"write code", "math", "far", "blank"}

MCNorm == [t \in MCTexts |-> CASE t = "write code" -> 3
                               [] t = "math" -> 2
                               [] t = "far" -> 1
                               [] t = "blank" -> 0]

MCOne == 10

MCCosine ==
  [t \in MCTexts |-> [u \in MCTexts |->
     IF t = u THEN 10 ELSE IF "far" \in {t, u} THEN -10 ELSE 4]]

Candidate(id, descs) == [model_id |-> id, descriptions |-> descs]

MCPickRequests ==
  { [prompt |-> "math", candidates |-> <<>>],
    [prompt |-> "math",
     candidates |-> <<Candidate("coder", <<"write code">>),
                      Candidate("solver", <<"write code", "math">>),
                      Candidate("empty", <<>>)>>],
    [prompt |-> "write code",
     candidates |-> <<Candidate("none", <<>>),
                      Candidate("first", <<"math", "far">>),
                      Candidate("tied", <<"math">>)>>],
    [prompt |-> "far", candidates |-> <<Candidate("away", <<"math">>)>>],
    [prompt |-> "blank", candidates |-> <<Candidate("away", <<"far">>)>>] }

=============================================================================
