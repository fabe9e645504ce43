------------------------------ MODULE Sidecar ------------------------------
(***************************************************************************)
(* The adapter-selection sidecar: POST /pick, served by a pool of threads  *)
(* that share one embedding cache.  A thread gives up the interpreter lock *)
(* between any two accesses of the cache, so each access is a step of its  *)
(* own; the reads at the end of _embed are one step, because they commute  *)
(* with the writes of the others (nothing is ever removed).                *)
(*                                                                         *)
(* The embedding model is external: it maps a text to a vector, of which   *)
(* the length and the angles to other vectors matter.  Cosines and scores  *)
(* are counted in units of 1/One.                                          *)
(***************************************************************************)
EXTENDS Nil, Integers, Sequences, FiniteSets

CONSTANTS
  Threads,        \* FastAPI's thread pool
  Texts,          \* prompts and descriptions
  PickRequests,   \* [prompt, candidates : Seq([model_id, descriptions])]
  Norm,           \* Norm[t]: length of the model's embedding of t
  Cosine,         \* Cosine[t][u]: cosine of the embeddings of t and u
  One             \* the score 1.0

ASSUME TextsAssumption == Norm \in [Texts -> Nat]

ASSUME CosinesAssumption ==
  One \in Nat /\ Cosine \in [Texts -> [Texts -> -One..One]]

ASSUME PickRequestsAssumption ==
  \A r \in PickRequests :
    /\ r.prompt \in Texts
    /\ r.candidates \in Seq([model_id : STRING, descriptions : Seq(Texts)])

VARIABLES
  cache,        \* _embedding_cache
  pc,           \* what the thread does next
  req,          \* the PickRequest
  cand,         \* candidate whose descriptions are embedded; 0: the prompt
  i,            \* position in the loops of _embed
  uncached,     \* uncached_texts
  fresh,        \* new_embeddings
  prompt_emb,
  best,         \* best_model_id and best_score
  response      \* the PickResponse, or None for a 500

locals == <<req, cand, i, uncached, fresh, prompt_emb, best, response>>
vars == <<cache, pc, locals>>

-----------------------------------------------------------------------------
(* Embeddings *)

Embeddings == [text : Texts, length : Nat]

embed(t) == [text |-> t, length |-> Norm[t]]

normalize(emb) == IF emb.length > 0 THEN [emb EXCEPT !.length = 1] ELSE emb

dot(a, b) == a.length * b.length * Cosine[a.text][b.text]

\* np.max over the similarities of non-empty descriptions.
max_sim(descs, embeddings, pe) ==
  LET sims == {dot(embeddings[descs[j]], pe) : j \in DOMAIN descs}
  IN  CHOOSE s \in sims : \A z \in sims : z <= s

NoMatch == [model_id |-> "", score |-> -One]

\* The argument of _embed in progress in thread t.
texts(t) == IF cand[t] = 0 THEN <<req[t].prompt>>
                           ELSE req[t].candidates[cand[t]].descriptions

-----------------------------------------------------------------------------
(* Steps *)

Init ==
  /\ cache = [x \in {} |-> None]
  /\ pc = [t \in Threads |-> "idle"]
  /\ req = [t \in Threads |-> None]
  /\ cand = [t \in Threads |-> 0]
  /\ i = [t \in Threads |-> 1]
  /\ uncached = [t \in Threads |-> <<>>]
  /\ fresh = [t \in Threads |-> <<>>]
  /\ prompt_emb = [t \in Threads |-> None]
  /\ best = [t \in Threads |-> NoMatch]
  /\ response = [t \in Threads |-> None]

\* A request arrives; without candidates it is answered at once.
Receive(t) ==
  /\ pc[t] = "idle"
  /\ \E r \in PickRequests :
       /\ req' = [req EXCEPT ![t] = r]
       /\ IF r.candidates = <<>>
            THEN /\ pc' = [pc EXCEPT ![t] = "done"]
                 /\ response' = [response EXCEPT ![t] =
                                   [model_id |-> "", score |-> 0]]
            ELSE /\ pc' = [pc EXCEPT ![t] = "scan"]
                 /\ UNCHANGED response
  /\ UNCHANGED <<cache, cand, i, uncached, fresh, prompt_emb, best>>

\* The first loop of _embed: is the next text cached?
Scan(t) ==
  /\ pc[t] = "scan"
  /\ i[t] <= Len(texts(t))
  /\ LET x == texts(t)[i[t]]
         u == IF x \in DOMAIN cache THEN uncached[t] ELSE Append(uncached[t], x)
         last == i[t] = Len(texts(t))
     IN  /\ uncached' = [uncached EXCEPT ![t] = u]
         /\ i' = [i EXCEPT ![t] = IF last THEN 1 ELSE @ + 1]
         /\ pc' = [pc EXCEPT ![t] = IF ~last THEN "scan"
                                    ELSE IF u = <<>> THEN "read" ELSE "embed"]
  /\ UNCHANGED <<cache, req, cand, fresh, prompt_emb, best, response>>

\* model.embed of the texts that were not cached when they were scanned.
Embed(t) ==
  /\ pc[t] = "embed"
  /\ fresh' = [fresh EXCEPT ![t] =
                 [j \in 1..Len(uncached[t]) |-> embed(uncached[t][j])]]
  /\ pc' = [pc EXCEPT ![t] = "store"]
  /\ UNCHANGED <<cache, req, cand, i, uncached, prompt_emb, best, response>>

\* model.embed raises: the request ends with a 500 and the cache is as it was.
EmbedRaises(t) ==
  /\ pc[t] = "embed"
  /\ pc' = [pc EXCEPT ![t] = "done"]
  /\ UNCHANGED <<cache, locals>>

Stored(x, emb) == [y \in DOMAIN cache \cup {x} |-> IF y = x THEN emb ELSE cache[y]]

\* Mutant: the new embeddings are paired with all texts, not the uncached ones.
Store_misaligned(t) ==
  /\ pc[t] = "store"
  /\ cache' = Stored(texts(t)[i[t]], normalize(fresh[t][i[t]]))
  /\ LET last == i[t] = Len(uncached[t])
     IN  /\ i' = [i EXCEPT ![t] = IF last THEN 1 ELSE @ + 1]
         /\ pc' = [pc EXCEPT ![t] = IF last THEN "read" ELSE "store"]
  /\ UNCHANGED <<req, cand, uncached, fresh, prompt_emb, best, response>>

\* Mutant: a cache bounded to two entries that drops others to make room.
Store_evicting(t) ==
  /\ pc[t] = "store"
  /\ LET full == Stored(uncached[t][i[t]], normalize(fresh[t][i[t]]))
     IN  \E keep \in SUBSET DOMAIN full :
           /\ Cardinality(keep) <= 2
           /\ uncached[t][i[t]] \in keep
           /\ cache' = [x \in keep |-> full[x]]
  /\ LET last == i[t] = Len(uncached[t])
     IN  /\ i' = [i EXCEPT ![t] = IF last THEN 1 ELSE @ + 1]
         /\ pc' = [pc EXCEPT ![t] = IF last THEN "read" ELSE "store"]
  /\ UNCHANGED <<req, cand, uncached, fresh, prompt_emb, best, response>>

\* One round of the second loop of _embed.
Store(t) ==
  /\ pc[t] = "store"
  /\ cache' = Stored(uncached[t][i[t]], normalize(fresh[t][i[t]]))
  /\ LET last == i[t] = Len(uncached[t])
     IN  /\ i' = [i EXCEPT ![t] = IF last THEN 1 ELSE @ + 1]
         /\ pc' = [pc EXCEPT ![t] = IF last THEN "read" ELSE "store"]
  /\ UNCHANGED <<req, cand, uncached, fresh, prompt_emb, best, response>>

AllCached(t) == \A j \in 1..Len(texts(t)) : texts(t)[j] \in DOMAIN cache

\* Mutant: the loop ends one candidate late.
Continue_pastEnd(t, c, b) ==
  /\ best' = [best EXCEPT ![t] = b]
  /\ cand' = [cand EXCEPT ![t] = c + 1]
  /\ uncached' = [uncached EXCEPT ![t] = <<>>]
  /\ fresh' = [fresh EXCEPT ![t] = <<>>]
  /\ pc' = [pc EXCEPT ![t] = "scan"]
  /\ UNCHANGED <<cache, req, i, response>>

\* The loop over the candidates goes on with the one after c, or ends and b
\* is returned.
Continue(t, c, b) ==
  /\ best' = [best EXCEPT ![t] = b]
  /\ cand' = [cand EXCEPT ![t] = IF c = Len(req[t].candidates) THEN c ELSE c + 1]
  /\ uncached' = [uncached EXCEPT ![t] = <<>>]
  /\ fresh' = [fresh EXCEPT ![t] = <<>>]
  /\ IF c = Len(req[t].candidates)
       THEN /\ pc' = [pc EXCEPT ![t] = "done"]
            /\ response' = [response EXCEPT ![t] = b]
       ELSE /\ pc' = [pc EXCEPT ![t] = "scan"]
            /\ UNCHANGED response
  /\ UNCHANGED <<cache, req, i>>

\* Mutant: a candidate that is as good as the best one replaces it.
Better_orEqual(t, sim) == sim >= best[t].score

Better(t, sim) == sim > best[t].score

\* The loop body once sim is known.
Compared(t, sim) ==
  IF Better(t, sim)
    THEN [model_id |-> req[t].candidates[cand[t]].model_id, score |-> sim]
    ELSE best[t]

\* The last line of _embed and what follows it.  A text that is missing from
\* the cache raises KeyError, and the request ends with a 500.
Read(t) ==
  /\ pc[t] = "read"
  /\ IF ~AllCached(t)
       THEN /\ pc' = [pc EXCEPT ![t] = "done"]
            /\ UNCHANGED <<cache, locals>>
     ELSE IF cand[t] = 0
       THEN /\ prompt_emb' = [prompt_emb EXCEPT ![t] = cache[req[t].prompt]]
            /\ Continue(t, 0, best[t])
       ELSE /\ Continue(t, cand[t],
                        Compared(t, max_sim(texts(t), cache, prompt_emb[t])))
            /\ UNCHANGED prompt_emb

\* Mutant: the loop continues with the same candidate.
SkipCandidate_again(t) ==
  /\ pc[t] = "scan" /\ texts(t) = <<>>
  /\ UNCHANGED vars

\* A candidate without descriptions is passed over.
SkipCandidate(t) ==
  /\ pc[t] = "scan" /\ texts(t) = <<>>
  /\ Continue(t, cand[t], best[t])
  /\ UNCHANGED prompt_emb

\* The response is sent, the locals go out of scope, and the thread returns
\* to the pool.
Return(t) ==
  /\ pc[t] = "done"
  /\ pc' = [pc EXCEPT ![t] = "idle"]
  /\ req' = [req EXCEPT ![t] = None]
  /\ cand' = [cand EXCEPT ![t] = 0]
  /\ i' = [i EXCEPT ![t] = 1]
  /\ uncached' = [uncached EXCEPT ![t] = <<>>]
  /\ fresh' = [fresh EXCEPT ![t] = <<>>]
  /\ prompt_emb' = [prompt_emb EXCEPT ![t] = None]
  /\ best' = [best EXCEPT ![t] = NoMatch]
  /\ response' = [response EXCEPT ![t] = None]
  /\ UNCHANGED cache

Step(t) ==
  \/ Scan(t) \/ Embed(t) \/ EmbedRaises(t) \/ Store(t)
  \/ Read(t) \/ SkipCandidate(t)

Next == \E t \in Threads : Receive(t) \/ Step(t) \/ Return(t)

Spec == Init /\ [][Next]_vars

\* Threads of the pool are scheduled, and model.embed returns or raises.
Fairness == \A t \in Threads : WF_vars(Step(t))

FairSpec == Spec /\ Fairness

-----------------------------------------------------------------------------
(* Properties *)

LoopsInBounds(t) ==
  pc[t] \notin {"idle", "done"} =>
    /\ req[t] \in PickRequests
    /\ cand[t] <= Len(req[t].candidates)
    /\ i[t] >= 1

\* Every variable has the shape the code gives it: the cache maps texts to
\* embeddings, and the positions of the loops stay within their sequences.
TypeOK ==
  /\ DOMAIN cache \subseteq Texts
  /\ pc \in [Threads -> {"idle", "scan", "embed", "store", "read", "done"}]
  /\ req \in [Threads -> PickRequests \cup {None}]
  /\ cand \in [Threads -> Nat]
  /\ i \in [Threads -> Nat]
  /\ uncached \in [Threads -> Seq(Texts)]
  /\ fresh \in [Threads -> Seq(Embeddings)]
  /\ \A t \in Threads : LoopsInBounds(t)

\* Two threads may scan, embed and store the same texts at the same time, and
\* a text found cached is read only later: when _embed reads its results
\* (selector.py:41) every text is in the cache, so no KeyError is raised.
NeverKeyError == \A t \in Threads : pc[t] = "read" => AllCached(t)

\* Whatever other threads have put there, the cache holds for a text the
\* normalized embedding of that text and of no other (selector.py:36-39).
CacheIsFaithful == \A x \in DOMAIN cache : cache[x] = normalize(embed(x))

\* The similarity of candidate c of request r, computed without the cache.
Similarity(r, c) ==
  max_sim(r.candidates[c].descriptions,
          [x \in Texts |-> normalize(embed(x))], normalize(embed(r.prompt)))

Described(r) == {c \in DOMAIN r.candidates : r.candidates[c].descriptions # <<>>}

\* The first of the candidates with the greatest similarity, if that is
\* greater than -1.
IsWinner(r, c) ==
  /\ c \in Described(r)
  /\ Similarity(r, c) > -One
  /\ \A d \in Described(r) : Similarity(r, d) <= Similarity(r, c)
  /\ \A d \in Described(r) : d < c => Similarity(r, d) < Similarity(r, c)

\* A response names the best candidate of its own request with its score, or
\* nobody when there is none, however requests overlap (pick_best).
PicksTheBest ==
  \A t \in Threads : pc[t] = "done" /\ response[t] # None =>
    LET r == req[t]
    IN  IF \E c \in Described(r) : IsWinner(r, c)
          THEN \E c \in Described(r) :
                 /\ IsWinner(r, c)
                 /\ response[t] = [model_id |-> r.candidates[c].model_id,
                                   score |-> Similarity(r, c)]
          ELSE response[t] = [model_id |-> "",
                              score |-> IF r.candidates = <<>> THEN 0 ELSE -One]

\* Every request is answered, with a result or a 500.
EveryPickAnswered == \A t \in Threads : pc[t] = "scan" ~> pc[t] = "done"

=============================================================================
