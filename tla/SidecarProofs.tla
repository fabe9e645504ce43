--------------------------- MODULE SidecarProofs ---------------------------
(***************************************************************************)
(* The embedding cache is safe to share, for any number of threads, any    *)
(* requests and any embedding model.                                       *)
(*                                                                         *)
(* NeverKeyError is not inductive.  Between the scan and the reads a       *)
(* thread knows of each of its texts that it is cached or still on its own *)
(* list of uncached texts (Accounted); other threads only add to the cache *)
(* and so cannot falsify that.  That the cache is faithful needs the new   *)
(* embeddings to be those of the uncached texts, in their order (Aligned). *)
(***************************************************************************)
EXTENDS Sidecar, SequenceTheorems, WellFoundedInduction, TLAPS

Active(t) == pc[t] \in {"scan", "embed", "store", "read"}

\* Text x of thread t is cached, or on its list at position from or later.
CachedOrListed(t, x, from) ==
  \/ x \in DOMAIN cache
  \/ \E m \in 1..Len(uncached[t]) : m >= from /\ uncached[t][m] = x

\* Where thread t stands in _embed, and what it knows of its texts.
Accounted(t) ==
  /\ pc[t] = "scan" =>
       /\ i[t] = 1 \/ i[t] <= Len(texts(t))
       /\ \A j \in 1..Len(texts(t)) :
            j < i[t] => CachedOrListed(t, texts(t)[j], 1)
  /\ pc[t] = "embed" =>
       /\ i[t] = 1
       /\ Len(uncached[t]) > 0
       /\ \A j \in 1..Len(texts(t)) : CachedOrListed(t, texts(t)[j], 1)
  /\ pc[t] = "store" =>
       /\ i[t] <= Len(uncached[t])
       /\ \A j \in 1..Len(texts(t)) : CachedOrListed(t, texts(t)[j], i[t])
  /\ pc[t] = "read" => i[t] = 1 /\ AllCached(t)
  /\ pc[t] = "idle" => i[t] = 1 /\ cand[t] = 0

\* The new embeddings belong to the uncached texts, one to one.
Aligned(t) ==
  pc[t] = "store" =>
    \A m \in 1..Len(uncached[t]) : fresh[t][m] = embed(uncached[t][m])

SInv == /\ TypeOK
        /\ CacheIsFaithful
        /\ \A t \in Threads : Accounted(t) /\ Aligned(t)

\* The texts of an active thread are a sequence of texts.
LEMMA TextsType ==
  ASSUME TypeOK, NEW t \in Threads, Active(t)
  PROVE  texts(t) \in Seq(Texts)
<1> DEFINE Candidate == [model_id : STRING, descriptions : Seq(Texts)]
<1>1. req[t] \in PickRequests /\ cand[t] \in Nat /\ cand[t] <= Len(req[t].candidates)
  BY DEF TypeOK, LoopsInBounds, Active
<1>2. req[t].prompt \in Texts /\ req[t].candidates \in Seq(Candidate)
  BY <1>1, PickRequestsAssumption
<1>3. CASE cand[t] = 0
  BY <1>2, <1>3 DEF texts
<1>4. CASE cand[t] # 0
  <2>1. cand[t] \in 1..Len(req[t].candidates)
    <3> HIDE DEF Candidate
    <3> QED BY <1>1, <1>2, <1>4, LenProperties
  <2>2. req[t].candidates[cand[t]] \in Candidate
    <3> HIDE DEF Candidate
    <3> QED BY <1>2, <2>1, ElementOfSeq
  <2>3. QED
    BY <2>2, <1>4 DEF texts
<1>5. QED
  BY <1>3, <1>4

\* A step of one thread that leaves the locals of another alone and only adds
\* to the cache leaves what the other knows intact.
LEMMA OthersUndisturbed ==
  ASSUME NEW u \in Threads, Accounted(u), Aligned(u), LoopsInBounds(u),
         DOMAIN cache \subseteq DOMAIN cache',
         pc'[u] = pc[u], req'[u] = req[u], cand'[u] = cand[u], i'[u] = i[u],
         uncached'[u] = uncached[u], fresh'[u] = fresh[u]
  PROVE  Accounted(u)' /\ Aligned(u)' /\ LoopsInBounds(u)'
<1>1. texts(u)' = texts(u)
  BY DEF texts
<1>2. \A x, from : CachedOrListed(u, x, from) => CachedOrListed(u, x, from)'
  BY DEF CachedOrListed
<1>3. AllCached(u) => AllCached(u)'
  BY <1>1 DEF AllCached
<1>4. Accounted(u)'
  BY <1>1, <1>2, <1>3 DEF Accounted
<1>5. Aligned(u)'
  BY DEF Aligned
<1>6. LoopsInBounds(u)'
  BY DEF LoopsInBounds
<1>7. QED
  BY <1>4, <1>5, <1>6

\* The texts of a candidate's turn that begins are not looked at yet.
LEMMA FreshTurn ==
  ASSUME NEW t \in Threads, i'[t] = 1, pc'[t] \in {"scan", "done", "idle"},
         pc'[t] = "idle" => cand'[t] = 0
  PROVE  Accounted(t)' /\ Aligned(t)'
BY DEF Accounted, Aligned

LEMMA SInvInit == Init => SInv
<1> SUFFICES ASSUME Init PROVE SInv
  OBVIOUS
<1>1. TypeOK
  BY DEF Init, TypeOK, LoopsInBounds
<1>2. CacheIsFaithful
  BY DEF Init, CacheIsFaithful
<1>3. \A t \in Threads : Accounted(t) /\ Aligned(t)
  BY DEF Init, Accounted, Aligned
<1>4. QED
  BY <1>1, <1>2, <1>3 DEF SInv

\* The candidates of a request are a sequence.
LEMMA CandidatesLength ==
  ASSUME NEW r \in PickRequests
  PROVE  Len(r.candidates) \in Nat
<1> DEFINE Candidate == [model_id : STRING, descriptions : Seq(Texts)]
<1>1. r.candidates \in Seq(Candidate)
  BY PickRequestsAssumption
<1> HIDE DEF Candidate
<1>2. QED
  BY <1>1, LenProperties

\* Each step of thread t preserves the invariant.
LEMMA ReceiveStep ==
  ASSUME SInv, NEW t \in Threads, Receive(t)
  PROVE  SInv'
<1> USE DEF SInv
<1>1. PICK r \in PickRequests :
        /\ req' = [req EXCEPT ![t] = r]
        /\ pc' = [pc EXCEPT ![t] = IF r.candidates = <<>> THEN "done" ELSE "scan"]
  BY DEF Receive
<1>2. i[t] = 1 /\ cand[t] = 0
  BY DEF Receive, Accounted
<1>3. \A u \in Threads \ {t} : Accounted(u)' /\ Aligned(u)' /\ LoopsInBounds(u)'
  BY <1>1, OthersUndisturbed DEF Receive, TypeOK
<1>4. Accounted(t)' /\ Aligned(t)'
  BY <1>1, <1>2, FreshTurn DEF Receive, TypeOK
<1>5. LoopsInBounds(t)'
  <2>1. req'[t] = r /\ cand' = cand /\ i' = i
    BY <1>1 DEF Receive, TypeOK
  <2>2. QED
    BY <2>1, <1>2, CandidatesLength DEF LoopsInBounds
<1>6. TypeOK'
  BY <1>1, <1>3, <1>5 DEF TypeOK, Receive
<1>7. CacheIsFaithful'
  BY DEF CacheIsFaithful, Receive
<1>8. QED
  BY <1>3, <1>4, <1>6, <1>7

LEMMA ScanStep ==
  ASSUME SInv, NEW t \in Threads, Scan(t)
  PROVE  SInv'
<1> USE DEF SInv
<1> DEFINE x == texts(t)[i[t]]
           u == IF x \in DOMAIN cache THEN uncached[t] ELSE Append(uncached[t], x)
           last == i[t] = Len(texts(t))
<1>1. /\ texts(t) \in Seq(Texts)
      /\ uncached[t] \in Seq(Texts)
      /\ i[t] \in 1..Len(texts(t))
  <2>1. texts(t) \in Seq(Texts)
    BY TextsType DEF Scan, Active
  <2>2. i[t] \in Nat /\ i[t] >= 1 /\ i[t] <= Len(texts(t))
    BY DEF Scan, TypeOK, LoopsInBounds
  <2>3. QED
    BY <2>1, <2>2 DEF TypeOK
<1>2. x \in Texts /\ u \in Seq(Texts)
  BY <1>1
<1>3. /\ uncached'[t] = u
      /\ i'[t] = IF last THEN 1 ELSE i[t] + 1
      /\ pc'[t] = IF ~last THEN "scan" ELSE IF u = <<>> THEN "read" ELSE "embed"
      /\ cache' = cache /\ texts(t)' = texts(t)
      /\ req' = req /\ cand' = cand /\ fresh' = fresh
  BY DEF Scan, TypeOK, texts
<1>4. \A v \in Threads \ {t} : Accounted(v)' /\ Aligned(v)' /\ LoopsInBounds(v)'
  BY OthersUndisturbed DEF Scan, TypeOK
<1>5. TypeOK'
  <2>1. LoopsInBounds(t)'
    <3>1. i'[t] >= 1
      BY <1>1, <1>3
    <3>2. req[t] \in PickRequests /\ cand[t] <= Len(req[t].candidates)
      BY DEF TypeOK, LoopsInBounds, Scan
    <3>3. QED
      BY <3>1, <3>2, <1>3 DEF LoopsInBounds
  <2>2. uncached' \in [Threads -> Seq(Texts)]
    BY <1>2 DEF TypeOK, Scan
  <2>3. i' \in [Threads -> Nat]
    BY <1>1 DEF TypeOK, Scan
  <2>4. QED
    BY <2>1, <2>2, <2>3, <1>4 DEF TypeOK, Scan
<1>6. \A j \in 1..Len(texts(t)) :
        j <= i[t] => \/ texts(t)[j] \in DOMAIN cache
                     \/ \E m \in 1..Len(u) : u[m] = texts(t)[j]
  <2> SUFFICES ASSUME NEW j \in 1..Len(texts(t)), j <= i[t],
                      texts(t)[j] \notin DOMAIN cache
               PROVE  \E m \in 1..Len(u) : u[m] = texts(t)[j]
    OBVIOUS
  <2>1. CASE j = i[t]
    <3>1. u = Append(uncached[t], x) /\ x = texts(t)[j]
      BY <2>1
    <3>2. Len(u) = Len(uncached[t]) + 1 /\ u[Len(u)] = x
      BY <3>1, <1>1, <1>2
    <3>3. QED
      BY <3>1, <3>2, <1>1
  <2>2. CASE j < i[t]
    <3>1. PICK m \in 1..Len(uncached[t]) : uncached[t][m] = texts(t)[j]
      BY <2>2 DEF Accounted, Scan, CachedOrListed
    <3>2. m \in 1..Len(u) /\ u[m] = uncached[t][m]
      BY <1>1, <1>2
    <3>3. QED
      BY <3>1, <3>2
  <2>3. j = i[t] \/ j < i[t]
    BY <1>1
  <2> HIDE DEF u
  <2>4. QED
    BY <2>1, <2>2, <2>3
<1>7. Accounted(t)'
  <2>1. CASE ~last
    <3>1. pc'[t] = "scan" /\ i'[t] = i[t] + 1 /\ i'[t] <= Len(texts(t))
      BY <2>1, <1>1, <1>3
    <3>2. \A j \in 1..Len(texts(t)) : j < i'[t] => j <= i[t]
      BY <3>1, <1>1
    <3>3. \A j \in 1..Len(texts(t)) :
            j < i'[t] => CachedOrListed(t, texts(t)[j], 1)'
      <4> HIDE DEF u
      <4> QED BY <3>2, <1>3, <1>6 DEF CachedOrListed
    <3>4. QED
      BY <3>1, <3>3, <1>3 DEF Accounted
  <2>2. CASE last /\ u = <<>>
    <3>1. AllCached(t)'
      BY <2>2, <1>1, <1>3, <1>6 DEF AllCached
    <3>2. QED
      BY <3>1, <2>2, <1>3 DEF Accounted
  <2>3. CASE last /\ u # <<>>
    <3>1. Len(u) > 0
      BY <2>3, <1>2
    <3>2. QED
      BY <3>1, <2>3, <1>1, <1>3, <1>6 DEF Accounted, CachedOrListed
  <2>4. QED
    BY <2>1, <2>2, <2>3
<1>8. Aligned(t)'
  BY <1>3 DEF Aligned
<1>9. CacheIsFaithful'
  BY <1>3 DEF CacheIsFaithful
<1>10. QED
  BY <1>4, <1>5, <1>7, <1>8, <1>9

LEMMA EmbedStep ==
  ASSUME SInv, NEW t \in Threads, Embed(t)
  PROVE  SInv'
<1> USE DEF SInv
<1> DEFINE new == [j \in 1..Len(uncached[t]) |-> embed(uncached[t][j])]
<1>1. uncached[t] \in Seq(Texts)
  BY DEF TypeOK
<1>2. new \in Seq(Embeddings)
  <2>1. \A j \in 1..Len(uncached[t]) : embed(uncached[t][j]) \in Embeddings
    BY <1>1, TextsAssumption DEF embed, Embeddings
  <2>2. Len(uncached[t]) \in Nat
    BY <1>1
  <2>3. QED
    BY <2>1, <2>2, IsASeq
<1>3. /\ fresh'[t] = new /\ pc'[t] = "store" /\ pc[t] = "embed"
      /\ texts(t)' = texts(t)
      /\ UNCHANGED <<cache, req, cand, i, uncached>>
  BY DEF Embed, TypeOK, texts
<1>4. \A u \in Threads \ {t} : Accounted(u)' /\ Aligned(u)' /\ LoopsInBounds(u)'
  BY OthersUndisturbed DEF Embed, TypeOK
<1>5. LoopsInBounds(t)'
  BY <1>3 DEF TypeOK, LoopsInBounds
<1>6. TypeOK'
  <2>1. fresh' \in [Threads -> Seq(Embeddings)]
    BY <1>2 DEF TypeOK, Embed
  <2>2. QED
    BY <2>1, <1>4, <1>5 DEF TypeOK, Embed
<1>7. Accounted(t)'
  <2>1. i[t] = 1 /\ Len(uncached[t]) > 0
    BY <1>3 DEF Accounted
  <2>2. \A j \in 1..Len(texts(t)) : CachedOrListed(t, texts(t)[j], 1)
    BY <1>3 DEF Accounted
  <2>3. i'[t] <= Len(uncached'[t])
    BY <2>1, <1>1, <1>3
  <2>4. \A j \in 1..Len(texts(t)) : CachedOrListed(t, texts(t)[j], i[t])'
    BY <2>1, <2>2, <1>3 DEF CachedOrListed
  <2>5. QED
    BY <2>3, <2>4, <1>3 DEF Accounted
<1>8. Aligned(t)'
  BY <1>3 DEF Aligned
<1>9. CacheIsFaithful'
  BY <1>3 DEF CacheIsFaithful
<1>10. QED
  BY <1>4, <1>6, <1>7, <1>8, <1>9

LEMMA StoreStep ==
  ASSUME SInv, NEW t \in Threads, Store(t)
  PROVE  SInv'
<1> USE DEF SInv
<1> DEFINE x == uncached[t][i[t]]
           last == i[t] = Len(uncached[t])
<1>1. uncached[t] \in Seq(Texts) /\ i[t] \in 1..Len(uncached[t])
  <2>1. uncached[t] \in Seq(Texts) /\ i[t] \in Nat
    BY DEF TypeOK
  <2>2. i[t] >= 1 /\ i[t] <= Len(uncached[t])
    BY DEF Store, TypeOK, LoopsInBounds, Accounted
  <2>3. QED
    BY <2>1, <2>2
<1>2. x \in Texts
  BY <1>1
<1>3. /\ pc[t] = "store"
      /\ i'[t] = IF last THEN 1 ELSE i[t] + 1
      /\ pc'[t] = IF last THEN "read" ELSE "store"
      /\ texts(t)' = texts(t)
      /\ UNCHANGED <<req, cand, uncached, fresh>>
  BY DEF Store, TypeOK, texts
<1>4. /\ DOMAIN cache' = DOMAIN cache \cup {x}
      /\ cache'[x] = normalize(fresh[t][i[t]])
      /\ \A y \in DOMAIN cache : y # x => cache'[y] = cache[y]
  BY DEF Store, Stored
<1>5. \A u \in Threads \ {t} : Accounted(u)' /\ Aligned(u)' /\ LoopsInBounds(u)'
  BY <1>4, OthersUndisturbed DEF Store, TypeOK
<1>6. LoopsInBounds(t)'
  <2>1. i'[t] >= 1
    BY <1>1, <1>3
  <2>2. req[t] \in PickRequests /\ cand[t] <= Len(req[t].candidates)
    BY <1>3 DEF TypeOK, LoopsInBounds
  <2>3. QED
    BY <2>1, <2>2, <1>3 DEF LoopsInBounds
<1>7. TypeOK'
  <2>1. DOMAIN cache' \subseteq Texts
    BY <1>2, <1>4 DEF TypeOK
  <2>2. i' \in [Threads -> Nat]
    BY <1>1 DEF TypeOK, Store
  <2>3. QED
    BY <2>1, <2>2, <1>5, <1>6 DEF TypeOK, Store
<1>8. CacheIsFaithful'
  <2>1. fresh[t][i[t]] = embed(x)
    BY <1>1, <1>3 DEF Aligned
  <2>2. QED
    BY <2>1, <1>4 DEF CacheIsFaithful
<1>9. \A j \in 1..Len(texts(t)) :
        \/ texts(t)[j] \in DOMAIN cache'
        \/ \E m \in 1..Len(uncached[t]) : m >= i[t] + 1 /\ uncached[t][m] = texts(t)[j]
  <2> SUFFICES ASSUME NEW j \in 1..Len(texts(t)), texts(t)[j] \notin DOMAIN cache'
               PROVE  \E m \in 1..Len(uncached[t]) :
                        m >= i[t] + 1 /\ uncached[t][m] = texts(t)[j]
    OBVIOUS
  <2>1. texts(t)[j] \notin DOMAIN cache /\ texts(t)[j] # x
    BY <1>4
  <2>2. CachedOrListed(t, texts(t)[j], i[t])
    BY <1>3 DEF Accounted
  <2>3. PICK m \in 1..Len(uncached[t]) : m >= i[t] /\ uncached[t][m] = texts(t)[j]
    BY <2>1, <2>2 DEF CachedOrListed
  <2>4. m # i[t]
    BY <2>1, <2>3
  <2>5. QED
    BY <2>3, <2>4, <1>1
<1>10. Accounted(t)'
  <2>1. CASE ~last
    <3>1. pc'[t] = "store" /\ i'[t] = i[t] + 1 /\ i'[t] <= Len(uncached[t])
      BY <2>1, <1>1, <1>3
    <3>2. \A j \in 1..Len(texts(t)) : CachedOrListed(t, texts(t)[j], i[t])'
      BY <3>1, <1>3, <1>9 DEF CachedOrListed
    <3>3. QED
      BY <3>1, <3>2, <1>3 DEF Accounted
  <2>2. CASE last
    <3>1. pc'[t] = "read" /\ i'[t] = 1
      BY <2>2, <1>3
    <3>2. AllCached(t)'
      BY <2>2, <1>1, <1>3, <1>9 DEF AllCached
    <3>3. QED
      BY <3>1, <3>2 DEF Accounted
  <2>3. QED
    BY <2>1, <2>2
<1>11. Aligned(t)'
  BY <1>3 DEF Aligned
<1>12. QED
  BY <1>5, <1>7, <1>8, <1>10, <1>11

\* The loop over the candidates goes to the next one or ends.
LEMMA ContinueStep ==
  ASSUME SInv, NEW t \in Threads, NEW b,
         Active(t), i[t] = 1, Continue(t, cand[t], b)
  PROVE  SInv'
<1> USE DEF SInv
<1>1. /\ req[t] \in PickRequests
      /\ cand[t] \in Nat
      /\ cand[t] <= Len(req[t].candidates)
      /\ Len(req[t].candidates) \in Nat
  BY CandidatesLength DEF Active, TypeOK, LoopsInBounds
<1>2. /\ cand'[t] \in Nat
      /\ cand'[t] <= Len(req[t].candidates)
  BY <1>1 DEF Continue, TypeOK
<1>3. pc'[t] \in {"scan", "done"} /\ UNCHANGED <<cache, req, i>>
  BY DEF Continue, TypeOK
<1>4. \A u \in Threads \ {t} : Accounted(u)' /\ Aligned(u)' /\ LoopsInBounds(u)'
  BY OthersUndisturbed DEF Continue, TypeOK
<1>5. LoopsInBounds(t)'
  BY <1>1, <1>2, <1>3 DEF LoopsInBounds
<1>6. Accounted(t)' /\ Aligned(t)'
  BY <1>3, FreshTurn
<1>7. TypeOK'
  <2>1. cand' \in [Threads -> Nat]
    BY <1>2 DEF Continue, TypeOK
  <2>2. pc' \in [Threads -> {"idle", "scan", "embed", "store", "read", "done"}]
    BY DEF Continue, TypeOK
  <2>3. /\ uncached' \in [Threads -> Seq(Texts)]
        /\ fresh' \in [Threads -> Seq(Embeddings)]
    BY DEF Continue, TypeOK
  <2>4. QED
    BY <2>1, <2>2, <2>3, <1>3, <1>4, <1>5 DEF TypeOK
<1>8. CacheIsFaithful'
  BY <1>3 DEF CacheIsFaithful
<1>9. QED
  BY <1>4, <1>6, <1>7, <1>8

\* The steps that end a request without an answer, or after it was sent.
LEMMA EndStep ==
  ASSUME SInv, NEW t \in Threads,
         \/ pc' = [pc EXCEPT ![t] = "done"] /\ UNCHANGED <<cache, locals>>
         \/ Return(t)
  PROVE  SInv'
<1> USE DEF SInv
<1>1. CASE pc' = [pc EXCEPT ![t] = "done"] /\ UNCHANGED <<cache, locals>>
  <2>1. pc'[t] = "done" /\ UNCHANGED <<cache, req, cand, i, uncached, fresh>>
    BY <1>1 DEF TypeOK, locals
  <2>2. \A u \in Threads \ {t} : Accounted(u)' /\ Aligned(u)' /\ LoopsInBounds(u)'
    BY <1>1, <2>1, OthersUndisturbed DEF TypeOK
  <2>3. Accounted(t)' /\ Aligned(t)' /\ LoopsInBounds(t)'
    BY <2>1 DEF Accounted, Aligned, LoopsInBounds
  <2>4. TypeOK' /\ CacheIsFaithful'
    BY <1>1, <2>1, <2>2, <2>3 DEF TypeOK, CacheIsFaithful
  <2>5. QED
    BY <2>2, <2>3, <2>4
<1>2. CASE Return(t)
  <2>1. pc'[t] = "idle" /\ i'[t] = 1 /\ cand'[t] = 0 /\ cache' = cache
    BY <1>2 DEF Return, TypeOK
  <2>2. \A u \in Threads \ {t} : Accounted(u)' /\ Aligned(u)' /\ LoopsInBounds(u)'
    BY <1>2, OthersUndisturbed DEF Return, TypeOK
  <2>3. Accounted(t)' /\ Aligned(t)' /\ LoopsInBounds(t)'
    BY <2>1, FreshTurn DEF LoopsInBounds
  <2>4. TypeOK' /\ CacheIsFaithful'
    BY <1>2, <2>2, <2>3 DEF Return, TypeOK, CacheIsFaithful
  <2>5. QED
    BY <2>2, <2>3, <2>4
<1>3. QED
  BY <1>1, <1>2

LEMMA SInvNext == SInv /\ [Next]_vars => SInv'
<1> SUFFICES ASSUME SInv, [Next]_vars PROVE SInv'
  OBVIOUS
<1>1. CASE UNCHANGED vars
  <2>1. UNCHANGED <<cache, pc, req, cand, i, uncached, fresh>>
    BY <1>1 DEF vars, locals
  <2>2. \A u \in Threads : Accounted(u)' /\ Aligned(u)' /\ LoopsInBounds(u)'
    BY <2>1, OthersUndisturbed DEF SInv, TypeOK
  <2>3. QED
    BY <2>1, <2>2 DEF SInv, TypeOK, CacheIsFaithful
<1>2. ASSUME NEW t \in Threads, Receive(t) PROVE SInv'
  BY <1>2, ReceiveStep
<1>3. ASSUME NEW t \in Threads, Scan(t) PROVE SInv'
  BY <1>3, ScanStep
<1>4. ASSUME NEW t \in Threads, Embed(t) PROVE SInv'
  BY <1>4, EmbedStep
<1>5. ASSUME NEW t \in Threads, EmbedRaises(t) PROVE SInv'
  BY <1>5, EndStep DEF EmbedRaises
<1>6. ASSUME NEW t \in Threads, Store(t) PROVE SInv'
  BY <1>6, StoreStep
<1>7. ASSUME NEW t \in Threads, Read(t) PROVE SInv'
  <2>1. pc[t] = "read" /\ i[t] = 1
    BY <1>7 DEF Read, SInv, Accounted
  <2>2. CASE ~AllCached(t)
    BY <2>2, <1>7, EndStep DEF Read
  <2>3. CASE AllCached(t)
    <3>1. \E b : Continue(t, cand[t], b)
      BY <2>3, <1>7 DEF Read
    <3>2. QED
      BY <3>1, <2>1, ContinueStep DEF Active
  <2>4. QED
    BY <2>2, <2>3
<1>8. ASSUME NEW t \in Threads, SkipCandidate(t) PROVE SInv'
  <2>1. texts(t) = <<>> /\ pc[t] = "scan" /\ Continue(t, cand[t], best[t])
    BY <1>8 DEF SkipCandidate
  <2>2. i[t] = 1
    <3>1. i[t] \in Nat /\ i[t] >= 1 /\ (i[t] = 1 \/ i[t] <= Len(texts(t)))
      BY <2>1 DEF SInv, TypeOK, LoopsInBounds, Accounted
    <3>2. Len(texts(t)) = 0
      BY <2>1
    <3>3. QED
      BY <3>1, <3>2
  <2>3. QED
    BY <2>1, <2>2, ContinueStep DEF Active
<1>9. ASSUME NEW t \in Threads, Return(t) PROVE SInv'
  BY <1>9, EndStep
<1>10. QED
  BY <1>1, <1>2, <1>3, <1>4, <1>5, <1>6, <1>7, <1>8, <1>9 DEF Next, Step

\* No interleaving of requests makes _embed raise a KeyError: every text it
\* reads at its end (selector.py:41) is in the shared cache.
THEOREM EmbedNeverRaisesKeyError == Spec => []NeverKeyError
<1>1. SInv => NeverKeyError
  BY DEF SInv, Accounted, NeverKeyError
<1>2. QED
  BY <1>1, SInvInit, SInvNext, PTL DEF Spec

\* The shared cache only ever holds, for a text, the normalized embedding of
\* that same text (selector.py:36-39), so that no request is answered with
\* what another one computed for something else.
THEOREM CacheStaysFaithful == Spec => []CacheIsFaithful
<1>1. SInv => CacheIsFaithful
  BY DEF SInv
<1>2. QED
  BY <1>1, SInvInit, SInvNext, PTL DEF Spec

\* The variables of the sidecar keep their shapes and its loops their bounds.
THEOREM SidecarTypeCorrect == Spec => []TypeOK
<1>1. SInv => TypeOK
  BY DEF SInv
<1>2. QED
  BY <1>1, SInvInit, SInvNext, PTL DEF Spec

-----------------------------------------------------------------------------
(* The answer is the best one *)

unit(x) == normalize(embed(x))

\* Normalized embeddings have similarities from -1 to 1.
LEMMA UnitDot ==
  ASSUME NEW x \in Texts, NEW y \in Texts
  PROVE  dot(unit(x), unit(y)) \in -One..One
<1>1. Norm[x] \in Nat /\ Norm[y] \in Nat
  BY TextsAssumption
<1>2. /\ unit(x).text = x /\ unit(x).length \in {0, 1}
      /\ unit(y).text = y /\ unit(y).length \in {0, 1}
  BY <1>1 DEF unit, normalize, embed
<1>3. Cosine[x][y] \in -One..One /\ One \in Nat
  BY CosinesAssumption
<1>4. QED
  BY <1>2, <1>3 DEF dot

\* A set of scores has a greatest element.
LEMMA GreatestScore ==
  ASSUME NEW S, S \subseteq -One..One, S # {}
  PROVE  \E s \in S : \A z \in S : z <= s
<1> DEFINE T == {One - s : s \in S}
<1>1. One \in Nat
  BY CosinesAssumption
<1>2. T \subseteq Nat /\ T # {}
  <2>1. \A s \in S : One - s \in Nat
    BY <1>1
  <2>2. PICK s \in S : TRUE
    OBVIOUS
  <2>3. One - s \in T
    BY <2>2
  <2>4. QED
    BY <2>1, <2>3
<1>3. \E x \in T : \A y \in T : ~(<<y, x>> \in OpToRel(<, Nat))
  <2> HIDE DEF T
  <2> QED BY <1>2, NatLessThanWellFounded, WFMin
<1>4. PICK x \in T : \A y \in T : ~(y < x)
  BY <1>2, <1>3 DEF OpToRel
<1>5. PICK s \in S : x = One - s
  BY <1>4
<1>6. \A z \in S : ~(One - z < One - s)
  BY <1>4, <1>5
<1>7. QED
  BY <1>1, <1>5, <1>6

\* The similarity of a candidate with descriptions is a score.
LEMMA SimilarityIsScore ==
  ASSUME NEW r \in PickRequests, NEW c \in Described(r)
  PROVE  Similarity(r, c) \in -One..One
<1> DEFINE Candidate == [model_id : STRING, descriptions : Seq(Texts)]
           descs == r.candidates[c].descriptions
           all == [x \in Texts |-> normalize(embed(x))]
           sims == {dot(all[descs[j]], unit(r.prompt)) : j \in DOMAIN descs}
<1>1. r.prompt \in Texts /\ r.candidates \in Seq(Candidate)
  BY PickRequestsAssumption
<1>2. c \in 1..Len(r.candidates)
  <2> HIDE DEF Candidate
  <2> QED BY <1>1 DEF Described
<1>3. r.candidates[c] \in Candidate
  <2> HIDE DEF Candidate
  <2> QED BY <1>1, <1>2, ElementOfSeq
<1>4. descs \in Seq(Texts) /\ descs # <<>>
  BY <1>3 DEF Described
<1> HIDE DEF descs
<1>5. DOMAIN descs = 1..Len(descs) /\ 1 \in DOMAIN descs
  BY <1>4
<1>6. \A j \in DOMAIN descs : descs[j] \in Texts /\ all[descs[j]] = unit(descs[j])
  BY <1>4, <1>5 DEF unit
<1>7. sims \subseteq -One..One /\ sims # {}
  <2>1. \A j \in DOMAIN descs : dot(all[descs[j]], unit(r.prompt)) \in -One..One
    BY <1>1, <1>6, UnitDot
  <2>2. dot(all[descs[1]], unit(r.prompt)) \in sims
    BY <1>5
  <2>3. QED
    BY <2>1, <2>2
<1>8. Similarity(r, c) = CHOOSE s \in sims : \A z \in sims : z <= s
  BY DEF Similarity, max_sim, unit, descs
<1> HIDE DEF sims
<1>9. QED
  BY <1>7, <1>8, GreatestScore

\* b is the first of the best among the candidates 1..n of r, if any of them
\* is better than -1.
BestAmong(r, n, b) ==
  \/ /\ b = NoMatch
     /\ \A d \in Described(r) : d <= n => Similarity(r, d) <= -One
  \/ \E c \in Described(r) :
       /\ c <= n
       /\ Similarity(r, c) > -One
       /\ \A d \in Described(r) : d <= n =>
            /\ Similarity(r, d) <= Similarity(r, c)
            /\ d < c => Similarity(r, d) < Similarity(r, c)
       /\ b = [model_id |-> r.candidates[c].model_id, score |-> Similarity(r, c)]

\* The loop of pick_best maintains that best is the best so far.
Searched(t) ==
  /\ pc[t] = "idle" => best[t] = NoMatch /\ response[t] = None
  /\ Active(t) => response[t] = None /\ req[t].candidates # <<>>
  /\ Active(t) /\ cand[t] = 0 => best[t] = NoMatch
  /\ Active(t) /\ cand[t] > 0 =>
       /\ BestAmong(req[t], cand[t] - 1, best[t])
       /\ prompt_emb[t] = unit(req[t].prompt)
  /\ pc[t] \in {"embed", "store", "read"} => texts(t) # <<>>
  /\ pc[t] = "done" /\ response[t] # None =>
       /\ req[t] \in PickRequests
       /\ IF req[t].candidates = <<>>
            THEN response[t] = [model_id |-> "", score |-> 0]
            ELSE BestAmong(req[t], Len(req[t].candidates), response[t])

BInv == /\ SInv
        /\ DOMAIN best = Threads /\ DOMAIN response = Threads
        /\ DOMAIN prompt_emb = Threads
        /\ \A t \in Threads : Searched(t)

\* The candidates of a request are numbered from 1.
LEMMA DescribedRange ==
  ASSUME NEW r \in PickRequests
  PROVE  Described(r) \subseteq 1..Len(r.candidates)
<1> DEFINE Candidate == [model_id : STRING, descriptions : Seq(Texts)]
<1>1. r.candidates \in Seq(Candidate)
  BY PickRequestsAssumption
<1> HIDE DEF Candidate
<1>2. QED
  BY <1>1 DEF Described

\* Passing over a candidate without descriptions.
LEMMA BestAmongSkip ==
  ASSUME NEW r \in PickRequests, NEW n \in Nat, NEW b,
         n + 1 \notin Described(r), BestAmong(r, n, b)
  PROVE  BestAmong(r, n + 1, b)
<1>1. \A d \in Described(r) : d <= n + 1 <=> d <= n
  BY DescribedRange, CandidatesLength
<1>2. QED
  BY <1>1 DEF BestAmong

\* Comparing one more candidate with the best so far.
LEMMA BestAmongCompare ==
  ASSUME NEW r \in PickRequests, NEW n \in Nat, NEW b,
         n + 1 \in Described(r), BestAmong(r, n, b)
  PROVE  BestAmong(r, n + 1,
                   IF Similarity(r, n + 1) > b.score
                     THEN [model_id |-> r.candidates[n + 1].model_id,
                           score |-> Similarity(r, n + 1)]
                     ELSE b)
<1> DEFINE s == Similarity(r, n + 1)
<1>1. \A d \in Described(r) :
        /\ d \in Nat
        /\ d <= n + 1 <=> (d <= n \/ d = n + 1)
        /\ ~(d = n + 1 /\ d <= n)
  BY DescribedRange, CandidatesLength
<1>2. \A d \in Described(r) : Similarity(r, d) \in Int /\ Similarity(r, d) >= -One
  BY SimilarityIsScore, CosinesAssumption
<1>3. One \in Nat
  BY CosinesAssumption
<1>4. CASE b = NoMatch /\ \A d \in Described(r) : d <= n => Similarity(r, d) <= -One
  <2>1. b.score = -One
    BY <1>4 DEF NoMatch
  <2>2. CASE s > -One
    BY <2>1, <2>2, <1>1, <1>2, <1>3, <1>4 DEF BestAmong
  <2>3. CASE ~(s > -One)
    BY <2>1, <2>3, <1>1, <1>2, <1>3, <1>4 DEF BestAmong
  <2>4. QED
    BY <2>2, <2>3
<1>5. CASE \E c \in Described(r) :
             /\ c <= n
             /\ Similarity(r, c) > -One
             /\ \A d \in Described(r) : d <= n =>
                  /\ Similarity(r, d) <= Similarity(r, c)
                  /\ d < c => Similarity(r, d) < Similarity(r, c)
             /\ b = [model_id |-> r.candidates[c].model_id,
                     score |-> Similarity(r, c)]
  <2>1. PICK c \in Described(r) :
             /\ c <= n
             /\ Similarity(r, c) > -One
             /\ \A d \in Described(r) : d <= n =>
                  /\ Similarity(r, d) <= Similarity(r, c)
                  /\ d < c => Similarity(r, d) < Similarity(r, c)
             /\ b = [model_id |-> r.candidates[c].model_id,
                     score |-> Similarity(r, c)]
    BY <1>5
  <2>2. b.score = Similarity(r, c) /\ c \in Nat /\ Similarity(r, c) \in Int /\ s \in Int
    BY <2>1, <1>1, <1>2
  <2>3. CASE s > Similarity(r, c)
    <3>1. s > -One
      BY <2>1, <2>2, <2>3, <1>3
    <3>2. \A d \in Described(r) : d <= n + 1 =>
            Similarity(r, d) <= s /\ (d < n + 1 => Similarity(r, d) < s)
      BY <2>1, <2>2, <2>3, <1>1, <1>2
    <3>3. QED
      BY <3>1, <3>2, <2>2, <2>3, <1>1 DEF BestAmong
  <2>4. CASE ~(s > Similarity(r, c))
    <3>1. \A d \in Described(r) : d <= n + 1 =>
            /\ Similarity(r, d) <= Similarity(r, c)
            /\ d < c => Similarity(r, d) < Similarity(r, c)
      BY <2>1, <2>2, <2>4, <1>1, <1>2
    <3>2. c <= n + 1
      BY <2>1, <2>2
    <3>3. QED
      BY <3>1, <3>2, <2>1, <2>2, <2>4 DEF BestAmong
  <2>5. QED
    BY <2>3, <2>4
<1>6. QED
  BY <1>4, <1>5 DEF BestAmong

\* What the loop computes from the shared cache is the candidate's similarity.
LEMMA ReadSimilarity ==
  ASSUME SInv, NEW t \in Threads, pc[t] = "read", AllCached(t), cand[t] > 0,
         prompt_emb[t] = unit(req[t].prompt)
  PROVE  max_sim(texts(t), cache, prompt_emb[t]) = Similarity(req[t], cand[t])
<1> DEFINE all == [x \in Texts |-> normalize(embed(x))]
<1>1. texts(t) \in Seq(Texts)
  BY TextsType DEF SInv, Active
<1>2. texts(t) = req[t].candidates[cand[t]].descriptions
  BY DEF texts, SInv, TypeOK
<1>3. \A j \in DOMAIN texts(t) : cache[texts(t)[j]] = all[texts(t)[j]]
  BY <1>1 DEF AllCached, SInv, CacheIsFaithful
<1>4. {dot(cache[texts(t)[j]], prompt_emb[t]) : j \in DOMAIN texts(t)}
        = {dot(all[texts(t)[j]], prompt_emb[t]) : j \in DOMAIN texts(t)}
  BY <1>3
<1>5. max_sim(texts(t), cache, prompt_emb[t]) = max_sim(texts(t), all, prompt_emb[t])
  BY <1>4 DEF max_sim
<1>6. QED
  BY <1>2, <1>5 DEF Similarity, unit

\* The search of a thread whose locals do not change is undisturbed.
LEMMA SearchUndisturbed ==
  ASSUME NEW u \in Threads, Searched(u),
         pc'[u] = pc[u], req'[u] = req[u], cand'[u] = cand[u],
         best'[u] = best[u], response'[u] = response[u],
         prompt_emb'[u] = prompt_emb[u]
  PROVE  Searched(u)'
<1>1. texts(u)' = texts(u) /\ Active(u)' = Active(u)
  BY DEF texts, Active
<1>2. QED
  BY <1>1 DEF Searched

\* Within _embed the search stands still.
LEMMA SearchWithinEmbed ==
  ASSUME NEW t \in Threads, Searched(t), Active(t), texts(t) # <<>>,
         pc'[t] \in {"scan", "embed", "store", "read"},
         UNCHANGED <<req, cand, best, response, prompt_emb>>
  PROVE  Searched(t)'
<1>1. texts(t)' = texts(t)
  BY DEF texts
<1>2. Active(t)'
  BY DEF Active
<1>3. pc'[t] \notin {"idle", "done"}
  OBVIOUS
<1>4. QED
  BY <1>1, <1>2, <1>3 DEF Searched

\* The loop over the candidates goes on with the best so far, or ends.
LEMMA SearchContinues ==
  ASSUME SInv, NEW t \in Threads, NEW b, Active(t), Searched(t),
         DOMAIN best = Threads, DOMAIN response = Threads,
         Continue(t, cand[t], b),
         BestAmong(req[t], cand[t], b),
         prompt_emb'[t] = unit(req[t].prompt)
  PROVE  Searched(t)'
<1>1. /\ req[t] \in PickRequests
      /\ cand[t] \in Nat
      /\ cand[t] <= Len(req[t].candidates)
      /\ Len(req[t].candidates) \in Nat
  BY CandidatesLength DEF Active, SInv, TypeOK, LoopsInBounds
<1>2. req' = req /\ best'[t] = b
  BY DEF Continue
<1>3. CASE cand[t] = Len(req[t].candidates)
  <2>1. pc'[t] = "done" /\ response'[t] = b
    BY <1>3 DEF Continue, SInv, TypeOK
  <2>2. req[t].candidates # <<>>
    BY DEF Searched
  <2>3. QED
    BY <2>1, <2>2, <1>1, <1>2, <1>3 DEF Searched, Active
<1>4. CASE cand[t] # Len(req[t].candidates)
  <2>1. pc'[t] = "scan" /\ response' = response /\ cand'[t] = cand[t] + 1
    BY <1>4 DEF Continue, SInv, TypeOK
  <2>2. response[t] = None /\ cand'[t] > 0 /\ cand'[t] - 1 = cand[t] /\ cand'[t] # 0
    BY <2>1, <1>1 DEF Searched
  <2>3. Active(t)'
    BY <2>1 DEF Active
  <2>4. QED
    BY <2>1, <2>2, <2>3, <1>2 DEF Searched
<1>5. QED
  BY <1>3, <1>4

LEMMA BInvInit == Init => BInv
<1> SUFFICES ASSUME Init PROVE BInv
  OBVIOUS
<1>1. \A t \in Threads : Searched(t)
  BY DEF Init, Searched, Active
<1>2. DOMAIN best = Threads /\ DOMAIN response = Threads /\ DOMAIN prompt_emb = Threads
  BY DEF Init
<1>3. QED
  BY <1>1, <1>2, SInvInit DEF BInv

\* A step of thread t leaves the searches of the others alone.
LEMMA OnlyOwnSearch ==
  ASSUME BInv, NEW t \in Threads, Receive(t) \/ Step(t) \/ Return(t)
  PROVE  \A u \in Threads \ {t} : Searched(u)'
<1> SUFFICES ASSUME NEW u \in Threads \ {t} PROVE Searched(u)'
  OBVIOUS
<1>1. /\ pc'[u] = pc[u] /\ req'[u] = req[u] /\ cand'[u] = cand[u]
      /\ best'[u] = best[u] /\ response'[u] = response[u]
      /\ prompt_emb'[u] = prompt_emb[u]
  <2>1. CASE Receive(t)
    BY <2>1 DEF Receive, BInv, SInv, TypeOK
  <2>2. CASE Scan(t) \/ Embed(t) \/ Store(t)
    BY <2>2 DEF Scan, Embed, Store, BInv, SInv, TypeOK
  <2>3. CASE EmbedRaises(t)
    BY <2>3 DEF EmbedRaises, locals, BInv, SInv, TypeOK
  <2>4. CASE Read(t)
    <3>1. CASE ~AllCached(t)
      BY <2>4, <3>1 DEF Read, locals, BInv, SInv, TypeOK
    <3>2. CASE AllCached(t)
      BY <2>4, <3>2 DEF Read, Continue, BInv, SInv, TypeOK
    <3>3. QED
      BY <3>1, <3>2
  <2>5. CASE SkipCandidate(t)
    BY <2>5 DEF SkipCandidate, Continue, BInv, SInv, TypeOK
  <2>6. CASE Return(t)
    BY <2>6 DEF Return, BInv, SInv, TypeOK
  <2>7. QED
    BY <2>1, <2>2, <2>3, <2>4, <2>5, <2>6 DEF Step
<1>2. QED
  BY <1>1, SearchUndisturbed DEF BInv

\* The thread's own search, step by step.
LEMMA OwnSearch ==
  ASSUME BInv, NEW t \in Threads, Receive(t) \/ Step(t) \/ Return(t)
  PROVE  Searched(t)'
<1> USE DEF BInv
<1>1. CASE Receive(t)
  <2>1. PICK r \in PickRequests :
          /\ req' = [req EXCEPT ![t] = r]
          /\ IF r.candidates = <<>>
               THEN /\ pc' = [pc EXCEPT ![t] = "done"]
                    /\ response' = [response EXCEPT ![t] =
                                      [model_id |-> "", score |-> 0]]
               ELSE /\ pc' = [pc EXCEPT ![t] = "scan"]
                    /\ UNCHANGED response
    BY <1>1 DEF Receive
  <2>2. /\ best'[t] = NoMatch /\ response[t] = None
        /\ cand'[t] = 0 /\ req'[t] = r
    BY <1>1, <2>1 DEF Receive, Searched, SInv, TypeOK, Accounted
  <2>3. CASE r.candidates = <<>>
    <3>1. pc'[t] = "done" /\ response'[t] = [model_id |-> "", score |-> 0]
      BY <2>1, <2>3 DEF SInv, TypeOK
    <3>2. QED
      BY <3>1, <2>2, <2>3 DEF Searched, Active
  <2>4. CASE r.candidates # <<>>
    <3>1. pc'[t] = "scan" /\ response'[t] = None
      BY <2>1, <2>2, <2>4 DEF SInv, TypeOK
    <3>2. ~(cand'[t] > 0)
      BY <2>2
    <3>3. QED
      BY <3>1, <3>2, <2>2, <2>4 DEF Searched, Active
  <2>5. QED
    BY <2>3, <2>4
<1>2. CASE Scan(t)
  <2>1. texts(t) # <<>>
    <3>1. i[t] \in Nat /\ i[t] >= 1 /\ i[t] <= Len(texts(t))
      BY <1>2 DEF Scan, SInv, TypeOK, LoopsInBounds
    <3>2. Len(<<>>) = 0
      OBVIOUS
    <3>3. QED
      BY <3>1, <3>2
  <2>2. pc'[t] \in {"scan", "embed", "read"}
    BY <1>2 DEF Scan, SInv, TypeOK
  <2>3. QED
    BY <1>2, <2>1, <2>2, SearchWithinEmbed DEF Scan, Active
<1>3. CASE Embed(t) \/ Store(t)
  <2>1. texts(t) # <<>> /\ Active(t)
    BY <1>3 DEF Embed, Store, Searched, Active
  <2>2. pc'[t] \in {"store", "read"}
    BY <1>3 DEF Embed, Store, SInv, TypeOK
  <2>3. QED
    BY <1>3, <2>1, <2>2, SearchWithinEmbed DEF Embed, Store
<1>4. CASE /\ pc' = [pc EXCEPT ![t] = "done"]
           /\ UNCHANGED <<cache, locals>>
           /\ Active(t)
  <2>1. pc'[t] = "done" /\ response'[t] = None
    BY <1>4 DEF locals, Searched, SInv, TypeOK
  <2>2. QED
    BY <2>1 DEF Searched, Active
<1>5. CASE Read(t) /\ AllCached(t)
  <2>1. pc[t] = "read" /\ Active(t) /\ cand[t] \in Nat /\ req[t] \in PickRequests
    BY <1>5 DEF Read, Active, SInv, TypeOK, LoopsInBounds
  <2>2. CASE cand[t] = 0
    <3>1. Continue(t, cand[t], best[t]) /\ prompt_emb'[t] = cache[req[t].prompt]
      BY <1>5, <2>2 DEF Read
    <3>2. req[t].prompt \in DOMAIN cache
      BY <1>5, <2>2 DEF AllCached, texts
    <3>3. prompt_emb'[t] = unit(req[t].prompt)
      BY <3>1, <3>2 DEF SInv, CacheIsFaithful, unit
    <3>4. BestAmong(req[t], cand[t], best[t])
      <4>1. best[t] = NoMatch
        BY <2>1, <2>2 DEF Searched
      <4>2. \A d \in Described(req[t]) : ~(d <= 0)
        BY <2>1, DescribedRange, CandidatesLength
      <4>3. QED
        BY <4>1, <4>2, <2>2 DEF BestAmong
    <3>5. QED
      BY <3>1, <3>3, <3>4, <2>1, SearchContinues
  <2>3. CASE cand[t] # 0
    <3> DEFINE c == cand[t]
               s == max_sim(texts(t), cache, prompt_emb[t])
    <3>1. Continue(t, c, Compared(t, s)) /\ prompt_emb' = prompt_emb
      BY <1>5, <2>3 DEF Read
    <3>2. /\ c > 0 /\ c - 1 \in Nat /\ (c - 1) + 1 = c
          /\ BestAmong(req[t], c - 1, best[t])
          /\ prompt_emb[t] = unit(req[t].prompt)
      <4>1. c > 0 /\ c - 1 \in Nat /\ (c - 1) + 1 = c
        BY <2>1, <2>3
      <4>2. QED
        BY <4>1, <2>1 DEF Searched
    <3>3. s = Similarity(req[t], c)
      BY <1>5, <2>1, <3>2, ReadSimilarity
    <3>4. c \in Described(req[t])
      <4>1. texts(t) # <<>> /\ texts(t) = req[t].candidates[c].descriptions
        BY <2>1, <2>3 DEF Searched, texts
      <4>2. c \in 1..Len(req[t].candidates)
        <5>1. c <= Len(req[t].candidates)
          BY <2>1 DEF SInv, TypeOK, LoopsInBounds
        <5>2. QED
          BY <5>1, <2>1, <3>2, CandidatesLength
      <4>3. DOMAIN req[t].candidates = 1..Len(req[t].candidates)
        <5> DEFINE Candidate == [model_id : STRING, descriptions : Seq(Texts)]
        <5>1. req[t].candidates \in Seq(Candidate)
          BY <2>1, PickRequestsAssumption
        <5> HIDE DEF Candidate
        <5>2. QED
          BY <5>1
      <4>4. QED
        BY <4>1, <4>2, <4>3 DEF Described
    <3> HIDE DEF c, s
    <3>5. BestAmong(req[t], c, IF Similarity(req[t], c) > best[t].score
                                 THEN [model_id |-> req[t].candidates[c].model_id,
                                       score |-> Similarity(req[t], c)]
                                 ELSE best[t])
      <4> DEFINE n == c - 1
      <4>1. n \in Nat /\ n + 1 = c /\ BestAmong(req[t], n, best[t])
        BY <3>2
      <4> HIDE DEF n
      <4>2. n + 1 \in Described(req[t])
        BY <4>1, <3>4
      <4>3. QED
        BY <4>1, <4>2, <2>1, BestAmongCompare
    <3>6. BestAmong(req[t], c, Compared(t, s))
      BY <3>3, <3>5 DEF Compared, Better, c
    <3>7. QED
      BY <3>1, <3>2, <3>6, <2>1, SearchContinues DEF c
  <2>4. QED
    BY <2>2, <2>3
<1>6. CASE SkipCandidate(t)
  <2>1. /\ pc[t] = "scan" /\ texts(t) = <<>> /\ Continue(t, cand[t], best[t])
        /\ prompt_emb' = prompt_emb /\ Active(t)
    BY <1>6 DEF SkipCandidate, Active
  <2>2. cand[t] # 0 /\ cand[t] \in Nat /\ req[t] \in PickRequests
    <3>1. cand[t] \in Nat /\ req[t] \in PickRequests
      BY <2>1 DEF SInv, TypeOK, LoopsInBounds
    <3>2. QED
      BY <3>1, <2>1 DEF texts
  <2>3. BestAmong(req[t], cand[t] - 1, best[t]) /\ prompt_emb[t] = unit(req[t].prompt)
    <3>1. cand[t] > 0
      BY <2>2
    <3>2. QED
      BY <3>1, <2>1 DEF Searched
  <2>4. cand[t] \notin Described(req[t])
    BY <2>1, <2>2 DEF texts, Described
  <2>5. BestAmong(req[t], cand[t], best[t])
    <3> DEFINE n == cand[t] - 1
    <3>1. n \in Nat /\ n + 1 = cand[t] /\ BestAmong(req[t], n, best[t])
      BY <2>2, <2>3
    <3> HIDE DEF n
    <3>2. n + 1 \notin Described(req[t])
      BY <3>1, <2>4
    <3>3. BestAmong(req[t], n + 1, best[t])
      BY <3>1, <3>2, <2>2, BestAmongSkip
    <3>4. QED
      BY <3>1, <3>3
  <2>6. QED
    BY <2>1, <2>3, <2>5, SearchContinues
<1>7. CASE Return(t)
  <2>1. pc'[t] = "idle" /\ best'[t] = NoMatch /\ response'[t] = None
    BY <1>7 DEF Return, SInv, TypeOK
  <2>2. QED
    BY <2>1 DEF Searched, Active
<1>8. EmbedRaises(t) \/ (Read(t) /\ ~AllCached(t)) =>
        /\ pc' = [pc EXCEPT ![t] = "done"]
        /\ UNCHANGED <<cache, locals>>
        /\ Active(t)
  BY DEF EmbedRaises, Read, Active
<1>9. QED
  BY <1>1, <1>2, <1>3, <1>4, <1>5, <1>6, <1>7, <1>8 DEF Step

LEMMA BInvNext == BInv /\ [Next]_vars => BInv'
<1> SUFFICES ASSUME BInv, [Next]_vars PROVE BInv'
  OBVIOUS
<1>1. SInv'
  BY SInvNext DEF BInv
<1>2. CASE UNCHANGED vars
  <2>1. UNCHANGED <<pc, req, cand, best, response, prompt_emb>>
    BY <1>2 DEF vars, locals
  <2>2. \A u \in Threads : Searched(u)'
    BY <2>1, SearchUndisturbed DEF BInv
  <2>3. QED
    BY <1>1, <2>1, <2>2 DEF BInv
<1>3. ASSUME NEW t \in Threads, Receive(t) \/ Step(t) \/ Return(t)
      PROVE  BInv'
  <2>1. \A u \in Threads : Searched(u)'
    BY <1>3, OwnSearch, OnlyOwnSearch
  <2>2. DOMAIN best' = Threads /\ DOMAIN response' = Threads /\ DOMAIN prompt_emb' = Threads
    BY <1>3 DEF BInv, Receive, Step, Scan, Embed, EmbedRaises, Store, Read,
                SkipCandidate, Continue, Return, locals
  <2>3. QED
    BY <1>1, <2>1, <2>2 DEF BInv
<1>4. QED
  BY <1>2, <1>3 DEF Next

\* Every response of /pick names the first of the best candidates of its own
\* request with its score, or nobody when no candidate is better than -1:
\* for any number of threads sharing the cache, any requests and any
\* embedding model (pick_best, selector.py:44-82).
THEOREM PickReturnsTheBest == Spec => []PicksTheBest
<1>1. BInv => PicksTheBest
  <2> SUFFICES ASSUME BInv, NEW t \in Threads, pc[t] = "done", response[t] # None
               PROVE  LET r == req[t]
                      IN  IF \E c \in Described(r) : IsWinner(r, c)
                            THEN \E c \in Described(r) :
                                   /\ IsWinner(r, c)
                                   /\ response[t] = [model_id |-> r.candidates[c].model_id,
                                                     score |-> Similarity(r, c)]
                            ELSE response[t] = [model_id |-> "",
                                                score |-> IF r.candidates = <<>>
                                                            THEN 0 ELSE -One]
    BY DEF PicksTheBest
  <2> DEFINE r == req[t]
  <2>1. /\ r \in PickRequests
        /\ IF r.candidates = <<>>
             THEN response[t] = [model_id |-> "", score |-> 0]
             ELSE BestAmong(r, Len(r.candidates), response[t])
    BY DEF BInv, Searched
  <2> HIDE DEF r
  <2>2. \A d \in Described(r) : d <= Len(r.candidates) /\ Similarity(r, d) \in Int
    <3>1. \A d \in Described(r) : d <= Len(r.candidates)
      <4>1. r \in PickRequests
        BY <2>1
      <4>2. Described(r) \subseteq 1..Len(r.candidates)
        BY <4>1, DescribedRange
      <4>3. Len(r.candidates) \in Nat
        BY <4>1, CandidatesLength
      <4>4. QED
        BY <4>2, <4>3
    <3>2. \A d \in Described(r) : Similarity(r, d) \in -One..One
      BY <2>1, SimilarityIsScore
    <3>3. QED
      BY <3>1, <3>2, CosinesAssumption
  <2>3. One \in Nat
    BY CosinesAssumption
  <2>4. CASE r.candidates = <<>>
    <3>1. Described(r) = {}
      BY <2>4 DEF Described
    <3>2. QED
      BY <3>1, <2>1, <2>4 DEF r
  <2>5. CASE /\ r.candidates # <<>> /\ response[t] = NoMatch
             /\ \A d \in Described(r) :
                  d <= Len(r.candidates) => Similarity(r, d) <= -One
    <3>1. \A c \in Described(r) : ~IsWinner(r, c)
      BY <2>2, <2>3, <2>5 DEF IsWinner
    <3>2. QED
      BY <3>1, <2>5 DEF NoMatch, r
  <2>6. CASE \E c \in Described(r) :
               /\ Similarity(r, c) > -One
               /\ \A d \in Described(r) : d <= Len(r.candidates) =>
                    /\ Similarity(r, d) <= Similarity(r, c)
                    /\ d < c => Similarity(r, d) < Similarity(r, c)
               /\ response[t] = [model_id |-> r.candidates[c].model_id,
                                 score |-> Similarity(r, c)]
    BY <2>2, <2>6 DEF IsWinner, r
  <2>7. QED
    BY <2>1, <2>4, <2>5, <2>6 DEF BestAmong
<1>2. QED
  BY <1>1, BInvInit, BInvNext, PTL DEF Spec

=============================================================================
