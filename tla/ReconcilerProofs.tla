-------------------------- MODULE ReconcilerProofs --------------------------
(***************************************************************************)
(* Proofs about the controllers, for any number of replicas, objects,      *)
(* edits and faults.                                                       *)
(***************************************************************************)
EXTENDS Reconciler, TLAPS

Versions == Objects \cup {None}

-----------------------------------------------------------------------------
(* Objects and jobs *)

\* The fields of an object.
LEMMA ObjectFields ==
  ASSUME NEW o \in Objects
  PROVE  /\ o # None /\ o.spec \in Specs /\ o.rv \in Nat
         /\ o.deleting \in BOOLEAN /\ o.finalizer \in BOOLEAN
  BY ObjectsAssumption DEF Objects

\* The fields of an object made by Create.
LEMMA CreatedObject ==
  ASSUME NEW s \in Specs, NEW v \in Nat
  PROVE  LET o == [spec |-> s, rv |-> v, deleting |-> FALSE, finalizer |-> FALSE]
         IN  o \in Objects /\ o.spec = s /\ o.rv = v /\ ~o.deleting /\ ~o.finalizer
  BY DEF Objects

Respecified(a, s, v) == [a EXCEPT !.spec = s, !.rv = v]

\* UpdateSpec changes the spec and the version.
LEMMA RespecifiedObject ==
  ASSUME NEW a \in Objects, NEW s \in Specs, NEW v \in Nat
  PROVE  /\ Respecified(a, s, v) \in Objects
         /\ Respecified(a, s, v).spec = s /\ Respecified(a, s, v).rv = v
         /\ Respecified(a, s, v).deleting = a.deleting
         /\ Respecified(a, s, v).finalizer = a.finalizer
  BY DEF Objects, Respecified

\* Delete marks an object that has a finalizer.
LEMMA MarkedObject ==
  ASSUME NEW a \in Objects, NEW v \in Nat
  PROVE  LET o == [a EXCEPT !.deleting = TRUE, !.rv = v]
         IN  /\ o \in Objects /\ o.spec = a.spec /\ o.rv = v
             /\ o.deleting /\ o.finalizer = a.finalizer
  BY DEF Objects

\* Reconcile adds the finalizer.
LEMMA FinalizedObject ==
  ASSUME NEW a \in Objects, NEW v \in Nat
  PROVE  LET o == [a EXCEPT !.finalizer = TRUE, !.rv = v]
         IN  /\ o \in Objects /\ o.spec = a.spec /\ o.rv = v
             /\ o.deleting = a.deleting /\ o.finalizer
  BY DEF Objects

\* The fields of a job.
LEMMA JobFields ==
  ASSUME NEW w \in Jobs
  PROVE  w.pc \in WorkerPCs /\ w.name \in Names /\ w.obj \in Objects /\ w # Idle
  BY DEF Jobs, WorkerPCs, Idle

\* At makes a job.
LEMMA AtIsJob ==
  ASSUME NEW label \in WorkerPCs, NEW n \in Names, NEW o \in Objects
  PROVE  /\ At(label, n, o) \in Jobs
         /\ At(label, n, o).pc = label /\ At(label, n, o).name = n /\ At(label, n, o).obj = o
  BY DEF Jobs, At

\* An idle worker is at no label.
LEMMA IdleFields == Idle.pc = "idle" /\ "idle" \notin WorkerPCs
  BY DEF Idle, WorkerPCs

\* The branch Reconcile takes with a version of n.
LEMMA BranchJob ==
  ASSUME NEW n \in Names, NEW o \in Versions
  PROVE  \/ Branch(n, o) = Idle
         \/ /\ o \in Objects
            /\ \/ o.deleting /\ o.finalizer /\ Branch(n, o) = At("delete", n, o)
               \/ ~o.deleting /\ o.finalizer /\ Branch(n, o) = At("sync", n, o)
               \/ ~o.deleting /\ ~o.finalizer /\ Branch(n, o) = At("addFinalizer", n, o)
<1>1. CASE o = None
  BY <1>1 DEF Branch
<1>2. CASE o # None
  <2>1. o \in Objects /\ o.deleting \in BOOLEAN /\ o.finalizer \in BOOLEAN
    BY <1>2, ObjectFields DEF Versions
  <2>2. CASE o.deleting
    BY <1>2, <2>1, <2>2 DEF Branch
  <2>3. CASE ~o.deleting
    BY <1>2, <2>1, <2>3 DEF Branch
  <2> QED BY <2>2, <2>3
<1> QED BY <1>1, <1>2

\* What Update writes.
LEMMA UpdatedObject ==
  ASSUME NEW w \in Jobs, rv \in [Names -> Nat], w.pc \in {"removeFinalizer", "addFinalizer"}
  PROVE  /\ w.pc = "removeFinalizer" => Updated(w) = None
         /\ w.pc = "addFinalizer" =>
              /\ Updated(w) \in Objects
              /\ Updated(w).spec = w.obj.spec
              /\ Updated(w).rv = rv[w.name] + 1
              /\ Updated(w).deleting = w.obj.deleting
              /\ Updated(w).finalizer
<1>1. w.obj \in Objects /\ w.name \in Names
  BY JobFields
<1>2. rv[w.name] + 1 \in Nat
  BY <1>1
<1> QED BY <1>1, <1>2, FinalizedObject DEF Updated

-----------------------------------------------------------------------------
(* The store *)

\* SyncUser and SyncModel put a spec under its own id or leave the map alone.
LEMMA SyncSpecEffect ==
  ASSUME NEW k \in Kinds, NEW map \in [Ids -> Specs \cup {None}], NEW s \in Specs
  PROVE  /\ SyncSpec(k, map, s) \in [Ids -> Specs \cup {None}]
         /\ \A i \in Ids : SyncSpec(k, map, s)[i] =
              IF i = s.id THEN s ELSE map[i]
<1>1. s.id \in Ids \/ s.id = ""
  BY DEF Ids
<1>2. "" \notin Ids
  BY DEF Ids
<1> QED BY <1>1, <1>2 DEF SyncSpec, SyncUser, SyncModel, ValidId

\* DeleteUser and DeleteModel empty one entry.
LEMMA DeleteSpecEffect ==
  ASSUME NEW k \in Kinds, NEW map \in [Ids -> Specs \cup {None}], NEW id
  PROVE  /\ DeleteSpec(k, map, id) \in [Ids -> Specs \cup {None}]
         /\ \A i \in Ids : DeleteSpec(k, map, id)[i] = IF i = id THEN None ELSE map[i]
  BY DEF DeleteSpec, DeleteUser, DeleteModel

-----------------------------------------------------------------------------
(* What a replica knows of a name: its cached version, then the events *)

Held(c, es) == ({c} \cup {es[i] : i \in 1..Len(es)}) \ {None}

\* Versions come in the order in which they were written.
Sorted(c, es) ==
  /\ \A j \in 1..Len(es) : c # None /\ es[j] # None => c.rv <= es[j].rv
  /\ \A i, j \in 1..Len(es) :
       i < j /\ es[i] # None /\ es[j] # None => es[i].rv <= es[j].rv

\* The held versions are objects.
LEMMA HeldObjects ==
  ASSUME NEW c \in Versions, NEW es \in Seq(Versions)
  PROVE  Held(c, es) \subseteq Objects
  BY DEF Held, Versions

\* A version before which nothing is held, and one after which nothing is.
LEMMA HeldSorted ==
  ASSUME NEW c \in Versions, NEW es \in Seq(Versions), Sorted(c, es), c # None,
         NEW e \in Held(c, es)
  PROVE  c.rv <= e.rv
<1>1. c.rv <= c.rv
  BY ObjectFields DEF Versions
<1> QED BY <1>1 DEF Held, Sorted

\* A new event comes last.
LEMMA HeldAppend ==
  ASSUME NEW c \in Versions, NEW es \in Seq(Versions), NEW o \in Versions
  PROVE  /\ Append(es, o) \in Seq(Versions)
         /\ Held(c, Append(es, o)) = Held(c, es) \cup ({o} \ {None})
         /\ Sorted(c, es) /\ (o # None => \A e \in Held(c, es) : e.rv <= o.rv)
              => Sorted(c, Append(es, o))
<1> DEFINE fs == Append(es, o)
<1>1. /\ fs \in Seq(Versions) /\ Len(fs) = Len(es) + 1 /\ Len(es) \in Nat
      /\ fs[Len(es) + 1] = o
      /\ \A i \in 1..Len(es) : fs[i] = es[i]
  OBVIOUS
<1> HIDE DEF fs
<1>2. 1..Len(fs) = (1..Len(es)) \cup {Len(es) + 1}
  BY <1>1
<1>3. Held(c, fs) = Held(c, es) \cup ({o} \ {None})
  BY <1>1, <1>2 DEF Held
<1>4. ASSUME Sorted(c, es), o # None => \A e \in Held(c, es) : e.rv <= o.rv
      PROVE  Sorted(c, fs)
  <2>1. \A i \in 1..Len(es) : o # None /\ es[i] # None => es[i].rv <= o.rv
    BY <1>4 DEF Held
  <2>2. o # None /\ c # None => c.rv <= o.rv
    BY <1>4 DEF Held
  <2>3. \A j \in 1..Len(fs) : c # None /\ fs[j] # None => c.rv <= fs[j].rv
    BY <1>1, <1>2, <1>4, <2>2 DEF Sorted
  <2>4. ASSUME NEW i \in 1..Len(fs), NEW j \in 1..Len(fs), i < j, fs[i] # None, fs[j] # None
        PROVE  fs[i].rv <= fs[j].rv
    <3>1. i \in 1..Len(es)
      BY <1>1, <2>4
    <3>2. CASE j \in 1..Len(es)
      BY <1>1, <1>4, <2>4, <3>1, <3>2 DEF Sorted
    <3>3. CASE j = Len(es) + 1
      BY <1>1, <2>1, <2>4, <3>1, <3>3
    <3> QED BY <1>2, <3>2, <3>3
  <2> QED BY <2>3, <2>4 DEF Sorted
<1> QED BY <1>1, <1>3, <1>4 DEF fs

\* A delivery, or a new list, drops versions from the front.
LEMMA HeldDeliver ==
  ASSUME NEW c \in Versions, NEW es \in Seq(Versions), NEW i \in 1..Len(es)
  PROVE  LET fs == SubSeq(es, i + 1, Len(es)) IN
         /\ es[i] \in Versions /\ fs \in Seq(Versions)
         /\ Held(es[i], fs) \subseteq Held(c, es)
         /\ Sorted(c, es) => Sorted(es[i], fs)
<1> DEFINE fs == SubSeq(es, i + 1, Len(es))
<1>1. /\ fs \in Seq(Versions) /\ Len(es) \in Nat /\ i \in Nat /\ es[i] \in Versions
      /\ Len(fs) = Len(es) - i
      /\ \A j \in 1..Len(es) - i : fs[j] = es[i + j]
  OBVIOUS
<1> HIDE DEF fs
<1>2. \A j \in 1..Len(fs) : i + j \in 1..Len(es) /\ i < i + j /\ fs[j] = es[i + j]
  BY <1>1
<1>3. Held(es[i], fs) \subseteq Held(c, es)
  BY <1>2 DEF Held
<1>4. ASSUME Sorted(c, es) PROVE Sorted(es[i], fs)
  <2>1. \A j \in 1..Len(fs) : es[i] # None /\ fs[j] # None => es[i].rv <= fs[j].rv
    BY <1>2, <1>4 DEF Sorted
  <2>2. ASSUME NEW a \in 1..Len(fs), NEW b \in 1..Len(fs), a < b, fs[a] # None, fs[b] # None
        PROVE  fs[a].rv <= fs[b].rv
    <3>1. i + a < i + b
      BY <1>1, <2>2
    <3> QED BY <1>2, <1>4, <2>2, <3>1 DEF Sorted
  <2> QED BY <2>1, <2>2 DEF Sorted
<1> QED BY <1>1, <1>3, <1>4 DEF fs

\* A replica that has only listed, or knows nothing.
LEMMA HeldAlone ==
  ASSUME NEW c
  PROVE  Held(c, << >>) = {c} \ {None} /\ Sorted(c, << >>) /\ << >> \in Seq(Versions)
  BY DEF Held, Sorted

-----------------------------------------------------------------------------
(* Types *)

\* A write gives n its next version and tells the running controllers.
LEMMA WriteEffect ==
  ASSUME TypeOK, NEW n \in Names, NEW o \in Versions, Write(n, o)
  PROVE  /\ api' \in [Names -> Versions] /\ rv' \in [Names -> Nat]
         /\ events' \in [Replicas -> [Names -> Seq(Versions)]]
         /\ api'[n] = o /\ rv'[n] = rv[n] + 1
         /\ \A m \in Names \ {n} : api'[m] = api[m] /\ rv'[m] = rv[m]
         /\ \A r \in Replicas :
              /\ events'[r][n] = IF KindOf[n] \in started[r] THEN Append(events[r][n], o)
                                                            ELSE events[r][n]
              /\ \A m \in Names \ {n} : events'[r][m] = events[r][m]
<1>1. /\ api \in [Names -> Versions] /\ rv \in [Names -> Nat]
      /\ events \in [Replicas -> [Names -> Seq(Versions)]]
  BY DEF TypeOK, Versions
<1>2. \A r \in Replicas : Append(events[r][n], o) \in Seq(Versions)
  BY <1>1
<1>3. api' \in [Names -> Versions] /\ rv' \in [Names -> Nat]
      /\ api'[n] = o /\ rv'[n] = rv[n] + 1
      /\ \A m \in Names \ {n} : api'[m] = api[m] /\ rv'[m] = rv[m]
  BY <1>1 DEF Write
<1>4. /\ events' \in [Replicas -> [Names -> Seq(Versions)]]
      /\ \A r \in Replicas :
           /\ events'[r][n] = IF KindOf[n] \in started[r] THEN Append(events[r][n], o)
                                                         ELSE events[r][n]
           /\ \A m \in Names \ {n} : events'[r][m] = events[r][m]
  <2> DEFINE E(r) == IF KindOf[n] \in started[r]
                       THEN [events[r] EXCEPT ![n] = Append(@, o)] ELSE events[r]
  <2>1. \A r \in Replicas :
          /\ E(r) \in [Names -> Seq(Versions)]
          /\ E(r)[n] = IF KindOf[n] \in started[r] THEN Append(events[r][n], o)
                                                  ELSE events[r][n]
          /\ \A m \in Names \ {n} : E(r)[m] = events[r][m]
    BY <1>1, <1>2
  <2>2. events' = [r \in Replicas |-> E(r)]
    BY DEF Write
  <2> HIDE DEF E
  <2> QED BY <2>1, <2>2
<1> QED BY <1>3, <1>4

\* The administrator's edits are writes.
LEMMA EditEffect ==
  ASSUME TypeOK, NEW n \in Names,
         (\E s \in SpecsOf[n] : Create(n, s) \/ UpdateSpec(n, s)) \/ Delete(n)
  PROVE  /\ \E o \in Versions :
              /\ Write(n, o)
              /\ o # None => /\ o.rv = rv[n] + 1
                             /\ o.spec \in SpecsOf[n] \/ (api[n] # None /\ o.spec = api[n].spec)
              /\ api[n] = None => o # None /\ ~o.finalizer /\ ~o.deleting
              /\ api[n] # None /\ o # None => /\ o.finalizer = api[n].finalizer
                                              /\ o.deleting => api[n].deleting \/ api[n].finalizer
              /\ api[n] # None /\ o = None => ~api[n].finalizer
         /\ edits' \in 0..MaxEdits
         /\ UNCHANGED <<processVars, cache, queue, worker, storeVars, faults>>
<1>1. api[n] \in Versions /\ rv[n] + 1 \in Nat
  BY DEF TypeOK, Versions
<1>2. SpecsOf[n] \subseteq Specs
  BY DEF Specs
<1>3. edits' \in 0..MaxEdits
  <2>1. Edit
    BY DEF Create, UpdateSpec, Delete
  <2> QED BY <2>1, BoundsAssumption DEF Edit, TypeOK
<1>4. UNCHANGED <<processVars, cache, queue, worker, storeVars, faults>>
  BY DEF Create, UpdateSpec, Delete
<1>5. CASE \E s \in SpecsOf[n] : Create(n, s)
  <2>1. PICK s \in SpecsOf[n] : Create(n, s)
    BY <1>5
  <2> DEFINE o == [spec |-> s, rv |-> rv[n] + 1, deleting |-> FALSE, finalizer |-> FALSE]
  <2>2. o \in Objects /\ o.spec = s /\ o.rv = rv[n] + 1 /\ ~o.deleting /\ ~o.finalizer
    BY <1>1, <1>2, CreatedObject
  <2>3. Write(n, o) /\ api[n] = None
    BY <2>1 DEF Create
  <2>4. o # None /\ o \in Versions
    BY <2>2, ObjectsAssumption DEF Versions
  <2> HIDE DEF o
  <2> QED BY <1>3, <1>4, <2>2, <2>3, <2>4
<1>6. CASE \E s \in SpecsOf[n] : UpdateSpec(n, s)
  <2>1. PICK s \in SpecsOf[n] : UpdateSpec(n, s)
    BY <1>6
  <2>2. api[n] # None /\ api[n] \in Objects /\ s \in Specs
    BY <1>1, <1>2, <2>1 DEF UpdateSpec, Versions
  <2> DEFINE o == Respecified(api[n], s, rv[n] + 1)
  <2>3. /\ o \in Objects /\ o.spec = s /\ o.rv = rv[n] + 1
        /\ o.deleting = api[n].deleting /\ o.finalizer = api[n].finalizer
    BY <1>1, <2>2, RespecifiedObject
  <2>4. Write(n, o)
    BY <2>1 DEF UpdateSpec, Respecified
  <2>5. o # None /\ o \in Versions
    BY <2>3, ObjectsAssumption DEF Versions
  <2> HIDE DEF o
  <2> QED BY <1>3, <1>4, <2>2, <2>3, <2>4, <2>5
<1>7. CASE Delete(n)
  <2>1. api[n] # None /\ api[n] \in Objects
    BY <1>1, <1>7 DEF Delete, Versions
  <2>2. CASE api[n].finalizer
    <3> DEFINE o == [api[n] EXCEPT !.deleting = TRUE, !.rv = rv[n] + 1]
    <3>1. /\ o \in Objects /\ o.spec = api[n].spec /\ o.rv = rv[n] + 1
          /\ o.deleting /\ o.finalizer = api[n].finalizer
      BY <1>1, <2>1, MarkedObject
    <3>2. Write(n, o)
      BY <1>7, <2>2 DEF Delete
    <3>3. o # None /\ o \in Versions
      BY <3>1, ObjectsAssumption DEF Versions
    <3> HIDE DEF o
    <3> QED BY <1>3, <1>4, <2>1, <2>2, <3>1, <3>2, <3>3
  <2>3. CASE ~api[n].finalizer
    <3>1. Write(n, None)
      BY <1>7, <2>3 DEF Delete
    <3> QED BY <1>3, <1>4, <2>1, <2>3, <3>1 DEF Versions
  <2> QED BY <2>2, <2>3
<1> QED BY <1>5, <1>6, <1>7

\* Faults are counted up to their bound.
LEMMA FaultTypes ==
  ASSUME TypeOK, Fault
  PROVE  faults' \in 0..MaxFaults
  BY BoundsAssumption DEF TypeOK, Fault

\* A worker that is at a label has a job.
LEMMA WorkerJob ==
  ASSUME TypeOK, NEW r \in Replicas, NEW k \in Kinds
  PROVE  /\ worker[r][k] \in Jobs \cup {Idle}
         /\ worker[r][k].pc \in WorkerPCs <=> worker[r][k] # Idle
         /\ worker[r][k] # Idle =>
              /\ worker[r][k] \in Jobs
              /\ worker[r][k].name \in Names /\ worker[r][k].obj \in Objects
              /\ worker[r][k].obj.rv \in Nat /\ worker[r][k].obj.spec \in Specs
              /\ worker[r][k].pc \in WorkerPCs
<1>1. worker[r][k] \in Jobs \cup {Idle}
  BY DEF TypeOK
<1>2. CASE worker[r][k] = Idle
  BY <1>2, IdleFields
<1>3. CASE worker[r][k] # Idle
  <2>1. worker[r][k] \in Jobs
    BY <1>1, <1>3
  <2> QED BY <2>1, JobFields, ObjectFields
<1> QED BY <1>1, <1>2, <1>3

\* One worker goes to another job.
LEMMA GoToEffect ==
  ASSUME TypeOK, NEW r \in Replicas, NEW k \in Kinds, NEW w \in Jobs \cup {Idle}, GoTo(r, k, w)
  PROVE  /\ worker' \in [Replicas -> [Kinds -> Jobs \cup {Idle}]]
         /\ worker'[r][k] = w
         /\ \A q \in Replicas, l \in Kinds :
              q # r \/ l # k => worker'[q][l] = worker[q][l]
<1>1. worker \in [Replicas -> [Kinds -> Jobs \cup {Idle}]]
  BY DEF TypeOK
<1>2. [worker[r] EXCEPT ![k] = w] \in [Kinds -> Jobs \cup {Idle}]
  BY <1>1
<1> QED BY <1>1, <1>2 DEF GoTo

\* Get takes a name from the queue to the branch its cached version calls for.
LEMMA GetEffect ==
  ASSUME TypeOK, NEW r \in Replicas, NEW n \in Names, Get(r, n)
  PROVE  /\ KindOf[n] \in Kinds /\ KindOf[n] \in started[r]
         /\ worker[r][KindOf[n]] = Idle
         /\ cache[r][n] \in Versions
         /\ Branch(n, cache[r][n]) \in Jobs \cup {Idle}
         /\ GoTo(r, KindOf[n], Branch(n, cache[r][n]))
         /\ queue' \in [Replicas -> SUBSET Names]
         /\ UNCHANGED <<clusterVars, processVars, cache, events, storeVars, faults>>
<1>1. KindOf[n] \in Kinds /\ cache[r][n] \in Versions
  BY KindsAssumption DEF TypeOK, Versions
<1>2. Branch(n, cache[r][n]) \in Jobs \cup {Idle}
  BY <1>1, BranchJob, AtIsJob DEF WorkerPCs
<1>3. queue' \in [Replicas -> SUBSET Names]
  BY DEF Get, TypeOK
<1> QED BY <1>1, <1>2, <1>3 DEF Get

\* Update writes a version of the worker's object.
LEMMA UpdateEffect ==
  ASSUME TypeOK, NEW r \in Replicas, NEW k \in Kinds,
         NEW w, w = worker[r][k], Update(r, k)
  PROVE  /\ w \in Jobs /\ w.name \in Names /\ w.obj \in Objects /\ w.pc \in WorkerPCs
         /\ w.pc \in {"removeFinalizer", "addFinalizer"}
         /\ Current(w.name, w.obj)
         /\ Updated(w) \in Versions
         /\ Write(w.name, Updated(w))
         /\ w.pc = "removeFinalizer" => Updated(w) = None /\ GoTo(r, k, Idle)
         /\ w.pc = "addFinalizer" => /\ Updated(w) \in Objects
                                     /\ At("sync", w.name, Updated(w)) \in Jobs
                                     /\ GoTo(r, k, At("sync", w.name, Updated(w)))
         /\ UNCHANGED <<edits, processVars, cache, queue, storeVars, faults>>
<1>1. w.pc \in {"removeFinalizer", "addFinalizer"}
  BY DEF Update
<1>2. w \in Jobs /\ w.name \in Names /\ w.obj \in Objects /\ w.pc \in WorkerPCs
  BY <1>1, WorkerJob, IdleFields DEF WorkerPCs
<1>3. rv \in [Names -> Nat]
  BY DEF TypeOK
<1>4. /\ w.pc = "removeFinalizer" => Updated(w) = None
      /\ w.pc = "addFinalizer" => Updated(w) \in Objects
  BY <1>1, <1>2, <1>3, UpdatedObject
<1>5. Updated(w) \in Versions
  BY <1>1, <1>4 DEF Versions
<1>6. w.pc = "addFinalizer" => At("sync", w.name, Updated(w)) \in Jobs
  BY <1>2, <1>4, AtIsJob DEF WorkerPCs
<1>7. /\ Current(w.name, w.obj) /\ Write(w.name, Updated(w))
      /\ w.pc = "removeFinalizer" => GoTo(r, k, Idle)
      /\ w.pc = "addFinalizer" => GoTo(r, k, At("sync", w.name, Updated(w)))
      /\ UNCHANGED <<edits, processVars, cache, queue, storeVars, faults>>
  BY DEF Update
<1> QED BY <1>1, <1>2, <1>4, <1>5, <1>6, <1>7

\* An Update that fails ends the Reconcile; it may have been applied.
LEMMA UpdateErrorEffect ==
  ASSUME TypeOK, NEW r \in Replicas, NEW k \in Kinds,
         NEW w, w = worker[r][k], UpdateRefused(r, k) \/ UpdateFails(r, k)
  PROVE  /\ w \in Jobs /\ w.name \in Names /\ w.obj \in Objects /\ w.pc \in WorkerPCs
         /\ w.pc \in {"removeFinalizer", "addFinalizer"}
         /\ Updated(w) \in Versions
         /\ \/ UNCHANGED <<api, rv, events>>
            \/ Current(w.name, w.obj) /\ Write(w.name, Updated(w))
         /\ GoTo(r, k, Idle)
         /\ queue' \in [Replicas -> SUBSET Names]
         /\ faults' \in 0..MaxFaults
         /\ UNCHANGED <<edits, processVars, cache, storeVars>>
<1>1. w.pc \in {"removeFinalizer", "addFinalizer"}
  BY DEF UpdateRefused, UpdateFails
<1>2. w \in Jobs /\ w.name \in Names /\ w.obj \in Objects /\ w.pc \in WorkerPCs
  BY <1>1, WorkerJob, IdleFields DEF WorkerPCs
<1>3. rv \in [Names -> Nat]
  BY DEF TypeOK
<1>4. Updated(w) \in Versions
  BY <1>1, <1>2, <1>3, UpdatedObject DEF Versions
<1>5. /\ \/ UNCHANGED <<api, rv, events>>
         \/ Current(w.name, w.obj) /\ Write(w.name, Updated(w))
      /\ ReturnError(r, k)
      /\ UNCHANGED <<edits, processVars, cache, storeVars>>
  BY DEF UpdateRefused, UpdateFails, clusterVars
<1>6. faults' \in 0..MaxFaults
  BY FaultTypes DEF UpdateRefused, UpdateFails, TypeOK
<1>7. GoTo(r, k, Idle) /\ queue' \in [Replicas -> SUBSET Names]
  BY <1>2, <1>5 DEF ReturnError, TypeOK
<1> QED BY <1>1, <1>2, <1>4, <1>5, <1>6, <1>7

\* DeleteFromStore empties the entry of the object's id.
LEMMA DeleteFromStoreEffect ==
  ASSUME TypeOK, NEW r \in Replicas, NEW k \in Kinds,
         NEW w, w = worker[r][k], DeleteFromStore(r, k)
  PROVE  /\ w \in Jobs /\ w.name \in Names /\ w.obj \in Objects /\ w.pc = "delete"
         /\ store' \in [Replicas -> [Kinds -> [Ids -> Specs \cup {None}]]]
         /\ \A i \in Ids : store'[r][k][i] =
              IF i = w.obj.spec.id THEN None ELSE store[r][k][i]
         /\ \A q \in Replicas, l \in Kinds : q # r \/ l # k => store'[q][l] = store[q][l]
         /\ syncedRV' \in [Replicas -> [Names -> Nat]]
         /\ syncedRV'[r][w.name] = w.obj.rv
         /\ \A q \in Replicas, m \in Names :
              q # r \/ m # w.name => syncedRV'[q][m] = syncedRV[q][m]
         /\ At("removeFinalizer", w.name, w.obj) \in Jobs
         /\ GoTo(r, k, At("removeFinalizer", w.name, w.obj))
         /\ UNCHANGED <<clusterVars, processVars, informerVars, synced, faults>>
<1>1. w.pc = "delete"
  BY DEF DeleteFromStore
<1>2. w \in Jobs /\ w.name \in Names /\ w.obj \in Objects /\ w.obj.rv \in Nat
  BY <1>1, WorkerJob, IdleFields DEF WorkerPCs
<1>3. /\ store \in [Replicas -> [Kinds -> [Ids -> Specs \cup {None}]]]
      /\ syncedRV \in [Replicas -> [Names -> Nat]]
  BY DEF TypeOK
<1> DEFINE new == DeleteSpec(k, store[r][k], w.obj.spec.id)
<1>4. /\ new \in [Ids -> Specs \cup {None}]
      /\ \A i \in Ids : new[i] = IF i = w.obj.spec.id THEN None ELSE store[r][k][i]
  BY <1>3, DeleteSpecEffect
<1>5. store' = [store EXCEPT ![r][k] = new]
  BY DEF DeleteFromStore
<1> HIDE DEF new
<1>6. [store[r] EXCEPT ![k] = new] \in [Kinds -> [Ids -> Specs \cup {None}]]
  BY <1>3, <1>4
<1>7. /\ store' \in [Replicas -> [Kinds -> [Ids -> Specs \cup {None}]]]
      /\ store'[r][k] = new
      /\ \A q \in Replicas, l \in Kinds : q # r \/ l # k => store'[q][l] = store[q][l]
  BY <1>3, <1>5, <1>6
<1>8. /\ syncedRV' \in [Replicas -> [Names -> Nat]]
      /\ syncedRV'[r][w.name] = w.obj.rv
      /\ \A q \in Replicas, m \in Names :
           q # r \/ m # w.name => syncedRV'[q][m] = syncedRV[q][m]
  <2>1. [syncedRV[r] EXCEPT ![w.name] = w.obj.rv] \in [Names -> Nat]
    BY <1>2, <1>3
  <2> QED BY <1>2, <1>3, <2>1 DEF DeleteFromStore
<1>9. At("removeFinalizer", w.name, w.obj) \in Jobs
  BY <1>2, AtIsJob DEF WorkerPCs
<1> QED BY <1>1, <1>2, <1>4, <1>7, <1>8, <1>9 DEF DeleteFromStore

\* Sync puts a valid spec under its id; an invalid one is queued again.
LEMMA SyncEffect ==
  ASSUME TypeOK, NEW r \in Replicas, NEW k \in Kinds,
         NEW w, w = worker[r][k], Sync(r, k)
  PROVE  /\ w \in Jobs /\ w.name \in Names /\ w.obj \in Objects /\ w.pc = "sync"
         /\ store' \in [Replicas -> [Kinds -> [Ids -> Specs \cup {None}]]]
         /\ \A i \in Ids : store'[r][k][i] =
              IF i = w.obj.spec.id THEN w.obj.spec ELSE store[r][k][i]
         /\ \A q \in Replicas, l \in Kinds : q # r \/ l # k => store'[q][l] = store[q][l]
         /\ syncedRV' \in [Replicas -> [Names -> Nat]]
         /\ syncedRV'[r][w.name] \in {w.obj.rv, syncedRV[r][w.name]}
         /\ \A q \in Replicas, m \in Names :
              q # r \/ m # w.name => syncedRV'[q][m] = syncedRV[q][m]
         /\ synced' \in [Replicas -> BOOLEAN]
         /\ GoTo(r, k, Idle)
         /\ queue' \in [Replicas -> SUBSET Names]
         /\ UNCHANGED <<clusterVars, processVars, cache, events, faults>>
<1>1. w.pc = "sync"
  BY DEF Sync
<1>2. /\ w \in Jobs /\ w.name \in Names /\ w.obj \in Objects
      /\ w.obj.rv \in Nat /\ w.obj.spec \in Specs
  BY <1>1, WorkerJob, IdleFields DEF WorkerPCs
<1>3. /\ store \in [Replicas -> [Kinds -> [Ids -> Specs \cup {None}]]]
      /\ syncedRV \in [Replicas -> [Names -> Nat]]
      /\ synced \in [Replicas -> BOOLEAN] /\ queue \in [Replicas -> SUBSET Names]
  BY DEF TypeOK
<1> DEFINE new == SyncSpec(k, store[r][k], w.obj.spec)
<1>4. /\ new \in [Ids -> Specs \cup {None}]
      /\ \A i \in Ids : new[i] =
           IF i = w.obj.spec.id THEN w.obj.spec ELSE store[r][k][i]
  <2>1. w.obj.spec \in Specs /\ store[r][k] \in [Ids -> Specs \cup {None}]
    BY <1>2, <1>3
  <2> QED BY <2>1, SyncSpecEffect
<1>5. store' = [store EXCEPT ![r][k] = new]
  BY DEF Sync
<1> HIDE DEF new
<1>6. [store[r] EXCEPT ![k] = new] \in [Kinds -> [Ids -> Specs \cup {None}]]
  BY <1>3, <1>4
<1>7. /\ store' \in [Replicas -> [Kinds -> [Ids -> Specs \cup {None}]]]
      /\ store'[r][k] = new
      /\ \A q \in Replicas, l \in Kinds : q # r \/ l # k => store'[q][l] = store[q][l]
  BY <1>3, <1>5, <1>6
<1>8. \/ /\ synced' = [synced EXCEPT ![r] = TRUE]
         /\ syncedRV' = [syncedRV EXCEPT ![r][w.name] = w.obj.rv]
         /\ GoTo(r, k, Idle)
         /\ UNCHANGED queue
      \/ ReturnError(r, k) /\ UNCHANGED <<synced, syncedRV>>
  BY DEF Sync
<1>9. /\ syncedRV' \in [Replicas -> [Names -> Nat]]
      /\ syncedRV'[r][w.name] \in {w.obj.rv, syncedRV[r][w.name]}
      /\ \A q \in Replicas, m \in Names :
           q # r \/ m # w.name => syncedRV'[q][m] = syncedRV[q][m]
  <2>1. [syncedRV[r] EXCEPT ![w.name] = w.obj.rv] \in [Names -> Nat]
    BY <1>2, <1>3
  <2>2. CASE syncedRV' = [syncedRV EXCEPT ![r][w.name] = w.obj.rv]
    BY <1>2, <1>3, <2>1, <2>2
  <2>3. CASE syncedRV' = syncedRV
    BY <1>2, <1>3, <2>3
  <2> QED BY <1>8, <2>2, <2>3
<1>10. /\ GoTo(r, k, Idle) /\ synced' \in [Replicas -> BOOLEAN]
       /\ queue' \in [Replicas -> SUBSET Names]
  BY <1>2, <1>3, <1>8 DEF ReturnError
<1> QED BY <1>1, <1>2, <1>4, <1>7, <1>9, <1>10 DEF Sync

\* Deliver moves a replica to a later version.
LEMMA DeliverEffect ==
  ASSUME TypeOK, NEW r \in Replicas, NEW n \in Names, Deliver(r, n)
  PROVE  /\ cache' \in [Replicas -> [Names -> Versions]]
         /\ events' \in [Replicas -> [Names -> Seq(Versions)]]
         /\ \E i \in 1..Len(events[r][n]) :
              /\ cache'[r][n] = events[r][n][i]
              /\ events'[r][n] = SubSeq(events[r][n], i + 1, Len(events[r][n]))
         /\ \A q \in Replicas, m \in Names : q # r \/ m # n =>
              cache'[q][m] = cache[q][m] /\ events'[q][m] = events[q][m]
         /\ queue' \in [Replicas -> SUBSET Names]
         /\ UNCHANGED <<clusterVars, processVars, worker, storeVars, faults>>
<1>1. /\ cache \in [Replicas -> [Names -> Versions]]
      /\ events \in [Replicas -> [Names -> Seq(Versions)]]
      /\ queue \in [Replicas -> SUBSET Names]
  BY DEF TypeOK, Versions
<1>2. PICK i \in 1..Len(events[r][n]) :
        /\ cache' = [cache EXCEPT ![r][n] = events[r][n][i]]
        /\ events' = [events EXCEPT ![r][n] = SubSeq(@, i + 1, Len(@))]
  BY DEF Deliver
<1> DEFINE c == events[r][n][i]
           es == SubSeq(events[r][n], i + 1, Len(events[r][n]))
<1>3. c \in Versions /\ es \in Seq(Versions)
  BY <1>1, HeldDeliver
<1>4. cache' = [cache EXCEPT ![r][n] = c] /\ events' = [events EXCEPT ![r][n] = es]
  BY <1>2
<1> HIDE DEF c, es
<1>5. /\ [cache[r] EXCEPT ![n] = c] \in [Names -> Versions]
      /\ [events[r] EXCEPT ![n] = es] \in [Names -> Seq(Versions)]
  BY <1>1, <1>3
<1>6. /\ cache' \in [Replicas -> [Names -> Versions]] /\ cache'[r][n] = c
      /\ \A q \in Replicas, m \in Names : q # r \/ m # n => cache'[q][m] = cache[q][m]
  BY <1>1, <1>4, <1>5
<1>7. /\ events' \in [Replicas -> [Names -> Seq(Versions)]] /\ events'[r][n] = es
      /\ \A q \in Replicas, m \in Names : q # r \/ m # n => events'[q][m] = events[q][m]
  BY <1>1, <1>4, <1>5
<1>8. queue' \in [Replicas -> SUBSET Names]
  BY <1>1 DEF Deliver
<1> QED BY <1>6, <1>7, <1>8 DEF Deliver, c, es

\* A controller that starts lists the objects of its kind.
LEMMA StartControllerEffect ==
  ASSUME TypeOK, NEW r \in Replicas, NEW k \in Kinds, StartController(r, k)
  PROVE  /\ r \in up /\ (LeaderElection => leader = r) /\ k \notin started[r]
         /\ started' \in [Replicas -> SUBSET Kinds]
         /\ started'[r] = started[r] \cup {k}
         /\ \A q \in Replicas \ {r} : started'[q] = started[q]
         /\ cache' \in [Replicas -> [Names -> Versions]]
         /\ \A n \in Names : cache'[r][n] = IF KindOf[n] = k THEN api[n] ELSE cache[r][n]
         /\ \A q \in Replicas \ {r} : cache'[q] = cache[q]
         /\ queue' \in [Replicas -> SUBSET Names]
         /\ UNCHANGED <<clusterVars, leader, up, events, worker, storeVars, faults>>
<1>1. /\ cache \in [Replicas -> [Names -> Versions]]
      /\ api \in [Names -> Versions]
      /\ started \in [Replicas -> SUBSET Kinds]
      /\ queue \in [Replicas -> SUBSET Names]
  BY DEF TypeOK, Versions
<1>2. [n \in Names |-> IF KindOf[n] = k THEN api[n] ELSE cache[r][n]] \in [Names -> Versions]
  BY <1>1
<1>3. /\ cache' \in [Replicas -> [Names -> Versions]]
      /\ \A n \in Names : cache'[r][n] = IF KindOf[n] = k THEN api[n] ELSE cache[r][n]
      /\ \A q \in Replicas \ {r} : cache'[q] = cache[q]
  BY <1>1, <1>2 DEF StartController
<1>4. started' \in [Replicas -> SUBSET Kinds] /\ queue' \in [Replicas -> SUBSET Names]
  BY <1>1 DEF StartController
<1>5. started'[r] = started[r] \cup {k} /\ \A q \in Replicas \ {r} : started'[q] = started[q]
  BY <1>1 DEF StartController
<1> QED BY <1>3, <1>4, <1>5 DEF StartController

\* A process that ends forgets everything.
LEMMA CrashEffect ==
  ASSUME TypeOK, NEW r \in Replicas, Crash(r)
  PROVE  /\ up' = up \ {r} /\ leader' = (IF leader = r THEN None ELSE leader)
         /\ \A n \in Names : /\ cache'[r][n] = None /\ events'[r][n] = << >>
                             /\ syncedRV'[r][n] = 0
         /\ \A k \in Kinds : worker'[r][k] = Idle /\ \A i \in Ids : store'[r][k][i] = None
         /\ started'[r] = {}
         /\ \A q \in Replicas \ {r} :
              /\ started'[q] = started[q] /\ cache'[q] = cache[q] /\ events'[q] = events[q]
              /\ worker'[q] = worker[q] /\ store'[q] = store[q] /\ syncedRV'[q] = syncedRV[q]
         /\ UNCHANGED clusterVars
         /\ TypeOK'
<1>1. /\ [n \in Names |-> None] \in [Names -> Objects \cup {None}]
      /\ [n \in Names |-> << >>] \in [Names -> Seq(Objects \cup {None})]
      /\ [k \in Kinds |-> Idle] \in [Kinds -> Jobs \cup {Idle}]
      /\ EmptyStore \in [Kinds -> [Ids -> Specs \cup {None}]]
      /\ [n \in Names |-> 0] \in [Names -> Nat]
  BY DEF EmptyStore, EmptyMap
<1>2. /\ cache' = [cache EXCEPT ![r] = [n \in Names |-> None]]
      /\ events' = [events EXCEPT ![r] = [n \in Names |-> << >>]]
      /\ worker' = [worker EXCEPT ![r] = [k \in Kinds |-> Idle]]
      /\ store' = [store EXCEPT ![r] = EmptyStore]
      /\ syncedRV' = [syncedRV EXCEPT ![r] = [n \in Names |-> 0]]
      /\ started' = [started EXCEPT ![r] = {}]
      /\ queue' = [queue EXCEPT ![r] = {}]
      /\ synced' = [synced EXCEPT ![r] = FALSE]
      /\ up' = up \ {r} /\ leader' = (IF leader = r THEN None ELSE leader)
      /\ UNCHANGED clusterVars
  BY DEF Crash
<1>3. /\ cache' \in [Replicas -> [Names -> Objects \cup {None}]]
      /\ cache'[r] = [n \in Names |-> None]
      /\ \A q \in Replicas \ {r} : cache'[q] = cache[q]
  BY <1>1, <1>2 DEF TypeOK
<1>4. /\ events' \in [Replicas -> [Names -> Seq(Objects \cup {None})]]
      /\ events'[r] = [n \in Names |-> << >>]
      /\ \A q \in Replicas \ {r} : events'[q] = events[q]
  BY <1>1, <1>2 DEF TypeOK
<1>5. /\ worker' \in [Replicas -> [Kinds -> Jobs \cup {Idle}]]
      /\ worker'[r] = [k \in Kinds |-> Idle]
      /\ \A q \in Replicas \ {r} : worker'[q] = worker[q]
  BY <1>1, <1>2 DEF TypeOK
<1>6. /\ store' \in [Replicas -> [Kinds -> [Ids -> Specs \cup {None}]]]
      /\ store'[r] = EmptyStore
      /\ \A q \in Replicas \ {r} : store'[q] = store[q]
  BY <1>1, <1>2 DEF TypeOK
<1>7. /\ syncedRV' \in [Replicas -> [Names -> Nat]]
      /\ syncedRV'[r] = [n \in Names |-> 0]
      /\ \A q \in Replicas \ {r} : syncedRV'[q] = syncedRV[q]
  BY <1>1, <1>2 DEF TypeOK
<1>8. /\ started' \in [Replicas -> SUBSET Kinds] /\ queue' \in [Replicas -> SUBSET Names]
      /\ synced' \in [Replicas -> BOOLEAN]
      /\ up' \in SUBSET Replicas /\ leader' \in Replicas \cup {None}
      /\ started'[r] = {} /\ \A q \in Replicas \ {r} : started'[q] = started[q]
  BY <1>2 DEF TypeOK
<1>9. faults' \in 0..MaxFaults
  BY FaultTypes DEF Crash
<1>10. TypeOK'
  BY <1>2, <1>3, <1>4, <1>5, <1>6, <1>7, <1>8, <1>9 DEF TypeOK, clusterVars
<1> QED BY <1>2, <1>3, <1>4, <1>5, <1>6, <1>7, <1>8, <1>10 DEF EmptyStore, EmptyMap

\* The steps of Next.
LEMMA NextCases ==
  ASSUME Next
  PROVE  \/ \E n \in Names :
              (\E s \in SpecsOf[n] : Create(n, s) \/ UpdateSpec(n, s)) \/ Delete(n)
         \/ \E r \in Replicas :
              \/ Start(r) \/ Acquire(r) \/ Crash(r)
              \/ \E n \in Names : Deliver(r, n) \/ Resync(r, n) \/ Get(r, n)
              \/ \E k \in Kinds :
                   \/ StartController(r, k)
                   \/ DeleteFromStore(r, k)
                   \/ Update(r, k)
                   \/ UpdateRefused(r, k) \/ UpdateFails(r, k)
                   \/ Sync(r, k)
<1>1. "User" \in Kinds /\ "Model" \in Kinds
  BY DEF Kinds
<1> QED BY <1>1 DEF Next, UserReconcile, ModelReconcile, Reconcile

\* Every step keeps the types.
LEMMA TypeStep ==
  ASSUME TypeOK, Next
  PROVE  TypeOK'
<1> USE DEF TypeOK, Versions, processVars, storeVars, clusterVars, informerVars
<1>1. ASSUME NEW n \in Names,
             (\E s \in SpecsOf[n] : Create(n, s) \/ UpdateSpec(n, s)) \/ Delete(n)
      PROVE  TypeOK'
  <2>1. /\ \E o \in Versions : Write(n, o)
        /\ edits' \in 0..MaxEdits
        /\ UNCHANGED <<processVars, cache, queue, worker, storeVars, faults>>
    BY <1>1, EditEffect
  <2>2. /\ api' \in [Names -> Versions] /\ rv' \in [Names -> Nat]
        /\ events' \in [Replicas -> [Names -> Seq(Versions)]]
    BY <2>1, WriteEffect
  <2> QED BY <2>1, <2>2
<1>2. ASSUME NEW r \in Replicas, Start(r) \/ Acquire(r) PROVE TypeOK'
  <2>1. up' \in SUBSET Replicas /\ leader' \in Replicas \cup {None}
    BY <1>2 DEF Start, Acquire
  <2> QED BY <1>2, <2>1 DEF Start, Acquire
<1>3. ASSUME NEW r \in Replicas, Crash(r) PROVE TypeOK'
  BY <1>3, CrashEffect
<1>4. ASSUME NEW r \in Replicas, NEW n \in Names, Deliver(r, n) PROVE TypeOK'
  BY <1>4, DeliverEffect
<1>5. ASSUME NEW r \in Replicas, NEW n \in Names, Resync(r, n) PROVE TypeOK'
  <2>1. queue' \in [Replicas -> SUBSET Names]
    BY <1>5 DEF Resync
  <2> QED BY <1>5, <2>1 DEF Resync
<1>6. ASSUME NEW r \in Replicas, NEW n \in Names, Get(r, n) PROVE TypeOK'
  <2>1. worker' \in [Replicas -> [Kinds -> Jobs \cup {Idle}]]
    BY <1>6, GetEffect, GoToEffect
  <2> QED BY <1>6, <2>1, GetEffect
<1>7. ASSUME NEW r \in Replicas, NEW k \in Kinds, StartController(r, k) PROVE TypeOK'
  BY <1>7, StartControllerEffect
<1>8. ASSUME NEW r \in Replicas, NEW k \in Kinds, DeleteFromStore(r, k) PROVE TypeOK'
  <2>1. worker' \in [Replicas -> [Kinds -> Jobs \cup {Idle}]]
    <3>1. \E w \in Jobs \cup {Idle} : GoTo(r, k, w)
      BY <1>8, DeleteFromStoreEffect
    <3> QED BY <3>1, GoToEffect
  <2> QED BY <1>8, <2>1, DeleteFromStoreEffect
<1>9. ASSUME NEW r \in Replicas, NEW k \in Kinds, Update(r, k) PROVE TypeOK'
  <2>1. /\ \E n \in Names : \E o \in Versions : Write(n, o)
        /\ \E w \in Jobs \cup {Idle} : GoTo(r, k, w)
        /\ UNCHANGED <<edits, processVars, cache, queue, storeVars, faults>>
    BY <1>9, UpdateEffect
  <2>2. /\ api' \in [Names -> Versions] /\ rv' \in [Names -> Nat]
        /\ events' \in [Replicas -> [Names -> Seq(Versions)]]
    BY <2>1, WriteEffect
  <2>3. worker' \in [Replicas -> [Kinds -> Jobs \cup {Idle}]]
    BY <2>1, GoToEffect
  <2> QED BY <2>1, <2>2, <2>3
<1>10. ASSUME NEW r \in Replicas, NEW k \in Kinds, UpdateRefused(r, k) \/ UpdateFails(r, k)
       PROVE  TypeOK'
  <2>1. /\ \/ UNCHANGED <<api, rv, events>>
           \/ \E n \in Names : \E o \in Versions : Write(n, o)
        /\ GoTo(r, k, Idle)
        /\ queue' \in [Replicas -> SUBSET Names]
        /\ faults' \in 0..MaxFaults
        /\ UNCHANGED <<edits, processVars, cache, storeVars>>
    BY <1>10, UpdateErrorEffect
  <2>2. /\ api' \in [Names -> Versions] /\ rv' \in [Names -> Nat]
        /\ events' \in [Replicas -> [Names -> Seq(Versions)]]
    BY <2>1, WriteEffect
  <2>3. worker' \in [Replicas -> [Kinds -> Jobs \cup {Idle}]]
    BY <2>1, GoToEffect
  <2> QED BY <2>1, <2>2, <2>3
<1>11. ASSUME NEW r \in Replicas, NEW k \in Kinds, Sync(r, k) PROVE TypeOK'
  <2>1. worker' \in [Replicas -> [Kinds -> Jobs \cup {Idle}]]
    BY <1>11, SyncEffect, GoToEffect
  <2> QED BY <1>11, <2>1, SyncEffect
<1> QED BY <1>1, <1>2, <1>3, <1>4, <1>5, <1>6, <1>7, <1>8, <1>9, <1>10, <1>11, NextCases

\* The cluster starts well typed.
LEMMA TypeInit == Init => TypeOK
<1>1. /\ EmptyStore \in [Kinds -> [Ids -> Specs \cup {None}]]
      /\ << >> \in Seq(Objects \cup {None})
  BY DEF EmptyStore, EmptyMap
<1> QED BY <1>1, BoundsAssumption DEF Init, TypeOK

\* The API server, the informers, the work queues, the workers and the
\* stores keep their types whatever edits, faults and failovers happen.
THEOREM TypeCorrect == Spec => []TypeOK
<1>1. TypeOK /\ [Next]_vars => TypeOK'
  <2>1. ASSUME TypeOK, UNCHANGED vars PROVE TypeOK'
    BY <2>1 DEF vars, TypeOK
  <2> QED BY <2>1, TypeStep
<1> QED BY <1>1, TypeInit, PTL DEF Spec

-----------------------------------------------------------------------------
(* Versions: the inductive invariant behind StoreNeverRegresses *)

Copies(r, n) == Held(cache[r][n], events[r][n])

\* The API server's object carries the last version given out.
ApiOK(n) == api[n] # None => api[n].rv = rv[n] /\ api[n].spec \in SpecsOf[n]

\* A replica's copies of n are past versions in their order.  Those that
\* carry the finalizer, which Reconcile syncs or deletes as they are, are no
\* older than what the store has seen; one without it may be, because
\* Reconcile syncs the object its own Update has returned.
CopiesOK(r, n) ==
  /\ Sorted(cache[r][n], events[r][n])
  /\ KindOf[n] \notin started[r] => cache[r][n] = None /\ events[r][n] = << >>
  /\ syncedRV[r][n] <= rv[n]
  /\ \A o \in Copies(r, n) :
       /\ o.spec \in SpecsOf[n]
       /\ o.rv <= rv[n]
       /\ o.rv = rv[n] => o = api[n]
       /\ o.finalizer => syncedRV[r][n] <= o.rv

\* The object a worker holds is a past version too, and no copy that could
\* be synced or deleted later is older.
JobOK(r, k) ==
  LET w == worker[r][k]
      n == w.name
      o == w.obj
  IN  w # Idle =>
        /\ k \in started[r] /\ KindOf[n] = k
        /\ o.spec \in SpecsOf[n]
        /\ o.rv <= rv[n]
        /\ o.rv = rv[n] => o = api[n]
        /\ o.deleting <=> w.pc \in {"delete", "removeFinalizer"}
        /\ o.finalizer <=> w.pc # "addFinalizer"
        /\ \A e \in Copies(r, n) : e.finalizer \/ w.pc # "sync" => o.rv <= e.rv
        /\ w.pc \in {"sync", "delete"} => syncedRV[r][n] <= o.rv

VersionsOK ==
  /\ \A n \in Names : ApiOK(n)
  /\ \A r \in Replicas, n \in Names : CopiesOK(r, n)
  /\ \A r \in Replicas, k \in Kinds : JobOK(r, k)

VInv == TypeOK /\ VersionsOK

\* The copies are objects.
LEMMA CopiesTypes ==
  ASSUME TypeOK, NEW r \in Replicas, NEW n \in Names
  PROVE  /\ cache[r][n] \in Versions /\ events[r][n] \in Seq(Versions)
         /\ rv[n] \in Nat /\ syncedRV[r][n] \in Nat /\ api[n] \in Versions
         /\ \A o \in Copies(r, n) :
              o \in Objects /\ o # None /\ o.rv \in Nat /\ o.finalizer \in BOOLEAN
<1>1. /\ cache[r][n] \in Versions /\ events[r][n] \in Seq(Versions)
      /\ rv[n] \in Nat /\ syncedRV[r][n] \in Nat /\ api[n] \in Versions
  BY DEF TypeOK, Versions
<1>2. \A o \in Copies(r, n) : o \in Objects
  BY <1>1, HeldObjects DEF Copies
<1> QED BY <1>1, <1>2, ObjectFields

\* A write of a new version keeps what is known of versions, except for a
\* worker that goes on at the same time.
LEMMA WriteKeeps ==
  ASSUME VInv, NEW n \in Names, NEW o \in Versions, Write(n, o),
         o # None => o.rv = rv[n] + 1 /\ o.spec \in SpecsOf[n],
         UNCHANGED <<processVars, cache, storeVars>>
  PROVE  /\ \A m \in Names : ApiOK(m)'
         /\ \A r \in Replicas, m \in Names :
              /\ CopiesOK(r, m)'
              /\ m # n => Copies(r, m)' = Copies(r, m)
              /\ Copies(r, n)' \subseteq Copies(r, n) \cup ({o} \ {None})
         /\ \A r \in Replicas, k \in Kinds :
              worker'[r][k] = worker[r][k] => JobOK(r, k)'
<1>1. TypeOK /\ VersionsOK
  BY DEF VInv
<1>2. /\ api'[n] = o /\ rv'[n] = rv[n] + 1
      /\ \A m \in Names \ {n} : api'[m] = api[m] /\ rv'[m] = rv[m]
      /\ \A r \in Replicas :
           /\ events'[r][n] = IF KindOf[n] \in started[r] THEN Append(events[r][n], o)
                                                         ELSE events[r][n]
           /\ \A m \in Names \ {n} : events'[r][m] = events[r][m]
  BY <1>1, WriteEffect
<1>3. cache' = cache /\ started' = started /\ syncedRV' = syncedRV
  BY DEF processVars, storeVars
<1>4. \A m \in Names : ApiOK(m)'
  BY <1>1, <1>2 DEF ApiOK, VersionsOK
<1>5. \A r \in Replicas, m \in Names : m # n => Copies(r, m)' = Copies(r, m)
  BY <1>2, <1>3 DEF Copies
<1>6. \A r \in Replicas : Copies(r, n)' \subseteq Copies(r, n) \cup ({o} \ {None})
  BY <1>1, <1>2, <1>3, HeldAppend, CopiesTypes DEF Copies
<1>7. ASSUME NEW r \in Replicas, NEW m \in Names PROVE CopiesOK(r, m)'
  <2>1. CASE m # n
    BY <1>1, <1>2, <1>3, <1>5, <2>1 DEF VersionsOK, CopiesOK
  <2>2. CASE m = n
    <3>1. /\ CopiesOK(r, n) /\ rv[n] \in Nat /\ syncedRV[r][n] \in Nat
          /\ \A e \in Copies(r, n) : e.rv \in Nat
          /\ cache[r][n] \in Versions /\ events[r][n] \in Seq(Versions)
      BY <1>1, CopiesTypes DEF VersionsOK
    <3>2. o # None => \A e \in Copies(r, n) : e.rv <= o.rv
      BY <3>1 DEF CopiesOK
    <3>3. Sorted(cache'[r][n], events'[r][n])
      BY <1>2, <1>3, <3>1, <3>2, HeldAppend DEF CopiesOK, Copies
    <3>4. KindOf[n] \notin started'[r] => cache'[r][n] = None /\ events'[r][n] = << >>
      BY <1>2, <1>3, <3>1 DEF CopiesOK
    <3>5. syncedRV'[r][n] <= rv'[n]
      BY <1>2, <1>3, <3>1 DEF CopiesOK
    <3>6. ASSUME NEW e \in Copies(r, n)'
          PROVE  /\ e.spec \in SpecsOf[n] /\ e.rv <= rv'[n]
                 /\ e.rv = rv'[n] => e = api'[n]
                 /\ e.finalizer => syncedRV'[r][n] <= e.rv
      <4>1. CASE e \in Copies(r, n)
        BY <1>2, <1>3, <3>1, <4>1 DEF CopiesOK
      <4>2. CASE e = o /\ o # None
        BY <1>2, <1>3, <3>1, <4>2 DEF CopiesOK
      <4> QED BY <1>6, <4>1, <4>2
    <3> QED BY <2>2, <3>3, <3>4, <3>5, <3>6 DEF CopiesOK
  <2> QED BY <2>1, <2>2
<1>8. ASSUME NEW r \in Replicas, NEW k \in Kinds, worker'[r][k] = worker[r][k],
             worker[r][k] # Idle
      PROVE  JobOK(r, k)'
  <2>1. /\ JobOK(r, k) /\ worker[r][k].name \in Names /\ worker[r][k].obj.rv \in Nat
    BY <1>1, <1>8, WorkerJob DEF VersionsOK
  <2>2. CASE worker[r][k].name # n
    BY <1>2, <1>3, <1>5, <1>8, <2>1, <2>2 DEF JobOK
  <2>3. CASE worker[r][k].name = n
    <3>1. rv[n] \in Nat /\ worker[r][k].obj.rv <= rv[n]
      BY <1>1, <1>8, <2>1, <2>3, CopiesTypes DEF JobOK
    <3>2. worker[r][k].obj.rv <= rv'[n] /\ worker[r][k].obj.rv # rv'[n]
      BY <1>2, <2>1, <3>1
    <3>3. \A e \in Copies(r, n)' :
            e.finalizer \/ worker[r][k].pc # "sync" => worker[r][k].obj.rv <= e.rv
      BY <1>2, <1>6, <1>8, <2>1, <2>3, <3>2 DEF JobOK
    <3> QED BY <1>3, <1>8, <2>1, <2>3, <3>2, <3>3 DEF JobOK
  <2> QED BY <2>2, <2>3
<1>9. ASSUME NEW r \in Replicas, NEW k \in Kinds, worker'[r][k] = worker[r][k],
             worker[r][k] = Idle
      PROVE  JobOK(r, k)'
  BY <1>9 DEF JobOK
<1> QED BY <1>4, <1>5, <1>6, <1>7, <1>8, <1>9

\* Steps that touch neither versions, copies nor workers.
LEMMA FrameKeeps ==
  ASSUME VInv, UNCHANGED <<api, rv, cache, events, started, syncedRV, worker>>
  PROVE  VersionsOK'
  BY DEF VInv, VersionsOK, ApiOK, CopiesOK, JobOK, Copies

\* The administrator's edits.
LEMMA EditKeeps ==
  ASSUME VInv, NEW n \in Names,
         (\E s \in SpecsOf[n] : Create(n, s) \/ UpdateSpec(n, s)) \/ Delete(n)
  PROVE  VersionsOK'
<1>1. TypeOK /\ ApiOK(n)
  BY DEF VInv, VersionsOK
<1>2. PICK o \in Versions :
        Write(n, o) /\ (o # None => /\ o.rv = rv[n] + 1
                                    /\ o.spec \in SpecsOf[n] \/ (api[n] # None /\ o.spec = api[n].spec))
  BY <1>1, EditEffect
<1>3. o # None => o.rv = rv[n] + 1 /\ o.spec \in SpecsOf[n]
  BY <1>1, <1>2 DEF ApiOK
<1>4. UNCHANGED <<processVars, cache, worker, storeVars>>
  BY <1>1, EditEffect
<1> QED BY <1>2, <1>3, <1>4, WriteKeeps DEF VersionsOK

\* A worker whose copy is current has the API server's object, and its
\* replica knows nothing else of the name.
LEMMA CurrentCopy ==
  ASSUME VInv, NEW r \in Replicas, NEW k \in Kinds, NEW w, w = worker[r][k], w \in Jobs,
         w.pc \in {"removeFinalizer", "addFinalizer"}, Current(w.name, w.obj)
  PROVE  /\ api[w.name] = w.obj /\ w.obj.rv = rv[w.name]
         /\ \A e \in Copies(r, w.name) : e = w.obj
         /\ KindOf[w.name] = k /\ k \in started[r]
         /\ w.obj.spec \in SpecsOf[w.name]
         /\ w.obj.deleting <=> w.pc = "removeFinalizer"
         /\ w.obj.finalizer <=> w.pc # "addFinalizer"
<1>1. /\ TypeOK /\ w.name \in Names /\ w.obj \in Objects /\ w # Idle
      /\ ApiOK(w.name) /\ CopiesOK(r, w.name) /\ JobOK(r, k)
  BY JobFields DEF VInv, VersionsOK
<1>2. w.obj.rv = rv[w.name] /\ api[w.name] = w.obj
  BY <1>1 DEF Current, ApiOK, JobOK
<1>3. /\ rv[w.name] \in Nat
      /\ \A e \in Copies(r, w.name) : e.rv \in Nat
  BY <1>1, CopiesTypes
<1>4. \A e \in Copies(r, w.name) : w.obj.rv <= e.rv /\ e.rv <= rv[w.name]
  BY <1>1 DEF JobOK, CopiesOK
<1>5. \A e \in Copies(r, w.name) : e.rv = rv[w.name]
  BY <1>2, <1>3, <1>4
<1>6. \A e \in Copies(r, w.name) : e = w.obj
  BY <1>1, <1>2, <1>5 DEF CopiesOK
<1> QED BY <1>1, <1>2, <1>6 DEF JobOK

\* Update, the successful one.
LEMMA UpdateKeeps ==
  ASSUME VInv, NEW r \in Replicas, NEW k \in Kinds, Update(r, k)
  PROVE  VersionsOK'
<1>0. TypeOK
  BY DEF VInv
<1>1. PICK w : w = worker[r][k]
  OBVIOUS
<1>2. /\ w \in Jobs /\ w.name \in Names /\ w.obj \in Objects /\ w.pc \in WorkerPCs
      /\ w.pc \in {"removeFinalizer", "addFinalizer"}
      /\ Current(w.name, w.obj)
      /\ Updated(w) \in Versions
      /\ Write(w.name, Updated(w))
      /\ w.pc = "removeFinalizer" => Updated(w) = None /\ GoTo(r, k, Idle)
      /\ w.pc = "addFinalizer" => /\ Updated(w) \in Objects
                                  /\ At("sync", w.name, Updated(w)) \in Jobs
                                  /\ GoTo(r, k, At("sync", w.name, Updated(w)))
      /\ UNCHANGED <<edits, processVars, cache, queue, storeVars, faults>>
  BY <1>0, <1>1, UpdateEffect
<1>3. /\ api[w.name] = w.obj /\ w.obj.rv = rv[w.name]
      /\ \A e \in Copies(r, w.name) : e = w.obj
      /\ KindOf[w.name] = k /\ k \in started[r]
      /\ w.obj.spec \in SpecsOf[w.name]
      /\ w.obj.deleting <=> w.pc = "removeFinalizer"
      /\ w.obj.finalizer <=> w.pc # "addFinalizer"
  BY <1>1, <1>2, CurrentCopy
<1>4. w.pc = "addFinalizer" => /\ Updated(w).spec = w.obj.spec
                              /\ Updated(w).rv = rv[w.name] + 1
                              /\ Updated(w).deleting = w.obj.deleting
                              /\ Updated(w).finalizer
  BY <1>0, <1>2, UpdatedObject DEF TypeOK
<1>5. Updated(w) # None => Updated(w).rv = rv[w.name] + 1 /\ Updated(w).spec \in SpecsOf[w.name]
  BY <1>2, <1>3, <1>4
<1>6. /\ \A m \in Names : ApiOK(m)'
      /\ \A q \in Replicas, m \in Names : CopiesOK(q, m)'
      /\ Copies(r, w.name)' \subseteq Copies(r, w.name) \cup ({Updated(w)} \ {None})
      /\ \A q \in Replicas, l \in Kinds : worker'[q][l] = worker[q][l] => JobOK(q, l)'
  BY <1>2, <1>5, WriteKeeps
<1>7. \A q \in Replicas, l \in Kinds : q # r \/ l # k => worker'[q][l] = worker[q][l]
  BY <1>0, <1>2, GoToEffect
<1>8. JobOK(r, k)'
  <2>1. CASE w.pc = "removeFinalizer"
    <3>1. worker'[r][k] = Idle
      BY <1>0, <1>2, <2>1, GoToEffect
    <3> QED BY <3>1 DEF JobOK
  <2>2. CASE w.pc = "addFinalizer"
    <3>1. worker'[r][k] = At("sync", w.name, Updated(w))
      BY <1>0, <1>2, <2>2, GoToEffect
    <3>2. /\ worker'[r][k].pc = "sync" /\ worker'[r][k].name = w.name
          /\ worker'[r][k].obj = Updated(w)
      BY <1>2, <2>2, <3>1, AtIsJob DEF WorkerPCs
    <3>3. api'[w.name] = Updated(w) /\ rv'[w.name] = rv[w.name] + 1
      BY <1>0, <1>2, WriteEffect
    <3>4. /\ started' = started /\ syncedRV' = syncedRV
          /\ rv[w.name] \in Nat /\ syncedRV[r][w.name] \in Nat
          /\ CopiesOK(r, w.name)
      BY <1>0, <1>2, CopiesTypes DEF processVars, storeVars, VInv, VersionsOK
    <3>5. \A e \in Copies(r, w.name)' : e.finalizer => Updated(w).rv <= e.rv
      <4> SUFFICES ASSUME NEW e \in Copies(r, w.name)', e.finalizer
                   PROVE  Updated(w).rv <= e.rv
        OBVIOUS
      <4>1. e # w.obj
        BY <1>3, <2>2
      <4>2. e = Updated(w)
        BY <1>3, <1>6, <4>1
      <4> QED BY <1>4, <2>2, <3>4, <4>2
    <3>6. syncedRV'[r][w.name] <= Updated(w).rv /\ Updated(w).rv <= rv'[w.name]
      BY <1>4, <2>2, <3>3, <3>4 DEF CopiesOK
    <3>7. ~Updated(w).deleting /\ Updated(w).finalizer /\ Updated(w).spec \in SpecsOf[w.name]
      BY <1>3, <1>4, <2>2
    <3> QED BY <1>3, <3>2, <3>3, <3>4, <3>5, <3>6, <3>7 DEF JobOK
  <2> QED BY <1>2, <2>1, <2>2
<1> QED BY <1>6, <1>7, <1>8 DEF VersionsOK

\* Update, refused, failed or applied without an answer.
LEMMA UpdateErrorKeeps ==
  ASSUME VInv, NEW r \in Replicas, NEW k \in Kinds, UpdateRefused(r, k) \/ UpdateFails(r, k)
  PROVE  VersionsOK'
<1>0. TypeOK
  BY DEF VInv
<1>1. PICK w : w = worker[r][k]
  OBVIOUS
<1>2. /\ w \in Jobs /\ w.name \in Names /\ w.obj \in Objects /\ w.pc \in WorkerPCs
      /\ w.pc \in {"removeFinalizer", "addFinalizer"}
      /\ Updated(w) \in Versions
      /\ \/ UNCHANGED <<api, rv, events>>
         \/ Current(w.name, w.obj) /\ Write(w.name, Updated(w))
      /\ GoTo(r, k, Idle)
      /\ UNCHANGED <<edits, processVars, cache, storeVars>>
  BY <1>0, <1>1, UpdateErrorEffect
<1>3. /\ worker'[r][k] = Idle
      /\ \A q \in Replicas, l \in Kinds : q # r \/ l # k => worker'[q][l] = worker[q][l]
  BY <1>0, <1>2, GoToEffect
<1>4. JobOK(r, k)'
  BY <1>3 DEF JobOK
<1>5. CASE UNCHANGED <<api, rv, events>>
  <2>1. UNCHANGED <<api, rv, events, cache, started, syncedRV>>
    BY <1>2, <1>5 DEF processVars, storeVars
  <2>2. \A q \in Replicas, l \in Kinds : q # r \/ l # k => JobOK(q, l)'
    BY <1>3, <2>1 DEF VInv, VersionsOK, JobOK, Copies
  <2>3. /\ \A m \in Names : ApiOK(m)'
        /\ \A q \in Replicas, m \in Names : CopiesOK(q, m)'
    BY <2>1 DEF VInv, VersionsOK, ApiOK, CopiesOK, Copies
  <2> QED BY <1>4, <2>2, <2>3 DEF VersionsOK
<1>6. CASE Current(w.name, w.obj) /\ Write(w.name, Updated(w))
  <2>1. w.obj.spec \in SpecsOf[w.name]
    BY <1>1, <1>2, <1>6, CurrentCopy
  <2>2. Updated(w) # None => Updated(w).rv = rv[w.name] + 1 /\ Updated(w).spec \in SpecsOf[w.name]
    BY <1>0, <1>2, <2>1, UpdatedObject DEF TypeOK
  <2>3. /\ \A m \in Names : ApiOK(m)'
        /\ \A q \in Replicas, m \in Names : CopiesOK(q, m)'
        /\ \A q \in Replicas, l \in Kinds : worker'[q][l] = worker[q][l] => JobOK(q, l)'
    BY <1>2, <1>6, <2>2, WriteKeeps
  <2> QED BY <1>3, <1>4, <2>3 DEF VersionsOK
<1> QED BY <1>2, <1>5, <1>6

\* A replica that knows less than before, in the same order.
LEMMA DeliverKeeps ==
  ASSUME VInv, NEW r \in Replicas, NEW n \in Names, Deliver(r, n)
  PROVE  VersionsOK'
<1>0. TypeOK
  BY DEF VInv
<1>1. PICK i \in 1..Len(events[r][n]) :
        /\ cache'[r][n] = events[r][n][i]
        /\ events'[r][n] = SubSeq(events[r][n], i + 1, Len(events[r][n]))
  BY <1>0, DeliverEffect
<1>2. \A q \in Replicas, m \in Names : q # r \/ m # n =>
        cache'[q][m] = cache[q][m] /\ events'[q][m] = events[q][m]
  BY <1>0, DeliverEffect
<1>3. UNCHANGED <<api, rv, started, syncedRV, worker>>
  <2>1. UNCHANGED <<clusterVars, processVars, worker, storeVars>>
    BY <1>0, DeliverEffect
  <2> QED BY <2>1 DEF clusterVars, processVars, storeVars
<1>4. cache[r][n] \in Versions /\ events[r][n] \in Seq(Versions)
  BY <1>0, CopiesTypes
<1>5. /\ Copies(r, n)' \subseteq Copies(r, n)
      /\ Sorted(cache[r][n], events[r][n]) => Sorted(cache'[r][n], events'[r][n])
  BY <1>1, <1>4, HeldDeliver DEF Copies
<1>6. \A q \in Replicas, m \in Names : q # r \/ m # n => Copies(q, m)' = Copies(q, m)
  BY <1>2 DEF Copies
<1>7. KindOf[n] \in started[r]
  <2>1. CopiesOK(r, n) /\ events[r][n] # << >>
    BY <1>1, <1>4 DEF VInv, VersionsOK
  <2> QED BY <2>1 DEF CopiesOK
<1>8. \A m \in Names : ApiOK(m)'
  BY <1>3 DEF VInv, VersionsOK, ApiOK
<1>9. \A q \in Replicas, m \in Names : CopiesOK(q, m)'
  <2>1. CopiesOK(r, n)'
    BY <1>3, <1>5, <1>7 DEF VInv, VersionsOK, CopiesOK
  <2>2. ASSUME NEW q \in Replicas, NEW m \in Names, q # r \/ m # n PROVE CopiesOK(q, m)'
    BY <1>2, <1>3, <1>6, <2>2 DEF VInv, VersionsOK, CopiesOK
  <2> QED BY <2>1, <2>2
<1>10. \A q \in Replicas, k \in Kinds : JobOK(q, k)'
  <2> SUFFICES ASSUME NEW q \in Replicas, NEW k \in Kinds, worker[q][k] # Idle
               PROVE  JobOK(q, k)'
    BY <1>3 DEF JobOK
  <2>1. JobOK(q, k) /\ worker[q][k].name \in Names
    BY <1>0, WorkerJob DEF VInv, VersionsOK
  <2>2. \A m \in Names : Copies(q, m)' \subseteq Copies(q, m)
    BY <1>5, <1>6
  <2> QED BY <1>3, <2>1, <2>2 DEF JobOK
<1> QED BY <1>8, <1>9, <1>10 DEF VersionsOK

\* Get takes up the cached version, before which the replica holds nothing.
LEMMA GetKeeps ==
  ASSUME VInv, NEW r \in Replicas, NEW n \in Names, Get(r, n)
  PROVE  VersionsOK'
<1>0. TypeOK
  BY DEF VInv
<1> DEFINE k == KindOf[n]
           c == cache[r][n]
<1>1. /\ k \in Kinds /\ k \in started[r] /\ c \in Versions
      /\ Branch(n, c) \in Jobs \cup {Idle} /\ GoTo(r, k, Branch(n, c))
      /\ UNCHANGED <<clusterVars, processVars, cache, events, storeVars, faults>>
  BY <1>0, GetEffect
<1>2. UNCHANGED <<api, rv, cache, events, started, syncedRV>>
  BY <1>1 DEF clusterVars, processVars, storeVars
<1>3. /\ worker'[r][k] = Branch(n, c)
      /\ \A q \in Replicas, l \in Kinds : q # r \/ l # k => worker'[q][l] = worker[q][l]
  BY <1>0, <1>1, GoToEffect
<1>4. JobOK(r, k)'
  <2>1. CASE Branch(n, c) = Idle
    BY <1>3, <2>1 DEF JobOK
  <2>2. CASE Branch(n, c) # Idle
    <3>1. /\ c \in Objects
          /\ \/ c.deleting /\ c.finalizer /\ Branch(n, c) = At("delete", n, c)
             \/ ~c.deleting /\ c.finalizer /\ Branch(n, c) = At("sync", n, c)
             \/ ~c.deleting /\ ~c.finalizer /\ Branch(n, c) = At("addFinalizer", n, c)
      BY <1>1, <2>2, BranchJob
    <3>2. PICK label \in WorkerPCs :
            /\ Branch(n, c) = At(label, n, c)
            /\ c.deleting <=> label = "delete"
            /\ c.finalizer <=> label # "addFinalizer"
            /\ label # "removeFinalizer"
      BY <3>1 DEF WorkerPCs
    <3>3. /\ worker'[r][k].pc = label /\ worker'[r][k].name = n /\ worker'[r][k].obj = c
      BY <1>3, <3>1, <3>2, AtIsJob
    <3>4. CopiesOK(r, n) /\ events[r][n] \in Seq(Versions) /\ c # None
      BY <1>0, <3>1, CopiesTypes, ObjectFields DEF VInv, VersionsOK
    <3>5. \A e \in Copies(r, n) : c.rv <= e.rv
      BY <1>1, <3>4, HeldSorted DEF CopiesOK, Copies
    <3>6. c \in Copies(r, n)
      BY <3>4 DEF Copies, Held
    <3>7. /\ c.spec \in SpecsOf[n] /\ c.rv <= rv[n] /\ (c.rv = rv[n] => c = api[n])
          /\ c.finalizer => syncedRV[r][n] <= c.rv
      BY <3>4, <3>6 DEF CopiesOK
    <3>8. Copies(r, n)' = Copies(r, n)
      BY <1>2 DEF Copies
    <3> HIDE DEF k, c
    <3>9. KindOf[n] = k
      BY DEF k
    <3> QED BY <1>1, <1>2, <3>2, <3>3, <3>5, <3>7, <3>8, <3>9 DEF JobOK
  <2> QED BY <2>1, <2>2
<1>5. \A q \in Replicas, l \in Kinds : q # r \/ l # k => JobOK(q, l)'
  BY <1>2, <1>3 DEF VInv, VersionsOK, JobOK, Copies
<1>6. /\ \A m \in Names : ApiOK(m)'
      /\ \A q \in Replicas, m \in Names : CopiesOK(q, m)'
  BY <1>2 DEF VInv, VersionsOK, ApiOK, CopiesOK, Copies
<1> QED BY <1>4, <1>5, <1>6 DEF VersionsOK

\* What the store sees is no older than what it has seen.
LEMMA SeenKeeps ==
  ASSUME VInv, NEW r \in Replicas, NEW k \in Kinds, NEW w, w = worker[r][k], w \in Jobs,
         w.pc \in {"sync", "delete"},
         UNCHANGED <<api, rv, cache, events, started>>,
         syncedRV'[r][w.name] \in {w.obj.rv, syncedRV[r][w.name]},
         \A q \in Replicas, m \in Names :
           q # r \/ m # w.name => syncedRV'[q][m] = syncedRV[q][m],
         \A q \in Replicas, l \in Kinds : q # r \/ l # k => worker'[q][l] = worker[q][l]
  PROVE  /\ syncedRV[r][w.name] <= syncedRV'[r][w.name]
         /\ \A m \in Names : ApiOK(m)'
         /\ \A q \in Replicas, m \in Names : CopiesOK(q, m)'
         /\ \A q \in Replicas, l \in Kinds : q # r \/ l # k => JobOK(q, l)'
<1>1. /\ TypeOK /\ w.name \in Names /\ w.obj \in Objects /\ w # Idle
      /\ CopiesOK(r, w.name) /\ JobOK(r, k)
  BY JobFields DEF VInv, VersionsOK
<1>2. syncedRV[r][w.name] \in Nat /\ w.obj.rv \in Nat
  BY <1>1, CopiesTypes, ObjectFields
<1>3. /\ syncedRV[r][w.name] <= w.obj.rv /\ w.obj.rv <= rv[w.name] /\ KindOf[w.name] = k
      /\ w.obj.finalizer
      /\ \A e \in Copies(r, w.name) : e.finalizer => w.obj.rv <= e.rv
  BY <1>1 DEF JobOK
<1>4. syncedRV[r][w.name] <= syncedRV'[r][w.name]
  BY <1>2, <1>3
<1>5. CopiesOK(r, w.name)'
  BY <1>1, <1>3 DEF CopiesOK, Copies
<1>6. ASSUME NEW q \in Replicas, NEW m \in Names, q # r \/ m # w.name PROVE CopiesOK(q, m)'
  BY <1>6 DEF VInv, VersionsOK, CopiesOK, Copies
<1>7. ASSUME NEW q \in Replicas, NEW l \in Kinds, q # r \/ l # k PROVE JobOK(q, l)'
  <2>1. CASE worker[q][l] = Idle
    BY <1>7, <2>1 DEF JobOK
  <2>2. CASE worker[q][l] # Idle
    <3>1. JobOK(q, l) /\ worker[q][l].name \in Names
      BY <1>1, <2>2, WorkerJob DEF VInv, VersionsOK
    <3>2. q # r \/ worker[q][l].name # w.name
      BY <1>3, <1>7, <2>2, <3>1 DEF JobOK
    <3>3. /\ syncedRV'[q][worker[q][l].name] = syncedRV[q][worker[q][l].name]
          /\ worker'[q][l] = worker[q][l]
      BY <1>7, <3>1, <3>2
    <3> QED BY <3>1, <3>3 DEF JobOK, Copies
  <2> QED BY <2>1, <2>2
<1>8. \A m \in Names : ApiOK(m)'
  BY DEF VInv, VersionsOK, ApiOK
<1> QED BY <1>4, <1>5, <1>6, <1>7, <1>8

\* DeleteFromStore and Sync.
LEMMA StoreStepKeeps ==
  ASSUME VInv, NEW r \in Replicas, NEW k \in Kinds, DeleteFromStore(r, k) \/ Sync(r, k)
  PROVE  /\ VersionsOK'
         /\ \A q \in Replicas, m \in Names : syncedRV[q][m] <= syncedRV'[q][m]
<1>0. TypeOK
  BY DEF VInv
<1>1. PICK w : w = worker[r][k]
  OBVIOUS
<1>2. /\ w \in Jobs /\ w.name \in Names /\ w.obj \in Objects /\ w.pc \in {"sync", "delete"}
      /\ UNCHANGED <<api, rv, cache, events, started>>
      /\ syncedRV'[r][w.name] \in {w.obj.rv, syncedRV[r][w.name]}
      /\ \A q \in Replicas, m \in Names :
           q # r \/ m # w.name => syncedRV'[q][m] = syncedRV[q][m]
      /\ \/ GoTo(r, k, Idle)
         \/ /\ w.pc = "delete"
            /\ At("removeFinalizer", w.name, w.obj) \in Jobs
            /\ GoTo(r, k, At("removeFinalizer", w.name, w.obj))
  <2>1. CASE DeleteFromStore(r, k)
    BY <1>0, <1>1, <2>1, DeleteFromStoreEffect DEF clusterVars, processVars, informerVars
  <2>2. CASE Sync(r, k)
    BY <1>0, <1>1, <2>2, SyncEffect DEF clusterVars, processVars
  <2> QED BY <2>1, <2>2
<1>3. \A q \in Replicas, l \in Kinds : q # r \/ l # k => worker'[q][l] = worker[q][l]
  BY <1>0, <1>2, GoToEffect
<1>4. /\ syncedRV[r][w.name] <= syncedRV'[r][w.name]
      /\ \A m \in Names : ApiOK(m)'
      /\ \A q \in Replicas, m \in Names : CopiesOK(q, m)'
      /\ \A q \in Replicas, l \in Kinds : q # r \/ l # k => JobOK(q, l)'
  BY <1>1, <1>2, <1>3, SeenKeeps
<1>5. JobOK(r, k)'
  <2>1. CASE GoTo(r, k, Idle)
    <3>1. worker'[r][k] = Idle
      BY <1>0, <2>1, GoToEffect
    <3> QED BY <3>1 DEF JobOK
  <2>2. CASE /\ w.pc = "delete"
             /\ At("removeFinalizer", w.name, w.obj) \in Jobs
             /\ GoTo(r, k, At("removeFinalizer", w.name, w.obj))
    <3>1. worker'[r][k] = At("removeFinalizer", w.name, w.obj)
      BY <1>0, <2>2, GoToEffect
    <3>2. /\ worker'[r][k].pc = "removeFinalizer" /\ worker'[r][k].name = w.name
          /\ worker'[r][k].obj = w.obj
      BY <1>2, <3>1, AtIsJob DEF WorkerPCs
    <3>3. JobOK(r, k) /\ w # Idle
      BY <1>2, JobFields DEF VInv, VersionsOK
    <3> QED BY <1>1, <1>2, <2>2, <3>2, <3>3 DEF JobOK, Copies
  <2> QED BY <1>2, <2>1, <2>2
<1>6. \A q \in Replicas, m \in Names : syncedRV[q][m] <= syncedRV'[q][m]
  BY <1>0, <1>2, <1>4, CopiesTypes
<1> QED BY <1>3, <1>4, <1>5, <1>6 DEF VersionsOK

\* A controller that starts knows exactly what the API server has.
LEMMA StartControllerKeeps ==
  ASSUME VInv, NEW r \in Replicas, NEW k \in Kinds, StartController(r, k)
  PROVE  VersionsOK'
<1>0. TypeOK
  BY DEF VInv
<1>1. /\ k \notin started[r]
      /\ started'[r] = started[r] \cup {k}
      /\ \A q \in Replicas \ {r} : started'[q] = started[q]
      /\ \A n \in Names : cache'[r][n] = IF KindOf[n] = k THEN api[n] ELSE cache[r][n]
      /\ \A q \in Replicas \ {r} : cache'[q] = cache[q]
      /\ UNCHANGED <<api, rv, events, worker, syncedRV>>
  BY <1>0, StartControllerEffect DEF clusterVars, storeVars
<1>2. \A m \in Names : ApiOK(m)'
  BY <1>1 DEF VInv, VersionsOK, ApiOK
<1>3. ASSUME NEW q \in Replicas, NEW m \in Names, q # r \/ KindOf[m] # k
      PROVE  CopiesOK(q, m)' /\ Copies(q, m)' = Copies(q, m)
  <2>1. cache'[q][m] = cache[q][m] /\ (KindOf[m] \in started'[q] <=> KindOf[m] \in started[q])
    BY <1>1, <1>3
  <2> QED BY <1>1, <2>1 DEF VInv, VersionsOK, CopiesOK, Copies
<1>4. ASSUME NEW m \in Names, KindOf[m] = k PROVE CopiesOK(r, m)'
  <2>1. CopiesOK(r, m) /\ ApiOK(m)
    BY DEF VInv, VersionsOK
  <2>2. events'[r][m] = << >> /\ cache'[r][m] = api[m]
    BY <1>1, <1>4, <2>1 DEF CopiesOK
  <2>3. Copies(r, m)' = {api[m]} \ {None} /\ Sorted(cache'[r][m], events'[r][m])
    BY <2>2, HeldAlone DEF Copies
  <2>4. rv[m] \in Nat /\ syncedRV[r][m] <= rv[m]
    BY <1>0, <2>1, CopiesTypes DEF CopiesOK
  <2> QED BY <1>1, <1>4, <2>1, <2>3, <2>4 DEF CopiesOK, ApiOK
<1>5. ASSUME NEW q \in Replicas, NEW l \in Kinds PROVE JobOK(q, l)'
  <2>1. CASE worker[q][l] = Idle
    BY <1>1, <2>1 DEF JobOK
  <2>2. CASE worker[q][l] # Idle
    <3>1. JobOK(q, l) /\ worker[q][l].name \in Names
      BY <1>0, <2>2, WorkerJob DEF VInv, VersionsOK
    <3>2. l \in started[q] /\ KindOf[worker[q][l].name] = l
      BY <2>2, <3>1 DEF JobOK
    <3>3. q # r \/ l # k
      BY <1>1, <3>2
    <3>4. \A m \in Names : KindOf[m] = l => Copies(q, m)' = Copies(q, m)
      BY <1>3, <3>3
    <3>5. l \in started'[q]
      BY <1>1, <3>2
    <3> QED BY <1>1, <3>1, <3>2, <3>4, <3>5 DEF JobOK
  <2> QED BY <2>1, <2>2
<1> QED BY <1>2, <1>3, <1>4, <1>5 DEF VersionsOK

\* A process that has ended knows nothing.
LEMMA CrashKeeps ==
  ASSUME VInv, NEW r \in Replicas, Crash(r)
  PROVE  VersionsOK'
<1>0. TypeOK
  BY DEF VInv
<1>1. /\ \A n \in Names : /\ cache'[r][n] = None /\ events'[r][n] = << >>
                          /\ syncedRV'[r][n] = 0
      /\ \A k \in Kinds : worker'[r][k] = Idle
      /\ \A q \in Replicas \ {r} :
           /\ started'[q] = started[q] /\ cache'[q] = cache[q] /\ events'[q] = events[q]
           /\ worker'[q] = worker[q] /\ syncedRV'[q] = syncedRV[q]
      /\ UNCHANGED <<api, rv>>
  BY <1>0, CrashEffect DEF clusterVars
<1>2. \A m \in Names : ApiOK(m)'
  BY <1>1 DEF VInv, VersionsOK, ApiOK
<1>3. ASSUME NEW m \in Names PROVE CopiesOK(r, m)'
  <2>1. Copies(r, m)' = {} /\ Sorted(cache'[r][m], events'[r][m])
    BY <1>1, HeldAlone DEF Copies
  <2>2. rv[m] \in Nat
    BY <1>0, CopiesTypes
  <2> QED BY <1>1, <2>1, <2>2 DEF CopiesOK
<1>4. ASSUME NEW q \in Replicas \ {r}, NEW m \in Names PROVE CopiesOK(q, m)'
  BY <1>1 DEF VInv, VersionsOK, CopiesOK, Copies
<1>5. \A k \in Kinds : JobOK(r, k)'
  BY <1>1 DEF JobOK
<1>6. ASSUME NEW q \in Replicas \ {r}, NEW k \in Kinds PROVE JobOK(q, k)'
  BY <1>1 DEF VInv, VersionsOK, JobOK, Copies
<1> QED BY <1>2, <1>3, <1>4, <1>5, <1>6 DEF VersionsOK

\* Every step keeps the versions in order.
LEMMA VersionsStep ==
  ASSUME VInv, Next
  PROVE  VersionsOK'
<1>1. ASSUME NEW r \in Replicas, Start(r) \/ Acquire(r) PROVE VersionsOK'
  <2>1. UNCHANGED <<api, rv, cache, events, started, syncedRV, worker>>
    BY <1>1 DEF Start, Acquire, clusterVars, informerVars, storeVars
  <2> QED BY <2>1, FrameKeeps
<1>2. ASSUME NEW r \in Replicas, NEW n \in Names, Resync(r, n) PROVE VersionsOK'
  <2>1. UNCHANGED <<api, rv, cache, events, started, syncedRV, worker>>
    BY <1>2 DEF Resync, clusterVars, processVars, storeVars
  <2> QED BY <2>1, FrameKeeps
<1> QED BY <1>1, <1>2, NextCases, EditKeeps, CrashKeeps, DeliverKeeps, GetKeeps,
           StartControllerKeeps, StoreStepKeeps, UpdateKeeps, UpdateErrorKeeps

\* Initially there are no versions.
LEMMA VersionsInit == Init => VersionsOK
<1> SUFFICES ASSUME Init PROVE VersionsOK
  OBVIOUS
<1>1. \A n \in Names : ApiOK(n)
  BY DEF Init, ApiOK
<1>2. ASSUME NEW r \in Replicas, NEW n \in Names PROVE CopiesOK(r, n)
  <2>1. cache[r][n] = None /\ events[r][n] = << >> /\ syncedRV[r][n] = 0 /\ rv[n] = 0
    BY DEF Init
  <2>2. Copies(r, n) = {} /\ Sorted(cache[r][n], events[r][n])
    BY <2>1, HeldAlone DEF Copies
  <2> QED BY <2>1, <2>2 DEF CopiesOK
<1>3. \A r \in Replicas, k \in Kinds : JobOK(r, k)
  BY DEF Init, JobOK
<1> QED BY <1>1, <1>2, <1>3 DEF VersionsOK

\* The invariant holds throughout.
LEMMA VersionsInvariant == Spec => []VInv
<1>1. Init => VInv
  BY TypeInit, VersionsInit DEF VInv
<1>2. VInv /\ [Next]_vars => VInv'
  <2>1. ASSUME VInv, UNCHANGED vars PROVE VInv'
    BY <2>1 DEF vars, VInv, TypeOK, VersionsOK, ApiOK, CopiesOK, JobOK, Copies
  <2>2. ASSUME VInv, Next PROVE VInv'
    BY <2>2, TypeStep, VersionsStep DEF VInv
  <2> QED BY <2>1, <2>2
<1> QED BY <1>1, <1>2, PTL DEF Spec

\* Only a crash takes back what the store has seen.
LEMMA SeenGrows ==
  ASSUME VInv, Next, NEW r \in Replicas, NEW n \in Names, r \in up'
  PROVE  syncedRV[r][n] <= syncedRV'[r][n]
<1>0. TypeOK /\ syncedRV[r][n] \in Nat
  BY CopiesTypes DEF VInv
<1>1. CASE UNCHANGED storeVars
  BY <1>0, <1>1 DEF storeVars
<1>2. CASE \E q \in Replicas : Crash(q)
  BY <1>0, <1>2, CrashEffect
<1>3. CASE \E q \in Replicas, k \in Kinds : DeleteFromStore(q, k) \/ Sync(q, k)
  BY <1>3, StoreStepKeeps
<1>4. ASSUME NEW q \in Replicas, NEW k \in Kinds,
             Update(q, k) \/ UpdateRefused(q, k) \/ UpdateFails(q, k) \/ StartController(q, k)
      PROVE  UNCHANGED storeVars
  BY <1>4 DEF Update, UpdateRefused, UpdateFails, StartController
<1>5. ASSUME NEW q \in Replicas, Start(q) \/ Acquire(q) PROVE UNCHANGED storeVars
  BY <1>5 DEF Start, Acquire
<1>6. ASSUME NEW q \in Replicas, NEW m \in Names, Deliver(q, m) \/ Resync(q, m) \/ Get(q, m)
      PROVE  UNCHANGED storeVars
  BY <1>6 DEF Deliver, Resync, Get
<1>7. ASSUME NEW m \in Names,
             (\E s \in SpecsOf[m] : Create(m, s) \/ UpdateSpec(m, s)) \/ Delete(m)
      PROVE  UNCHANGED storeVars
  BY <1>7 DEF Create, UpdateSpec, Delete
<1> QED BY <1>1, <1>2, <1>3, <1>4, <1>5, <1>6, <1>7, NextCases

\* For any number of replicas, with or without leader election: as long as a
\* process lives, its store never goes back to an older version of an object,
\* nor does the deletion of an object undo what came after it, whatever
\* events are delayed or skipped and whatever answers are lost.
THEOREM NeverRegresses == Spec => StoreNeverRegresses
<1>1. VInv /\ [Next]_vars =>
        [\A r \in Replicas : \A n \in Names :
           r \in up' => syncedRV[r][n] <= syncedRV'[r][n]]_vars
  BY SeenGrows
<1> QED BY <1>1, VersionsInvariant, PTL DEF Spec, StoreNeverRegresses

-----------------------------------------------------------------------------
(* Who holds entries *)

\* Controllers run on live processes, with leader election only on the
\* leader.
StartedOK(r) == started[r] # {} => r \in up /\ (LeaderElection => leader = r)

\* Entries were put in by a controller that runs, from objects of its kind,
\* each under its id.
StoreOK(r, k) ==
  \A i \in Ids : store[r][k][i] # None =>
    /\ k \in started[r]
    /\ store[r][k][i].id = i
    /\ \E n \in Names : KindOf[n] = k /\ store[r][k][i] \in SpecsOf[n]

HInv ==
  /\ VInv
  /\ \A r \in Replicas : StartedOK(r)
  /\ \A r \in Replicas, k \in Kinds : StoreOK(r, k)

\* Steps that are not about processes or stores.
LEMMA QuietSteps ==
  ASSUME TypeOK, Next,
         ~\E r \in Replicas : Start(r) \/ Acquire(r) \/ Crash(r),
         ~\E r \in Replicas, k \in Kinds :
            StartController(r, k) \/ DeleteFromStore(r, k) \/ Sync(r, k)
  PROVE  UNCHANGED <<up, leader, started, store>>
<1>1. ASSUME NEW r \in Replicas, NEW k \in Kinds,
             Update(r, k) \/ UpdateRefused(r, k) \/ UpdateFails(r, k)
      PROVE  UNCHANGED <<up, leader, started, store>>
  BY <1>1 DEF Update, UpdateRefused, UpdateFails, processVars, storeVars
<1>2. ASSUME NEW r \in Replicas, NEW n \in Names, Deliver(r, n) \/ Resync(r, n) \/ Get(r, n)
      PROVE  UNCHANGED <<up, leader, started, store>>
  BY <1>2 DEF Deliver, Resync, Get, processVars, storeVars
<1>3. ASSUME NEW n \in Names,
             (\E s \in SpecsOf[n] : Create(n, s) \/ UpdateSpec(n, s)) \/ Delete(n)
      PROVE  UNCHANGED <<up, leader, started, store>>
  BY <1>3 DEF Create, UpdateSpec, Delete, processVars, storeVars
<1> QED BY <1>1, <1>2, <1>3, NextCases

\* The lease and the entries stay with whoever runs.
LEMMA HoldersStep ==
  ASSUME HInv, Next
  PROVE  /\ \A r \in Replicas : StartedOK(r)'
         /\ \A r \in Replicas, k \in Kinds : StoreOK(r, k)'
<1>0. TypeOK /\ VInv /\ VersionsOK
  BY DEF HInv, VInv
<1>1. CASE UNCHANGED <<up, leader, started, store>>
  BY <1>1 DEF HInv, StartedOK, StoreOK
<1>2. ASSUME NEW r \in Replicas, Start(r) \/ Acquire(r)
      PROVE  /\ \A q \in Replicas : StartedOK(q)'
             /\ \A q \in Replicas, k \in Kinds : StoreOK(q, k)'
  <2>1. UNCHANGED <<started, store>> /\ up \subseteq up' /\ (leader' = leader \/ leader = None)
    BY <1>2 DEF Start, Acquire, storeVars
  <2>2. \A q \in Replicas, k \in Kinds : StoreOK(q, k)'
    BY <2>1 DEF HInv, StoreOK
  <2>3. ASSUME NEW q \in Replicas PROVE StartedOK(q)'
    <3>1. CASE LeaderElection
      BY <2>1, <3>1, NoneAssumption DEF HInv, StartedOK
    <3>2. CASE ~LeaderElection
      BY <2>1, <3>2 DEF HInv, StartedOK
    <3> QED BY <3>1, <3>2
  <2> QED BY <2>2, <2>3
<1>3. ASSUME NEW r \in Replicas, Crash(r)
      PROVE  /\ \A q \in Replicas : StartedOK(q)'
             /\ \A q \in Replicas, k \in Kinds : StoreOK(q, k)'
  <2>1. /\ up' = up \ {r} /\ leader' = (IF leader = r THEN None ELSE leader)
        /\ \A k \in Kinds : \A i \in Ids : store'[r][k][i] = None
        /\ started'[r] = {}
        /\ \A q \in Replicas \ {r} : started'[q] = started[q] /\ store'[q] = store[q]
    BY <1>0, <1>3, CrashEffect
  <2>2. \A q \in Replicas : StartedOK(q)'
    BY <2>1 DEF HInv, StartedOK
  <2>3. \A q \in Replicas, k \in Kinds : StoreOK(q, k)'
    BY <2>1 DEF HInv, StoreOK
  <2> QED BY <2>2, <2>3
<1>4. ASSUME NEW r \in Replicas, NEW k \in Kinds, StartController(r, k)
      PROVE  /\ \A q \in Replicas : StartedOK(q)'
             /\ \A q \in Replicas, l \in Kinds : StoreOK(q, l)'
  <2>1. /\ r \in up /\ (LeaderElection => leader = r)
        /\ started'[r] = started[r] \cup {k}
        /\ \A q \in Replicas \ {r} : started'[q] = started[q]
        /\ UNCHANGED <<up, leader, store>>
    BY <1>0, <1>4, StartControllerEffect DEF storeVars
  <2>2. \A q \in Replicas : StartedOK(q)'
    BY <2>1 DEF HInv, StartedOK
  <2>3. \A q \in Replicas, l \in Kinds : StoreOK(q, l)'
    BY <2>1 DEF HInv, StoreOK
  <2> QED BY <2>2, <2>3
<1>5. ASSUME NEW r \in Replicas, NEW k \in Kinds, DeleteFromStore(r, k) \/ Sync(r, k)
      PROVE  /\ \A q \in Replicas : StartedOK(q)'
             /\ \A q \in Replicas, l \in Kinds : StoreOK(q, l)'
  <2>1. PICK w : w = worker[r][k]
    OBVIOUS
  <2>2. /\ w \in Jobs /\ w.name \in Names
        /\ UNCHANGED <<up, leader, started>>
        /\ \A i \in Ids : \/ store'[r][k][i] = None
                          \/ store'[r][k][i] = w.obj.spec /\ i = w.obj.spec.id
                          \/ store'[r][k][i] = store[r][k][i]
        /\ \A q \in Replicas, l \in Kinds : q # r \/ l # k => store'[q][l] = store[q][l]
    <3>1. CASE DeleteFromStore(r, k)
      BY <1>0, <2>1, <3>1, DeleteFromStoreEffect DEF processVars
    <3>2. CASE Sync(r, k)
      BY <1>0, <2>1, <3>2, SyncEffect DEF processVars
    <3> QED BY <1>5, <3>1, <3>2
  <2>3. /\ k \in started[r] /\ KindOf[w.name] = k /\ w.obj.spec \in SpecsOf[w.name]
    <3>1. JobOK(r, k) /\ w # Idle
      BY <1>0, <2>2, JobFields DEF VersionsOK
    <3> QED BY <2>1, <3>1 DEF JobOK
  <2>4. \A q \in Replicas : StartedOK(q)'
    BY <2>2 DEF HInv, StartedOK
  <2>5. StoreOK(r, k)'
    BY <2>2, <2>3 DEF HInv, StoreOK
  <2>6. ASSUME NEW q \in Replicas, NEW l \in Kinds, q # r \/ l # k PROVE StoreOK(q, l)'
    BY <2>2, <2>6 DEF HInv, StoreOK
  <2> QED BY <2>4, <2>5, <2>6
<1> QED BY <1>0, <1>1, <1>2, <1>3, <1>4, <1>5, QuietSteps

\* Every step keeps the invariant.
LEMMA HoldersKeep == HInv /\ [Next]_vars => HInv'
<1>1. ASSUME HInv, UNCHANGED vars PROVE HInv'
  <2>1. VInv'
    BY <1>1 DEF vars, HInv, VInv, TypeOK, VersionsOK, ApiOK, CopiesOK, JobOK, Copies
  <2> QED BY <1>1, <2>1 DEF vars, HInv, StartedOK, StoreOK
<1>2. ASSUME HInv, Next PROVE HInv'
  BY <1>2, TypeStep, VersionsStep, HoldersStep DEF HInv, VInv
<1> QED BY <1>1, <1>2

\* Initially nothing runs.
LEMMA HoldersInit == Init => HInv
<1> SUFFICES ASSUME Init PROVE HInv
  OBVIOUS
<1>1. VInv
  BY TypeInit, VersionsInit DEF VInv
<1>2. \A r \in Replicas : StartedOK(r)
  BY DEF Init, StartedOK
<1>3. \A r \in Replicas, k \in Kinds : StoreOK(r, k)
  BY DEF Init, StoreOK, EmptyStore, EmptyMap
<1> QED BY <1>1, <1>2, <1>3 DEF HInv

-----------------------------------------------------------------------------
(* Entries and finalizers: the inductive invariant behind EntriesHaveFinalizer *)

\* No update gives an object another id.  Without this the entry under the
\* old id stays (the run renamed_id).
StableIds == \A n \in Names : \A s, t \in SpecsOf[n] : s.id = t.id

\* One replica at a time runs controllers.  Without this the finalizer only
\* stands for one of the stores (the run reconcile_two_replicas).
OneActive == LeaderElection \/ \A r, q \in Replicas : r = q

Backed(n) == api[n] # None /\ api[n].finalizer

\* What a Get could still put in the store is backed.
CopyBacked(r, n) == \A e \in Copies(r, n) : e.finalizer /\ ~e.deleting => Backed(n)

\* So is what a worker is about to put in; and a worker that is about to
\* remove the finalizer has taken the entry out.
SyncBacked(r, k) ==
  \A n \in Names : worker[r][k].pc = "sync" /\ worker[r][k].name = n => Backed(n)
RemoveEmptied(r, k) ==
  worker[r][k].pc = "removeFinalizer" =>
    \A i \in Ids : i = worker[r][k].obj.spec.id => store[r][k][i] = None

EntryBacked(r, k) ==
  \A i \in Ids : store[r][k][i] # None =>
    \E n \in Names : KindOf[n] = k /\ Backed(n) /\ api[n].spec.id = i

EntriesOK ==
  /\ \A r \in Replicas, n \in Names : CopyBacked(r, n)
  /\ \A r \in Replicas, k \in Kinds :
       SyncBacked(r, k) /\ RemoveEmptied(r, k) /\ EntryBacked(r, k)

EInv == HInv /\ EntriesOK

\* A write that keeps a finalizer keeps what rests on it.
LEMMA WriteBacks ==
  ASSUME EInv, StableIds, NEW n \in Names, NEW o \in Versions, Write(n, o),
         Backed(n) => o # None /\ o.finalizer,
         o # None => o.rv = rv[n] + 1 /\ o.spec \in SpecsOf[n],
         UNCHANGED <<processVars, cache, storeVars>>
  PROVE  /\ \A m \in Names : Backed(m) => Backed(m)'
         /\ \A r \in Replicas, m \in Names : CopyBacked(r, m)'
         /\ \A r \in Replicas, k \in Kinds :
              /\ EntryBacked(r, k)'
              /\ worker'[r][k] = worker[r][k] => SyncBacked(r, k)' /\ RemoveEmptied(r, k)'
<1>1. TypeOK /\ VInv /\ EntriesOK /\ \A m \in Names : ApiOK(m)
  BY DEF EInv, HInv, VInv, VersionsOK
<1>2. api'[n] = o /\ \A m \in Names \ {n} : api'[m] = api[m]
  BY <1>1, WriteEffect
<1>3. \A m \in Names : Backed(m) => Backed(m)' /\ api'[m].spec.id = api[m].spec.id
  BY <1>1, <1>2 DEF Backed, ApiOK, StableIds
<1>4. \A r \in Replicas, m \in Names :
        /\ m # n => Copies(r, m)' = Copies(r, m)
        /\ Copies(r, n)' \subseteq Copies(r, n) \cup ({o} \ {None})
  BY <1>1, WriteKeeps
<1>5. ASSUME NEW r \in Replicas, NEW m \in Names PROVE CopyBacked(r, m)'
  <2>1. CopyBacked(r, m)
    BY <1>1 DEF EntriesOK
  <2>2. CASE m # n
    BY <1>3, <1>4, <2>1, <2>2 DEF CopyBacked
  <2>3. CASE m = n
    <3>1. ASSUME NEW e \in Copies(r, n)', e.finalizer, ~e.deleting PROVE Backed(n)'
      <4>1. CASE e \in Copies(r, n)
        BY <1>3, <2>1, <2>3, <3>1, <4>1 DEF CopyBacked
      <4>2. CASE e = o /\ o # None
        BY <1>2, <3>1, <4>2 DEF Backed
      <4> QED BY <1>4, <4>1, <4>2
    <3> QED BY <2>3, <3>1 DEF CopyBacked
  <2> QED BY <2>2, <2>3
<1>6. ASSUME NEW r \in Replicas, NEW k \in Kinds PROVE EntryBacked(r, k)'
  <2>1. EntryBacked(r, k) /\ store' = store
    BY <1>1 DEF EntriesOK, storeVars
  <2> QED BY <1>3, <2>1 DEF EntryBacked
<1>7. ASSUME NEW r \in Replicas, NEW k \in Kinds, worker'[r][k] = worker[r][k]
      PROVE  SyncBacked(r, k)' /\ RemoveEmptied(r, k)'
  <2>1. SyncBacked(r, k) /\ RemoveEmptied(r, k) /\ store' = store
    BY <1>1 DEF EntriesOK, storeVars
  <2> QED BY <1>3, <1>7, <2>1 DEF SyncBacked, RemoveEmptied
<1> QED BY <1>3, <1>5, <1>6, <1>7

\* The administrator's edits: the API server keeps an object that has a
\* finalizer.
LEMMA EditBacks ==
  ASSUME EInv, StableIds, NEW n \in Names,
         (\E s \in SpecsOf[n] : Create(n, s) \/ UpdateSpec(n, s)) \/ Delete(n)
  PROVE  EntriesOK'
<1>1. TypeOK /\ ApiOK(n)
  BY DEF EInv, HInv, VInv, VersionsOK
<1>2. PICK o \in Versions :
        /\ Write(n, o)
        /\ o # None => /\ o.rv = rv[n] + 1
                       /\ o.spec \in SpecsOf[n] \/ (api[n] # None /\ o.spec = api[n].spec)
        /\ api[n] # None /\ o # None => o.finalizer = api[n].finalizer
        /\ api[n] # None /\ o = None => ~api[n].finalizer
  BY <1>1, EditEffect
<1>3. /\ o # None => o.rv = rv[n] + 1 /\ o.spec \in SpecsOf[n]
      /\ Backed(n) => o # None /\ o.finalizer
  BY <1>1, <1>2 DEF ApiOK, Backed
<1>4. UNCHANGED <<processVars, cache, worker, storeVars>>
  BY <1>1, EditEffect
<1> QED BY <1>2, <1>3, <1>4, WriteBacks DEF EntriesOK

\* A replica that runs controllers is the only one that knows anything.
LEMMA OthersEmpty ==
  ASSUME HInv, OneActive, NEW r \in Replicas, started[r] # {}, NEW q \in Replicas, q # r
  PROVE  /\ \A n \in Names : Copies(q, n) = {}
         /\ \A k \in Kinds : worker[q][k] = Idle /\ \A i \in Ids : store[q][k][i] = None
<1>1. started[q] = {}
  BY DEF HInv, StartedOK, OneActive
<1>2. ASSUME NEW n \in Names PROVE Copies(q, n) = {}
  <2>1. CopiesOK(q, n)
    BY DEF HInv, VInv, VersionsOK
  <2>2. cache[q][n] = None /\ events[q][n] = << >>
    BY <1>1, <2>1 DEF CopiesOK
  <2> QED BY <2>2, HeldAlone DEF Copies
<1>3. ASSUME NEW k \in Kinds PROVE worker[q][k] = Idle
  <2>1. JobOK(q, k)
    BY DEF HInv, VInv, VersionsOK
  <2> QED BY <1>1, <2>1 DEF JobOK
<1>4. ASSUME NEW k \in Kinds, NEW i \in Ids PROVE store[q][k][i] = None
  BY <1>1 DEF HInv, StoreOK
<1> QED BY <1>2, <1>3, <1>4

\* The finalizer is removed: nothing rests on it any more.
LEMMA RemovalBacks ==
  ASSUME EInv, OneActive, NEW r \in Replicas, NEW k \in Kinds, NEW w, w = worker[r][k],
         w \in Jobs, w.pc = "removeFinalizer", Current(w.name, w.obj),
         Write(w.name, None), GoTo(r, k, Idle),
         UNCHANGED <<processVars, cache, storeVars>>
  PROVE  EntriesOK'
<1>1. TypeOK /\ VInv /\ HInv /\ EntriesOK /\ VersionsOK /\ w.name \in Names
  BY JobFields DEF EInv, HInv, VInv
<1> DEFINE n == w.name
<1>2. /\ api[n] = w.obj /\ k \in started[r] /\ KindOf[n] = k /\ w.obj.deleting
      /\ \A e \in Copies(r, n) : e = w.obj
  BY <1>1, CurrentCopy
<1>3. api'[n] = None /\ \A m \in Names \ {n} : api'[m] = api[m]
  BY <1>1, WriteEffect DEF Versions
<1>4. /\ store' = store
      /\ \A q \in Replicas, m \in Names :
           /\ m # n => Copies(q, m)' = Copies(q, m)
           /\ Copies(q, n)' \subseteq Copies(q, n) \cup ({None} \ {None})
  BY <1>1, WriteKeeps DEF Versions, storeVars
<1>5. /\ worker'[r][k] = Idle
      /\ \A q \in Replicas, l \in Kinds : q # r \/ l # k => worker'[q][l] = worker[q][l]
  BY <1>1, GoToEffect
<1>6. \A q \in Replicas \ {r} :
        /\ \A m \in Names : Copies(q, m) = {}
        /\ \A l \in Kinds : worker[q][l] = Idle /\ \A i \in Ids : store[q][l][i] = None
  BY <1>1, <1>2, OthersEmpty
<1> HIDE DEF n
<1>7. \A m \in Names \ {n} : Backed(m) => Backed(m)' /\ api'[m] = api[m]
  BY <1>3 DEF Backed
<1>8. ASSUME NEW q \in Replicas, NEW m \in Names PROVE CopyBacked(q, m)'
  <2>1. CASE m # n
    <3>1. CopyBacked(q, m)
      BY <1>1 DEF EntriesOK
    <3> QED BY <1>4, <1>7, <2>1, <3>1 DEF CopyBacked
  <2>2. CASE m = n
    BY <1>2, <1>4, <1>6, <2>2 DEF CopyBacked
  <2> QED BY <2>1, <2>2
<1>9. ASSUME NEW q \in Replicas, NEW l \in Kinds PROVE SyncBacked(q, l)' /\ RemoveEmptied(q, l)'
  <2>1. CASE q = r /\ l = k
    BY <1>5, <2>1, IdleFields DEF SyncBacked, RemoveEmptied
  <2>2. CASE q # r
    BY <1>5, <1>6, <2>2, IdleFields DEF SyncBacked, RemoveEmptied
  <2>3. CASE q = r /\ l # k
    <3>1. SyncBacked(q, l) /\ RemoveEmptied(q, l) /\ worker'[q][l] = worker[q][l] /\ JobOK(q, l)
      BY <1>1, <1>5, <2>3 DEF EntriesOK, VersionsOK
    <3>2. RemoveEmptied(q, l)'
      BY <1>4, <3>1 DEF RemoveEmptied
    <3>3. worker[q][l].pc = "sync" => worker[q][l].name # n
      BY <1>2, <2>3, <3>1, IdleFields DEF JobOK
    <3> QED BY <1>7, <3>1, <3>2, <3>3 DEF SyncBacked
  <2> QED BY <2>1, <2>2, <2>3
<1>10. ASSUME NEW q \in Replicas, NEW l \in Kinds PROVE EntryBacked(q, l)'
  <2> SUFFICES ASSUME NEW i \in Ids, store[q][l][i] # None
               PROVE  \E m \in Names : KindOf[m] = l /\ Backed(m)' /\ api'[m].spec.id = i
    BY <1>4 DEF EntryBacked
  <2>1. q = r
    BY <1>6
  <2>2. PICK m \in Names : KindOf[m] = l /\ Backed(m) /\ api[m].spec.id = i
    BY <1>1 DEF EntriesOK, EntryBacked
  <2>3. RemoveEmptied(r, k)
    BY <1>1 DEF EntriesOK
  <2>4. m # n
    BY <1>2, <2>1, <2>2, <2>3 DEF RemoveEmptied
  <2> QED BY <1>7, <2>2, <2>4
<1> QED BY <1>8, <1>9, <1>10 DEF EntriesOK

\* Update, whether or not its answer arrives.
LEMMA UpdateBacks ==
  ASSUME EInv, StableIds, OneActive, NEW r \in Replicas, NEW k \in Kinds,
         Update(r, k) \/ UpdateRefused(r, k) \/ UpdateFails(r, k)
  PROVE  EntriesOK'
<1>0. TypeOK /\ VInv /\ EntriesOK
  BY DEF EInv, HInv, VInv
<1>1. PICK w : w = worker[r][k]
  OBVIOUS
<1>2. /\ w \in Jobs /\ w.name \in Names /\ w.obj \in Objects
      /\ w.pc \in {"removeFinalizer", "addFinalizer"}
      /\ Updated(w) \in Versions
      /\ \/ UNCHANGED <<api, rv, events>>
         \/ Current(w.name, w.obj) /\ Write(w.name, Updated(w))
      /\ \/ GoTo(r, k, Idle)
         \/ /\ w.pc = "addFinalizer"
            /\ Write(w.name, Updated(w))
            /\ At("sync", w.name, Updated(w)) \in Jobs
            /\ GoTo(r, k, At("sync", w.name, Updated(w)))
      /\ UNCHANGED <<processVars, cache, storeVars>>
  <2>1. CASE Update(r, k)
    BY <1>0, <1>1, <2>1, UpdateEffect
  <2>2. CASE UpdateRefused(r, k) \/ UpdateFails(r, k)
    BY <1>0, <1>1, <2>2, UpdateErrorEffect
  <2> QED BY <2>1, <2>2
<1>3. /\ w.pc = "removeFinalizer" => Updated(w) = None
      /\ w.pc = "addFinalizer" => /\ Updated(w) \in Objects /\ Updated(w) # None
                                  /\ Updated(w).spec = w.obj.spec
                                  /\ Updated(w).rv = rv[w.name] + 1
                                  /\ Updated(w).finalizer
  BY <1>0, <1>2, UpdatedObject, ObjectsAssumption DEF TypeOK
<1>4. \A q \in Replicas, l \in Kinds : q # r \/ l # k => worker'[q][l] = worker[q][l]
  BY <1>0, <1>2, GoToEffect
<1>5. CASE UNCHANGED <<api, rv, events>> /\ GoTo(r, k, Idle)
  <2>1. worker'[r][k] = Idle
    BY <1>0, <1>5, GoToEffect
  <2>2. UNCHANGED <<api, events, cache, store>>
    BY <1>2, <1>5 DEF storeVars
  <2>3. \A q \in Replicas, m \in Names : CopyBacked(q, m)'
    BY <1>0, <2>2 DEF EntriesOK, CopyBacked, Copies, Backed
  <2>4. \A q \in Replicas, l \in Kinds : EntryBacked(q, l)'
    BY <1>0, <2>2 DEF EntriesOK, EntryBacked, Backed
  <2>5. SyncBacked(r, k)' /\ RemoveEmptied(r, k)'
    BY <2>1, IdleFields DEF SyncBacked, RemoveEmptied
  <2>6. ASSUME NEW q \in Replicas, NEW l \in Kinds, q # r \/ l # k
        PROVE  SyncBacked(q, l)' /\ RemoveEmptied(q, l)'
    BY <1>0, <1>4, <2>2, <2>6 DEF EntriesOK, SyncBacked, RemoveEmptied, Backed
  <2> QED BY <2>3, <2>4, <2>5, <2>6 DEF EntriesOK
<1>6. CASE w.pc = "removeFinalizer" /\ Current(w.name, w.obj) /\ Write(w.name, Updated(w))
  <2>1. GoTo(r, k, Idle) /\ Write(w.name, None)
    BY <1>2, <1>3, <1>6
  <2> QED BY <1>1, <1>2, <1>6, <2>1, RemovalBacks
<1>7. CASE w.pc = "addFinalizer" /\ Current(w.name, w.obj) /\ Write(w.name, Updated(w))
  <2>1. w.obj.spec \in SpecsOf[w.name]
    BY <1>0, <1>1, <1>2, <1>7, CurrentCopy
  <2>2. Updated(w) # None => Updated(w).rv = rv[w.name] + 1 /\ Updated(w).spec \in SpecsOf[w.name]
    BY <1>3, <1>7, <2>1
  <2>3. /\ \A q \in Replicas, m \in Names : CopyBacked(q, m)'
        /\ \A q \in Replicas, l \in Kinds :
             /\ EntryBacked(q, l)'
             /\ worker'[q][l] = worker[q][l] => SyncBacked(q, l)' /\ RemoveEmptied(q, l)'
    BY <1>2, <1>3, <1>7, <2>2, WriteBacks
  <2>4. SyncBacked(r, k)' /\ RemoveEmptied(r, k)'
    <3>1. CASE GoTo(r, k, Idle)
      <4>1. worker'[r][k] = Idle
        BY <1>0, <3>1, GoToEffect
      <4> QED BY <4>1, IdleFields DEF SyncBacked, RemoveEmptied
    <3>2. CASE /\ At("sync", w.name, Updated(w)) \in Jobs
               /\ GoTo(r, k, At("sync", w.name, Updated(w)))
      <4>1. worker'[r][k] = At("sync", w.name, Updated(w))
        BY <1>0, <3>2, GoToEffect
      <4>2. worker'[r][k].pc = "sync" /\ worker'[r][k].name = w.name
        BY <1>2, <1>3, <1>7, <4>1, AtIsJob DEF WorkerPCs
      <4>3. api'[w.name] = Updated(w)
        BY <1>0, <1>2, <1>7, WriteEffect
      <4> QED BY <1>3, <1>7, <4>2, <4>3 DEF SyncBacked, RemoveEmptied, Backed
    <3> QED BY <1>2, <3>1, <3>2
  <2> QED BY <1>4, <2>3, <2>4 DEF EntriesOK
<1>8. CASE UNCHANGED <<api, rv, events>> /\ w.pc = "addFinalizer" /\ Write(w.name, Updated(w))
  <2>1. rv'[w.name] = rv[w.name] + 1 /\ rv' = rv /\ rv[w.name] \in Nat
    BY <1>0, <1>2, <1>8, WriteEffect DEF TypeOK
  <2> QED BY <2>1
<1> QED BY <1>2, <1>5, <1>6, <1>7, <1>8

\* Get: a version that carries the finalizer and is not being deleted is
\* backed, however old it is.
LEMMA GetBacks ==
  ASSUME EInv, NEW r \in Replicas, NEW n \in Names, Get(r, n)
  PROVE  EntriesOK'
<1>0. TypeOK /\ EntriesOK
  BY DEF EInv, HInv, VInv
<1> DEFINE k == KindOf[n]
           c == cache[r][n]
<1>1. /\ k \in Kinds /\ c \in Versions
      /\ Branch(n, c) \in Jobs \cup {Idle} /\ GoTo(r, k, Branch(n, c))
      /\ UNCHANGED <<clusterVars, processVars, cache, events, storeVars, faults>>
  BY <1>0, GetEffect
<1>2. UNCHANGED <<api, cache, events, store>>
  BY <1>1 DEF clusterVars, storeVars
<1>3. /\ worker'[r][k] = Branch(n, c)
      /\ \A q \in Replicas, l \in Kinds : q # r \/ l # k => worker'[q][l] = worker[q][l]
  BY <1>0, <1>1, GoToEffect
<1>4. \A m \in Names : Backed(m)' <=> Backed(m)
  BY <1>2 DEF Backed
<1>5. \A q \in Replicas, m \in Names : CopyBacked(q, m)'
  BY <1>0, <1>2, <1>4 DEF EntriesOK, CopyBacked, Copies
<1>6. \A q \in Replicas, l \in Kinds : EntryBacked(q, l)'
  BY <1>0, <1>2, <1>4 DEF EntriesOK, EntryBacked
<1>7. SyncBacked(r, k)' /\ RemoveEmptied(r, k)'
  <2>1. CASE Branch(n, c) = Idle
    BY <1>3, <2>1, IdleFields DEF SyncBacked, RemoveEmptied
  <2>2. CASE Branch(n, c) # Idle
    <3>1. PICK label \in WorkerPCs :
            /\ c \in Objects /\ Branch(n, c) = At(label, n, c)
            /\ label = "sync" => c.finalizer /\ ~c.deleting
            /\ label # "removeFinalizer"
      BY <1>1, <2>2, BranchJob DEF WorkerPCs
    <3>2. worker'[r][k].pc = label /\ worker'[r][k].name = n
      BY <1>3, <3>1, AtIsJob
    <3>3. c \in Copies(r, n) /\ CopyBacked(r, n)
      BY <1>0, <3>1, ObjectsAssumption DEF Copies, Held, EntriesOK
    <3>4. label = "sync" => Backed(n)
      BY <3>1, <3>3 DEF CopyBacked
    <3> HIDE DEF k, c
    <3> QED BY <1>4, <3>1, <3>2, <3>4 DEF SyncBacked, RemoveEmptied
  <2> QED BY <2>1, <2>2
<1>8. ASSUME NEW q \in Replicas, NEW l \in Kinds, q # r \/ l # k
      PROVE  SyncBacked(q, l)' /\ RemoveEmptied(q, l)'
  BY <1>0, <1>2, <1>3, <1>4, <1>8 DEF EntriesOK, SyncBacked, RemoveEmptied
<1> QED BY <1>5, <1>6, <1>7, <1>8 DEF EntriesOK

\* Deliver forgets versions and brings none.
LEMMA DeliverBacks ==
  ASSUME EInv, NEW r \in Replicas, NEW n \in Names, Deliver(r, n)
  PROVE  EntriesOK'
<1>0. TypeOK /\ EntriesOK
  BY DEF EInv, HInv, VInv
<1>1. PICK i \in 1..Len(events[r][n]) :
        /\ cache'[r][n] = events[r][n][i]
        /\ events'[r][n] = SubSeq(events[r][n], i + 1, Len(events[r][n]))
  BY <1>0, DeliverEffect
<1>2. \A q \in Replicas, m \in Names : q # r \/ m # n =>
        cache'[q][m] = cache[q][m] /\ events'[q][m] = events[q][m]
  BY <1>0, DeliverEffect
<1>3. UNCHANGED <<api, worker, store>>
  <2>1. UNCHANGED <<clusterVars, worker, storeVars>>
    BY <1>0, DeliverEffect
  <2> QED BY <2>1 DEF clusterVars, storeVars
<1>4. cache[r][n] \in Versions /\ events[r][n] \in Seq(Versions)
  BY <1>0, CopiesTypes
<1>5. Copies(r, n)' \subseteq Copies(r, n)
  BY <1>1, <1>4, HeldDeliver DEF Copies
<1>6. \A q \in Replicas, m \in Names : Copies(q, m)' \subseteq Copies(q, m)
  BY <1>2, <1>5 DEF Copies
<1> QED BY <1>0, <1>3, <1>6
        DEF EntriesOK, CopyBacked, SyncBacked, RemoveEmptied, EntryBacked, Backed

\* DeleteFromStore takes out an entry, Sync puts one in that is backed.
LEMMA StoreStepBacks ==
  ASSUME EInv, StableIds, NEW r \in Replicas, NEW k \in Kinds,
         DeleteFromStore(r, k) \/ Sync(r, k)
  PROVE  EntriesOK'
<1>0. TypeOK /\ EntriesOK /\ JobOK(r, k) /\ \A n \in Names : ApiOK(n)
  BY DEF EInv, HInv, VInv, VersionsOK
<1>1. PICK w : w = worker[r][k]
  OBVIOUS
<1>2. /\ w \in Jobs /\ w.name \in Names /\ w.obj \in Objects
      /\ UNCHANGED <<api, cache, events>>
      /\ \A q \in Replicas, l \in Kinds : q # r \/ l # k => store'[q][l] = store[q][l]
      /\ \/ /\ w.pc = "delete"
            /\ \A i \in Ids : store'[r][k][i] =
                 IF i = w.obj.spec.id THEN None ELSE store[r][k][i]
            /\ At("removeFinalizer", w.name, w.obj) \in Jobs
            /\ GoTo(r, k, At("removeFinalizer", w.name, w.obj))
         \/ /\ w.pc = "sync"
            /\ \A i \in Ids : store'[r][k][i] =
                 IF i = w.obj.spec.id THEN w.obj.spec ELSE store[r][k][i]
            /\ GoTo(r, k, Idle)
  <2>1. CASE DeleteFromStore(r, k)
    BY <1>0, <1>1, <2>1, DeleteFromStoreEffect DEF clusterVars, informerVars
  <2>2. CASE Sync(r, k)
    BY <1>0, <1>1, <2>2, SyncEffect DEF clusterVars
  <2> QED BY <2>1, <2>2
<1>3. \A q \in Replicas, l \in Kinds : q # r \/ l # k => worker'[q][l] = worker[q][l]
  BY <1>0, <1>2, GoToEffect
<1>4. \A m \in Names : Backed(m)' <=> Backed(m)
  BY <1>2 DEF Backed
<1>5. \A q \in Replicas, m \in Names : CopyBacked(q, m)'
  BY <1>0, <1>2, <1>4 DEF EntriesOK, CopyBacked, Copies
<1>6. ASSUME NEW q \in Replicas, NEW l \in Kinds, q # r \/ l # k
      PROVE  SyncBacked(q, l)' /\ RemoveEmptied(q, l)' /\ EntryBacked(q, l)'
  BY <1>0, <1>2, <1>3, <1>4, <1>6 DEF EntriesOK, SyncBacked, RemoveEmptied, EntryBacked
<1>7. SyncBacked(r, k)' /\ RemoveEmptied(r, k)' /\ EntryBacked(r, k)'
  <2>0. EntryBacked(r, k) /\ SyncBacked(r, k)
    BY <1>0 DEF EntriesOK
  <2>1. CASE w.pc = "delete"
    <3>1. worker'[r][k] = At("removeFinalizer", w.name, w.obj)
      BY <1>0, <1>2, <2>1, GoToEffect
    <3>2. worker'[r][k].pc = "removeFinalizer" /\ worker'[r][k].obj = w.obj
      BY <1>2, <3>1, AtIsJob DEF WorkerPCs
    <3>3. SyncBacked(r, k)' /\ RemoveEmptied(r, k)'
      BY <1>2, <2>1, <3>2 DEF SyncBacked, RemoveEmptied
    <3>4. EntryBacked(r, k)'
      BY <1>2, <1>4, <2>0, <2>1 DEF EntryBacked
    <3> QED BY <3>3, <3>4
  <2>2. CASE w.pc = "sync"
    <3>1. worker'[r][k] = Idle
      BY <1>0, <1>2, <2>2, GoToEffect
    <3>2. SyncBacked(r, k)' /\ RemoveEmptied(r, k)'
      BY <3>1, IdleFields DEF SyncBacked, RemoveEmptied
    <3>3. Backed(w.name)
      BY <1>1, <1>2, <2>0, <2>2 DEF SyncBacked
    <3>4. w.obj.spec \in SpecsOf[w.name] /\ KindOf[w.name] = k
      BY <1>0, <1>1, <1>2, JobFields DEF JobOK
    <3>5. api[w.name].spec.id = w.obj.spec.id
      BY <1>0, <1>2, <3>3, <3>4 DEF ApiOK, StableIds, Backed
    <3>6. EntryBacked(r, k)'
      BY <1>2, <1>4, <2>0, <2>2, <3>3, <3>4, <3>5 DEF EntryBacked
    <3> QED BY <3>2, <3>6
  <2> QED BY <1>2, <2>1, <2>2
<1> QED BY <1>5, <1>6, <1>7 DEF EntriesOK

\* A controller that starts has the API server's objects.
LEMMA StartControllerBacks ==
  ASSUME EInv, NEW r \in Replicas, NEW k \in Kinds, StartController(r, k)
  PROVE  EntriesOK'
<1>0. TypeOK /\ EntriesOK
  BY DEF EInv, HInv, VInv
<1>1. /\ k \notin started[r]
      /\ \A n \in Names : cache'[r][n] = IF KindOf[n] = k THEN api[n] ELSE cache[r][n]
      /\ \A q \in Replicas \ {r} : cache'[q] = cache[q]
      /\ UNCHANGED <<api, events, worker, store>>
  BY <1>0, StartControllerEffect DEF clusterVars, storeVars
<1>2. \A m \in Names : Backed(m)' <=> Backed(m)
  BY <1>1 DEF Backed
<1>3. ASSUME NEW q \in Replicas, NEW m \in Names PROVE CopyBacked(q, m)'
  <2>1. CASE q # r \/ KindOf[m] # k
    <3>1. CopyBacked(q, m) /\ cache'[q][m] = cache[q][m]
      BY <1>0, <1>1, <2>1 DEF EntriesOK
    <3> QED BY <1>1, <1>2, <3>1 DEF CopyBacked, Copies
  <2>2. CASE q = r /\ KindOf[m] = k
    <3>1. CopiesOK(r, m)
      BY DEF EInv, HInv, VInv, VersionsOK
    <3>2. cache'[r][m] = api[m] /\ events'[r][m] = << >>
      BY <1>1, <2>2, <3>1 DEF CopiesOK
    <3>3. Copies(r, m)' = {api[m]} \ {None}
      BY <3>2, HeldAlone DEF Copies
    <3> QED BY <1>2, <2>2, <3>3 DEF CopyBacked, Backed
  <2> QED BY <2>1, <2>2
<1> QED BY <1>0, <1>1, <1>2, <1>3 DEF EntriesOK, SyncBacked, RemoveEmptied, EntryBacked

\* A process that has ended holds nothing.
LEMMA CrashBacks ==
  ASSUME EInv, NEW r \in Replicas, Crash(r)
  PROVE  EntriesOK'
<1>0. TypeOK /\ EntriesOK
  BY DEF EInv, HInv, VInv
<1>1. /\ \A n \in Names : cache'[r][n] = None /\ events'[r][n] = << >>
      /\ \A k \in Kinds : worker'[r][k] = Idle /\ \A i \in Ids : store'[r][k][i] = None
      /\ \A q \in Replicas \ {r} : /\ cache'[q] = cache[q] /\ events'[q] = events[q]
                                   /\ worker'[q] = worker[q] /\ store'[q] = store[q]
      /\ api' = api
  BY <1>0, CrashEffect DEF clusterVars
<1>2. \A m \in Names : Backed(m)' <=> Backed(m)
  BY <1>1 DEF Backed
<1>3. ASSUME NEW m \in Names PROVE CopyBacked(r, m)'
  BY <1>1, HeldAlone DEF CopyBacked, Copies
<1>4. ASSUME NEW k \in Kinds PROVE SyncBacked(r, k)' /\ RemoveEmptied(r, k)' /\ EntryBacked(r, k)'
  BY <1>1, IdleFields DEF SyncBacked, RemoveEmptied, EntryBacked
<1>5. ASSUME NEW q \in Replicas \ {r}, NEW m \in Names PROVE CopyBacked(q, m)'
  BY <1>0, <1>1, <1>2 DEF EntriesOK, CopyBacked, Copies
<1>6. ASSUME NEW q \in Replicas \ {r}, NEW k \in Kinds
      PROVE  SyncBacked(q, k)' /\ RemoveEmptied(q, k)' /\ EntryBacked(q, k)'
  BY <1>0, <1>1, <1>2 DEF EntriesOK, SyncBacked, RemoveEmptied, EntryBacked
<1> QED BY <1>3, <1>4, <1>5, <1>6 DEF EntriesOK

\* Steps that touch neither objects, copies, workers nor stores.
LEMMA FrameBacks ==
  ASSUME EInv, UNCHANGED <<api, cache, events, worker, store>>
  PROVE  EntriesOK'
  BY DEF EInv, EntriesOK, CopyBacked, SyncBacked, RemoveEmptied, EntryBacked, Backed, Copies

\* Every step keeps the invariant.
LEMMA EntriesKeep ==
  ASSUME StableIds, OneActive
  PROVE  EInv /\ [Next]_vars => EInv'
<1>1. ASSUME EInv, UNCHANGED vars PROVE EInv'
  BY <1>1, HoldersKeep, FrameBacks DEF EInv, vars
<1>2. ASSUME NEW r \in Replicas, Start(r) \/ Acquire(r), EInv PROVE EntriesOK'
  <2>1. UNCHANGED <<api, cache, events, worker, store>>
    BY <1>2 DEF Start, Acquire, clusterVars, informerVars, storeVars
  <2> QED BY <1>2, <2>1, FrameBacks
<1>3. ASSUME NEW r \in Replicas, NEW n \in Names, Resync(r, n), EInv PROVE EntriesOK'
  <2>1. UNCHANGED <<api, cache, events, worker, store>>
    BY <1>3 DEF Resync, clusterVars, storeVars
  <2> QED BY <1>3, <2>1, FrameBacks
<1>4. ASSUME EInv, Next PROVE EInv'
  <2>1. EntriesOK'
    BY <1>2, <1>3, <1>4, NextCases, EditBacks, UpdateBacks, GetBacks, DeliverBacks,
       StoreStepBacks, StartControllerBacks, CrashBacks
  <2> QED BY <1>4, <2>1, HoldersKeep DEF EInv
<1> QED BY <1>1, <1>4

\* Initially there are no entries.
LEMMA EntriesInit == Init => EInv
<1> SUFFICES ASSUME Init PROVE EntriesOK
  BY HoldersInit DEF EInv
<1>1. ASSUME NEW r \in Replicas, NEW n \in Names PROVE CopyBacked(r, n)
  BY HeldAlone DEF Init, CopyBacked, Copies
<1>2. ASSUME NEW r \in Replicas, NEW k \in Kinds
      PROVE  SyncBacked(r, k) /\ RemoveEmptied(r, k) /\ EntryBacked(r, k)
  BY IdleFields DEF Init, SyncBacked, RemoveEmptied, EntryBacked, EmptyStore, EmptyMap
<1> QED BY <1>1, <1>2 DEF EntriesOK

\* The invariant is about the runs' property.
LEMMA EntriesMeaning == EInv => EntriesHaveFinalizer
  BY DEF EInv, EntriesOK, EntryBacked, Backed, EntriesHaveFinalizer

\* When updates keep ids and one replica at a time runs controllers, an entry
\* of any store is backed by an object that still carries the finalizer, so
\* the API server cannot lose the object before the reconciler has taken its
\* entry out: for any number of replicas, failovers, edits and faults.
THEOREM EntriesBacked ==
  ASSUME StableIds, OneActive
  PROVE  Spec => []EntriesHaveFinalizer
  BY EntriesInit, EntriesKeep, EntriesMeaning, PTL DEF Spec

=============================================================================
