----------------------------- MODULE Reconciler -----------------------------
(***************************************************************************)
(* The User and Model controllers, between the Kubernetes API and the      *)
(* in-memory store of each replica.                                        *)
(*                                                                         *)
(* Both reconcilers have the same Reconcile, over objects of their kind;   *)
(* the actions take the kind as a parameter.  What surrounds them is       *)
(* controller-runtime, modelled from how it is set up in main.go:          *)
(*  - Get reads the replica's informer cache, which follows the API server *)
(*    through a watch and may lag behind it;                               *)
(*  - Update goes to the API server and is refused when the object has a   *)
(*    newer resource version than the copy that was read;                  *)
(*  - each controller has one worker and a work queue without duplicates;  *)
(*    a Reconcile that returns an error puts its object back;              *)
(*  - with leader election only the leader's controllers run, and a        *)
(*    replica that loses its lease exits.                                  *)
(* Resource versions are only ever compared for one object, so they are    *)
(* counted per name.                                                       *)
(***************************************************************************)
EXTENDS MemoryStore, Integers, Sequences

CONSTANTS
  Replicas,
  Names,            \* names of custom resources, of both kinds
  KindOf,           \* the kind of each
  SpecsOf,          \* the specs an administrator may give each
  LeaderElection,   \* --leader-elect
  MaxEdits,         \* bound on the administrator's creates, updates, deletes
  MaxFaults         \* bound on crashes and failed updates

Kinds == {"User", "Model"}
Specs == UNION {SpecsOf[n] : n \in Names}
Ids == {s.id : s \in Specs} \ {""}

ASSUME KindsAssumption == KindOf \in [Names -> Kinds]
ASSUME BoundsAssumption == MaxEdits \in Nat /\ MaxFaults \in Nat
ASSUME NoneAssumption == None \notin Specs /\ None \notin Replicas
ASSUME LeaderElectionAssumption == LeaderElection \in BOOLEAN

VARIABLES
  api,              \* the custom resources, None where there is none
  rv,               \* the last resource version given out for each name
  leader,           \* the holder of the lease, or None
  up,               \* the replicas that run
  started,          \* the kinds whose controller runs, per replica
  cache,            \* informer caches
  events,           \* watch events not yet delivered, oldest first
  queue,            \* work queues (the names tell the controllers apart)
  worker,           \* the worker of each controller
  store,            \* in-memory stores: kind -> id -> spec
  synced,           \* the flag behind /readyz
  syncedRV,         \* history: the version of each name last put in or taken out
  edits, faults     \* used up of the bounds

clusterVars == <<api, rv, edits>>
informerVars == <<cache, events, queue>>
processVars == <<leader, up, started>>
storeVars == <<store, synced, syncedRV>>
vars == <<api, rv, leader, up, started, cache, events, queue, worker,
          store, synced, syncedRV, edits, faults>>

Objects == [spec : Specs, rv : Nat, deleting : BOOLEAN, finalizer : BOOLEAN]

ASSUME ObjectsAssumption == None \notin Objects

WorkerPCs == {"delete", "removeFinalizer", "addFinalizer", "sync"}
Jobs == [pc : WorkerPCs, name : Names, obj : Objects]
Idle == [pc |-> "idle", name |-> None, obj |-> None]
At(label, n, o) == [pc |-> label, name |-> n, obj |-> o]

EmptyStore == [k \in Kinds |-> EmptyMap(Ids)]

-----------------------------------------------------------------------------
(* The API server and its watches *)

\* Name n gets version o (None: it is removed).  Every running controller
\* of its kind has an open watch.
Write(n, o) ==
  /\ api' = [api EXCEPT ![n] = o]
  /\ rv' = [rv EXCEPT ![n] = @ + 1]
  /\ events' = [r \in Replicas |->
                  IF KindOf[n] \in started[r]
                    THEN [events[r] EXCEPT ![n] = Append(@, o)]
                    ELSE events[r]]

Edit == edits < MaxEdits /\ edits' = edits + 1

Create(n, s) ==
  /\ Edit
  /\ api[n] = None
  /\ Write(n, [spec |-> s, rv |-> rv[n] + 1, deleting |-> FALSE, finalizer |-> FALSE])
  /\ UNCHANGED <<processVars, cache, queue, worker, storeVars, faults>>

UpdateSpec(n, s) ==
  /\ Edit
  /\ api[n] # None
  /\ api[n].spec # s
  /\ Write(n, [api[n] EXCEPT !.spec = s, !.rv = rv[n] + 1])
  /\ UNCHANGED <<processVars, cache, queue, worker, storeVars, faults>>

\* An object with a finalizer is only marked for deletion.
Delete(n) ==
  /\ Edit
  /\ api[n] # None
  /\ ~api[n].deleting
  /\ \/ /\ api[n].finalizer
        /\ Write(n, [api[n] EXCEPT !.deleting = TRUE, !.rv = rv[n] + 1])
     \/ /\ ~api[n].finalizer
        /\ Write(n, None)
  /\ UNCHANGED <<processVars, cache, queue, worker, storeVars, faults>>

\* A watch event arrives.  A broken watch is resumed by a new list, which
\* skips the versions in between.
Deliver(r, n) ==
  /\ \E i \in 1..Len(events[r][n]) :
       /\ cache' = [cache EXCEPT ![r][n] = events[r][n][i]]
       /\ events' = [events EXCEPT ![r][n] = SubSeq(@, i + 1, Len(@))]
  /\ queue' = [queue EXCEPT ![r] = @ \cup {n}]
  /\ UNCHANGED <<clusterVars, processVars, worker, storeVars, faults>>

\* The informer's periodic resync.
Resync(r, n) ==
  /\ cache[r][n] # None
  /\ queue' = [queue EXCEPT ![r] = @ \cup {n}]
  /\ UNCHANGED <<clusterVars, processVars, cache, events, worker, storeVars, faults>>

-----------------------------------------------------------------------------
(* Reconcile *)

SyncSpec(k, map, spec) ==
  IF k = "User" THEN SyncUser(map, spec) ELSE SyncModel(map, spec)

DeleteSpec(k, map, id) ==
  IF k = "User" THEN DeleteUser(map, id) ELSE DeleteModel(map, id)

GoTo(r, k, w) == worker' = [worker EXCEPT ![r][k] = w]

\* Mutant: Reconcile swallows the error.
ReturnError_swallowed(r, k) == GoTo(r, k, Idle) /\ UNCHANGED queue

\* Reconcile returns an error: the object is queued again.
ReturnError(r, k) ==
  /\ GoTo(r, k, Idle)
  /\ queue' = [queue EXCEPT ![r] = @ \cup {worker[r][k].name}]

\* Mutant: an object is synced without waiting for its finalizer.
Branch_noFinalizer(n, o) ==
  CASE o = None                -> Idle
    [] o # None /\ o.deleting  -> IF o.finalizer THEN At("delete", n, o) ELSE Idle
    [] o # None /\ ~o.deleting -> At("sync", n, o)

\* Mutant: an object that is being deleted loses its finalizer at once.
Branch_keepsEntry(n, o) ==
  CASE o = None                -> Idle
    [] o # None /\ o.deleting  -> IF o.finalizer THEN At("removeFinalizer", n, o) ELSE Idle
    [] o # None /\ ~o.deleting ->
         IF o.finalizer THEN At("sync", n, o) ELSE At("addFinalizer", n, o)

\* Where Reconcile goes with the object it has read.
Branch(n, o) ==
  CASE o = None                      -> Idle
    [] o # None /\ o.deleting        -> IF o.finalizer THEN At("delete", n, o) ELSE Idle
    [] o # None /\ ~o.deleting       ->
         IF o.finalizer THEN At("sync", n, o) ELSE At("addFinalizer", n, o)

\* The worker takes n from the queue and Gets it from the cache.
Get(r, n) ==
  LET k == KindOf[n] IN
  /\ k \in started[r]
  /\ worker[r][k] = Idle
  /\ n \in queue[r]
  /\ queue' = [queue EXCEPT ![r] = @ \ {n}]
  /\ GoTo(r, k, Branch(n, cache[r][n]))
  /\ UNCHANGED <<clusterVars, processVars, cache, events, storeVars, faults>>

\* Mutant: a deletion empties the store, for the resync to fill it again.
DeleteFromStore_resets(r, k) ==
  LET w == worker[r][k] IN
  /\ w.pc = "delete"
  /\ store' = [store EXCEPT ![r] = EmptyStore]
  /\ syncedRV' = [syncedRV EXCEPT ![r][w.name] = w.obj.rv]
  /\ GoTo(r, k, At("removeFinalizer", w.name, w.obj))
  /\ UNCHANGED <<clusterVars, processVars, informerVars, synced, faults>>

DeleteFromStore(r, k) ==
  LET w == worker[r][k] IN
  /\ w.pc = "delete"
  /\ store' = [store EXCEPT ![r][k] = DeleteSpec(k, @, w.obj.spec.id)]
  /\ syncedRV' = [syncedRV EXCEPT ![r][w.name] = w.obj.rv]
  /\ GoTo(r, k, At("removeFinalizer", w.name, w.obj))
  /\ UNCHANGED <<clusterVars, processVars, informerVars, synced, faults>>

\* The API server accepts an Update of the copy o of n.
Current(n, o) == api[n] # None /\ api[n].rv = o.rv

\* What Reconcile writes with Update: removing the last finalizer of an
\* object that is marked for deletion removes it.
Updated(w) ==
  IF w.pc = "removeFinalizer"
    THEN None
    ELSE [w.obj EXCEPT !.finalizer = TRUE, !.rv = rv[w.name] + 1]

\* Update succeeds; the object now carries the new version.
Update(r, k) ==
  LET w == worker[r][k] IN
  /\ w.pc \in {"removeFinalizer", "addFinalizer"}
  /\ Current(w.name, w.obj)
  /\ Write(w.name, Updated(w))
  /\ GoTo(r, k, IF w.pc = "removeFinalizer" THEN Idle ELSE At("sync", w.name, Updated(w)))
  /\ UNCHANGED <<edits, processVars, cache, queue, storeVars, faults>>

\* Mutant: a conflict is ignored and the copy is synced all the same.
UpdateRefused_ignored(r, k) ==
  LET w == worker[r][k] IN
  /\ w.pc \in {"removeFinalizer", "addFinalizer"}
  /\ ~Current(w.name, w.obj)
  /\ GoTo(r, k, IF w.pc = "removeFinalizer" THEN Idle ELSE At("sync", w.name, w.obj))
  /\ UNCHANGED <<clusterVars, processVars, informerVars, storeVars, faults>>

\* Update is refused: Conflict, or NotFound.
UpdateRefused(r, k) ==
  LET w == worker[r][k] IN
  /\ w.pc \in {"removeFinalizer", "addFinalizer"}
  /\ ~Current(w.name, w.obj)
  /\ ReturnError(r, k)
  /\ UNCHANGED <<clusterVars, processVars, cache, events, storeVars, faults>>

Fault == faults < MaxFaults /\ faults' = faults + 1

\* Update fails on the way: the API server never sees it, or it has applied
\* it and the answer is lost.
UpdateFails(r, k) ==
  LET w == worker[r][k] IN
  /\ Fault
  /\ w.pc \in {"removeFinalizer", "addFinalizer"}
  /\ \/ UNCHANGED <<api, rv, events>>
     \/ Current(w.name, w.obj) /\ Write(w.name, Updated(w))
  /\ ReturnError(r, k)
  /\ UNCHANGED <<edits, processVars, cache, storeVars>>

\* Mutant: the worker retries an object it cannot sync on the spot.
Sync_retriesInPlace(r, k) ==
  LET w == worker[r][k] IN
  /\ w.pc = "sync"
  /\ ValidId(w.obj.spec)
  /\ store' = [store EXCEPT ![r][k] = SyncSpec(k, @, w.obj.spec)]
  /\ synced' = [synced EXCEPT ![r] = TRUE]
  /\ syncedRV' = [syncedRV EXCEPT ![r][w.name] = w.obj.rv]
  /\ GoTo(r, k, Idle)
  /\ UNCHANGED <<clusterVars, processVars, informerVars, faults>>

\* SyncUser or SyncModel, then the Synced flag.
Sync(r, k) ==
  LET w == worker[r][k] IN
  /\ w.pc = "sync"
  /\ store' = [store EXCEPT ![r][k] = SyncSpec(k, @, w.obj.spec)]
  /\ \/ /\ ValidId(w.obj.spec)
        /\ synced' = [synced EXCEPT ![r] = TRUE]
        /\ syncedRV' = [syncedRV EXCEPT ![r][w.name] = w.obj.rv]
        /\ GoTo(r, k, Idle)
        /\ UNCHANGED queue
     \/ /\ ~ValidId(w.obj.spec)
        /\ ReturnError(r, k)
        /\ UNCHANGED <<synced, syncedRV>>
  /\ UNCHANGED <<clusterVars, processVars, cache, events, faults>>

\* The steps of Reconcile after Get.
Reconcile(r, k) ==
  \/ DeleteFromStore(r, k)
  \/ Update(r, k)
  \/ UpdateRefused(r, k)
  \/ UpdateFails(r, k)
  \/ Sync(r, k)

UserReconcile(r) == Reconcile(r, "User")
ModelReconcile(r) == Reconcile(r, "Model")

-----------------------------------------------------------------------------
(* Processes *)

\* main: the store is empty and synced is false.
Start(r) ==
  /\ r \notin up
  /\ up' = up \cup {r}
  /\ UNCHANGED <<clusterVars, leader, started, informerVars, worker, storeVars, faults>>

Acquire(r) ==
  /\ LeaderElection
  /\ r \in up
  /\ leader = None
  /\ leader' = r
  /\ UNCHANGED <<clusterVars, up, started, informerVars, worker, storeVars, faults>>

\* Mutant: the controllers run on every replica, leader or not.
StartController_everywhere(r, k) ==
  /\ r \in up
  /\ k \notin started[r]
  /\ started' = [started EXCEPT ![r] = @ \cup {k}]
  /\ cache' = [cache EXCEPT ![r] =
                 [n \in Names |-> IF KindOf[n] = k THEN api[n] ELSE cache[r][n]]]
  /\ queue' = [queue EXCEPT ![r] =
                 @ \cup {n \in Names : KindOf[n] = k /\ api[n] # None}]
  /\ UNCHANGED <<clusterVars, leader, up, events, worker, storeVars, faults>>

\* Mutant: only later events are queued, not what is already there.
StartController_eventsOnly(r, k) ==
  /\ r \in up
  /\ LeaderElection => leader = r
  /\ k \notin started[r]
  /\ started' = [started EXCEPT ![r] = @ \cup {k}]
  /\ cache' = [cache EXCEPT ![r] =
                 [n \in Names |-> IF KindOf[n] = k THEN api[n] ELSE cache[r][n]]]
  /\ UNCHANGED <<clusterVars, leader, up, events, queue, worker, storeVars, faults>>

\* The manager starts the controller of kind k: its informer lists the
\* objects, opens the watch and queues everything it found.
StartController(r, k) ==
  /\ r \in up
  /\ LeaderElection => leader = r
  /\ k \notin started[r]
  /\ started' = [started EXCEPT ![r] = @ \cup {k}]
  /\ cache' = [cache EXCEPT ![r] =
                 [n \in Names |-> IF KindOf[n] = k THEN api[n] ELSE cache[r][n]]]
  /\ queue' = [queue EXCEPT ![r] =
                 @ \cup {n \in Names : KindOf[n] = k /\ api[n] # None}]
  /\ UNCHANGED <<clusterVars, leader, up, events, worker, storeVars, faults>>

\* The process ends: a crash, or a lost lease.  Everything it held is gone.
Crash(r) ==
  /\ Fault
  /\ r \in up
  /\ up' = up \ {r}
  /\ leader' = IF leader = r THEN None ELSE leader
  /\ started' = [started EXCEPT ![r] = {}]
  /\ cache' = [cache EXCEPT ![r] = [n \in Names |-> None]]
  /\ events' = [events EXCEPT ![r] = [n \in Names |-> << >>]]
  /\ queue' = [queue EXCEPT ![r] = {}]
  /\ worker' = [worker EXCEPT ![r] = [k \in Kinds |-> Idle]]
  /\ store' = [store EXCEPT ![r] = EmptyStore]
  /\ synced' = [synced EXCEPT ![r] = FALSE]
  /\ syncedRV' = [syncedRV EXCEPT ![r] = [n \in Names |-> 0]]
  /\ UNCHANGED clusterVars

-----------------------------------------------------------------------------
Init ==
  /\ api = [n \in Names |-> None]
  /\ rv = [n \in Names |-> 0]
  /\ leader = None
  /\ up = {}
  /\ started = [r \in Replicas |-> {}]
  /\ cache = [r \in Replicas |-> [n \in Names |-> None]]
  /\ events = [r \in Replicas |-> [n \in Names |-> << >>]]
  /\ queue = [r \in Replicas |-> {}]
  /\ worker = [r \in Replicas |-> [k \in Kinds |-> Idle]]
  /\ store = [r \in Replicas |-> EmptyStore]
  /\ synced = [r \in Replicas |-> FALSE]
  /\ syncedRV = [r \in Replicas |-> [n \in Names |-> 0]]
  /\ edits = 0
  /\ faults = 0

Next ==
  \/ \E n \in Names :
       \/ \E s \in SpecsOf[n] : Create(n, s) \/ UpdateSpec(n, s)
       \/ Delete(n)
  \/ \E r \in Replicas :
       \/ Start(r)
       \/ Acquire(r)
       \/ \E k \in Kinds : StartController(r, k)
       \/ \E n \in Names : Deliver(r, n) \/ Resync(r, n) \/ Get(r, n)
       \/ UserReconcile(r)
       \/ ModelReconcile(r)
       \/ Crash(r)

\* Kubernetes restarts the process and a lease is taken when it is free;
\* watch events arrive; a worker that has an object goes on with it; and
\* the work queue is first in, first out, so no queued object waits forever
\* behind others that keep coming back.
Fairness ==
  /\ WF_vars(\E r \in Replicas : Acquire(r))
  /\ \A r \in Replicas :
       /\ WF_vars(Start(r))
       /\ \A k \in Kinds : WF_vars(StartController(r, k))
       /\ WF_vars(UserReconcile(r))
       /\ WF_vars(ModelReconcile(r))
       /\ \A n \in Names : WF_vars(Deliver(r, n)) /\ SF_vars(Get(r, n))

Spec == Init /\ [][Next]_vars /\ Fairness

-----------------------------------------------------------------------------
(* Properties *)

TypeOK ==
  /\ api \in [Names -> Objects \cup {None}]
  /\ rv \in [Names -> Nat]
  /\ leader \in Replicas \cup {None}
  /\ up \in SUBSET Replicas
  /\ started \in [Replicas -> SUBSET Kinds]
  /\ cache \in [Replicas -> [Names -> Objects \cup {None}]]
  /\ events \in [Replicas -> [Names -> Seq(Objects \cup {None})]]
  /\ queue \in [Replicas -> SUBSET Names]
  /\ worker \in [Replicas -> [Kinds -> Jobs \cup {Idle}]]
  /\ store \in [Replicas -> [Kinds -> [Ids -> Specs \cup {None}]]]
  /\ synced \in [Replicas -> BOOLEAN]
  /\ syncedRV \in [Replicas -> [Names -> Nat]]
  /\ edits \in 0..MaxEdits
  /\ faults \in 0..MaxFaults

\* The replicas whose controllers run, or would if they had started.
Active(r) == r \in up /\ (LeaderElection => leader = r)

Live(n) == api[n] # None /\ ~api[n].deleting /\ ValidId(api[n].spec)

\* What the store of a replica that has caught up holds.
Expected(k, i) ==
  LET holders == {n \in Names : KindOf[n] = k /\ Live(n) /\ api[n].spec.id = i}
  IN  IF holders = {} THEN None ELSE api[CHOOSE n \in holders : TRUE].spec

\* An entry of the store is backed by an object that still carries the
\* finalizer: as long as a replica would let a user in, the API server
\* keeps the object until that replica's reconciler has taken the entry
\* out.  Reconcile works on cached copies, so this needs the finalizer to
\* be confirmed before the sync and the delete to come before its removal
\* (user_controller.go, model_controller.go: Reconcile).
EntriesHaveFinalizer ==
  \A r \in Replicas : \A k \in Kinds : \A i \in Ids :
    store[r][k][i] # None =>
      \E n \in Names : /\ KindOf[n] = k
                       /\ api[n] # None
                       /\ api[n].finalizer
                       /\ api[n].spec.id = i

\* As long as a process lives, its store never goes back to an older
\* version of an object, nor loses the entry of a recreated object to the
\* deletion of the one before it, although events are delayed, reconciles
\* retried and Reconcile syncs a version its own cache may not have seen yet
\* (Reconcile: Update fills in the object that is then synced).
StoreNeverRegresses ==
  [][\A r \in Replicas : \A n \in Names :
       r \in up' => syncedRV[r][n] <= syncedRV'[r][n]]_vars

\* Once the administrator and the faults rest, the store of every active
\* replica holds exactly the live objects with a valid id, in their latest
\* version, and keeps doing so.
EventuallyConsistent ==
  <>[](\A r \in Replicas : Active(r) =>
         \A k \in Kinds : \A i \in Ids : store[r][k][i] = Expected(k, i))

\* An object marked for deletion goes away in the end: Reconcile removes the
\* finalizer in spite of conflicts, lost answers and restarts.
DeletionCompletes ==
  \A n \in Names : (api[n] # None /\ api[n].deleting) ~> (api[n] = None)

\* If there is something to sync, every replica becomes ready in the end
\* (main.go: readyz; pkg/runnable: the ext-auth server "must serve traffic
\* on every replica").
EveryReplicaBecomesReady ==
  \A r \in Replicas : <>[]((\E n \in Names : Live(n)) => synced[r])

\* The replica whose controllers run becomes ready, and stays so, while there
\* is something to sync: a failover does not leave the cluster without a
\* ready replica (Reconcile: Synced; main.go: readyz).
LeaderBecomesReady ==
  \A r \in Replicas : <>[](Active(r) /\ (\E n \in Names : Live(n)) => synced[r])

\* When a replica becomes ready its store holds every object its informers
\* have listed by then (main.go: "Shared synced flag for readiness").
ReadyMeansPopulated ==
  [][\A r \in Replicas :
       ~synced[r] /\ synced'[r] =>
         \A n \in Names :
           /\ cache[r][n] # None
           /\ ~cache[r][n].deleting
           /\ ValidId(cache[r][n].spec)
           => store'[r][KindOf[n]][cache[r][n].spec.id] # None]_vars

=============================================================================
