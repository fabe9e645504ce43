# TLA+ verification of secure-inference

This directory models secure-inference: an Envoy ext-auth gRPC server that lets
inference requests through or refuses them, from an in-memory store that two
Kubernetes controllers fill from `User` and `Model` custom resources.

## 1. Inventory

| Component | Source | State | Operations |
|---|---|---|---|
| ext-auth server | `pkg/server`, `pkg/types` | none shared; per call: parsed request, copies of user and model, candidates | `Check` |
| JWT authenticator | `pkg/auth/jwt` | the public key, loaded once | `Authenticate` |
| policy engine | `pkg/policyengine/opa` | none (prepared queries) | `CheckAccess`, `GetAllowedModels` |
| in-memory store | `pkg/store/memory` | maps `users`, `models` behind one RWMutex | `UserExists`, `GetUser`, `GetModel`, `ListModelsByType`, `Sync*`, `Delete*` |
| adapter selector | `pkg/adapterselection/semantic` | url, threshold, HTTP client | `Pick` |
| sidecar | `sidecar/adapter-selection-fastembed` | embedding cache | `/pick` |
| controllers | `pkg/controller` | none of their own; the informer cache and the work queue are controller-runtime's | `Reconcile` for each kind |
| process, runnables | `cmd/secure-inference`, `pkg/runnable` | `synced`, leadership, the manager's context | start, serve, readiness, graceful stop |
| configuration | `pkg/config` | the config record | `LoadConfig`, `Validate` |
| admin tool | `cmd/llmd-admin`, `pkg/admin`, `Makefile` | key and certificate files, the published Secret | `init`, `tls-cert`, `create`, publication by `make deploy` |
| deployment customizer | `cmd/deployment-customizer` | none | text templating |

How they interact. The gateway calls `Check`; gRPC runs every call on a
goroutine of its own. `Check` parses and authenticates the request, looks the
store up up to four times (the lock is held within a lookup, not between two),
asks the policy engine, and for a base model may ask the sidecar over HTTP for
an adapter. Meanwhile the two controllers write the same store: each has one
worker, reads objects from an informer cache that lags behind the API server,
and updates objects at the API server under optimistic concurrency. The first
sync of an object sets `synced`, which is what `/readyz` reports. `llmd-admin`
writes the CA's key and certificate to files and signs tokens with the key; the
certificate reaches the server through a Secret that `make deploy` creates, and
the server reads it once, when it starts.

What is hard: store writes between the lookups of one call; a sidecar that is
slow, fails or answers nonsense; reconciles of stale copies, conflicts, updates
whose answer is lost, crashes between two steps of `Reconcile`; several
replicas, with and without leader election; objects that can never be synced;
objects that claim the same id; a shutdown that meets the server half started;
commands of the admin tool that overlap or stop between two files; a certificate
that is applied long after it was read.

What makes each component correct:

* server: an answer is justified by what the store held during the call, a
  rewrite names an adapter the same user may use, trouble with the sidecar
  never refuses anyone, and every call ends;
* controllers: a store entry never outlives the finalizer of its object, the
  store never goes back to an older version, it converges to the live objects,
  and deletions complete;
* controllers and server together: what is gone from the API server before a call
  arrives is not granted by it;
* process: every replica becomes ready, and only with a populated store; the
  server serves with or without the lease, and a cancelled process answers its
  calls and exits;
* sidecar: threads that share the embedding cache never miss an entry or read a
  wrong one, and each answer is the best candidate of its own request;
* configuration: `Validate` and the factories agree on what is usable;
* admin tool: a complete `init` repairs what incomplete ones left, a certificate is
  signed by the CA appended to it, expired tokens stay refused, and so do rotated
  keys when inits and publications come one at a time.

`PROJECT.json` lists all components, and the hazards with the line where each
bites and the properties aimed at it.

## 2. Modules

| Module | Models |
|---|---|
| `Nil` | the one constant `None` for nil, "not found" and errors |
| `MemoryStore` | the store's methods as operators on its maps |
| `AccessPolicy` | `access.rego` and the two queries over it |
| `InferenceRequest` | `ParseCheckRequest`, `PromptText` |
| `JWTAuth` | `Authenticate`, `ValidateJWTWithKey`; signature and expiry are the JWT library's |
| `CheckAPI` | specs, requests, responses and configuration of `Check` |
| `ExtAuthz` | `Check`, one action per store lookup or external call, per handler; the reconcilers' writes in any order |
| `AnswerRules` | which answers a call's window justifies |
| `AuthzContract` | abstract specification: a call begins, the store changes, the call is answered in one step |
| `ExtAuthzWindow` | `ExtAuthz` with the history variable `window`, the refinement mapping, the properties |
| `ExtAuthzProofs` | the theorems about the server |
| `Reconciler` | both controllers, their caches, queues and workers, the API server, processes and leadership |
| `ReconcilerProofs` | the theorems about the controllers |
| `Sidecar` | `/pick` by a pool of threads, the embedding cache access by access |
| `SidecarProofs` | the theorems about the sidecar |
| `Startup` | `main` from the configuration file to serving or exit: decoding, `Validate`, the factories |
| `Process` | extends `Startup`: the gRPC runnable and its stopping goroutine, the manager, signals, the lease, the exit |
| `ProcessProofs` | the theorems about the configuration, the start and the exit |
| `AdminTool` | `llmd-admin` over its files, publication of the certificate, the key a server has loaded, tokens over time |
| `AdminToolProofs` | the theorems about keys, certificates and tokens |
| `SecureInference` | composes `Reconciler` and `ExtAuthz`: the workers write the store the handlers read |
| `SecureInferenceProofs` | the theorems about the composition |
| `MCExtAuthz`, `MCReconciler`, `MCSecureInference`, `MCSidecar`, `MCStartup`, `MCAdminTool` | instances for TLC |

Definitions named `X_something` and commented "Mutant" are deliberate mistakes,
used to show that the properties can fail; no specification uses them.

### The server

A handler's `pc` says which lookup `Check` makes next; `user`, `model` and
`adapters` are its locals. What `Check` does between two lookups touches nothing
shared and belongs to the neighbouring action. `Parse` covers the parser, the
unprotected paths and the authenticator; `CheckUserExists`, `LookUpUser`,
`LookUpModel` and `ListLoras` are the four lookups; `EvaluatePolicy` and
`PolicyError` the decision and its failure; `Pick` the answer of the sidecar,
which may be any model id with any score, or a failure; a threshold of NaN, which
`strconv.ParseFloat` accepts, is one no score is below. The error returns of
the store interface that the in-memory store never makes ("user validation
error", a failing list) are left out. Specs are values: the store deep-copies
in and out.

The *window* of a call is what the store held for its caller and for the models
at the instants from the call's arrival to its answer. `AnswerRules!Permits`
says which answers a window justifies: "user not registered" needs an instant
at which the user was missing, "allowed" needs a user and a model spec that the
policy accepts, the user's seen no later than the model's, and so on. The
contract does not ask for one instant that justifies the whole answer, because
`Check` does not provide it: it may combine a user with a model that was synced
after that user was deleted.

### The controllers

`Reconciler` treats both kinds with the same actions; the two `Reconcile`
functions differ in nothing but the kind. `Get` takes a name from the queue and
reads the cache; `Branch` is where `Reconcile` goes from there.
`DeleteFromStore`, `Update` (add or remove the finalizer), `UpdateRefused`
(conflict or not found), `UpdateFails` (not applied, or applied with the answer
lost) and `Sync` are its further steps, each of which may interleave with
anything. A `Get` that fails for another reason than "not found" puts the name
back where it came from and has no effect.

External, and marked so in the map: the API server (optimistic concurrency,
finalizers, watch events in order per object, lists that show the present
state), the informer (a broken watch may skip versions; periodic resync), the
work queue (no duplicates, first in first out, retry on error), leader election
(one leader; a process that loses its lease exits). Administrators do not edit
finalizers. Resource versions are counted per object, as they are only compared
for one object. `syncedRV` is a history variable: the version last put into or
taken out of the store.

### The sidecar

FastAPI runs the synchronous endpoint on a pool of threads, and the interpreter
lock makes single accesses of `_embedding_cache` atomic, not `_embed` as a whole.
`Scan` is one membership test, `Embed` the call of the model (external; it may
raise, `EmbedRaises`), `Store` one assignment, `Read` the reads at the end and the
loop body of `pick_best` that follows, `SkipCandidate` its `continue`. An
embedding is abstracted to the text it is of and its length, so that leaving out
the normalization would show; cosines are a constant matrix. The reference,
`IsWinner`, is the declarative maximum with the first candidate winning ties. A
candidate whose similarity is exactly -1.0 never wins: the loop starts from that
score.

### The start

`Startup` takes a configuration file in which each field is absent or present and
each `parameters` map absent, null or an object, decodes it over the defaults as
`encoding/json` does (objects merge into the default map, null empties it), and
follows `main` through `Validate` and the factories. What lies outside the
process (file unreadable, cluster unreachable, key file missing) may fail at any
time. Seen on the way: `Validate` does not look at a threshold that is present and
blank, which `semantic.New` fails to parse; as the threshold is optional,
`ValidatedIsComplete` leaves it out.

### The running process

`Process` goes on from `mgr.Start`. The runnable's function listens, leaves a
goroutine that waits for the manager's context (`Spawn`), and calls `Serve`; the
goroutine calls `GracefulStop`. A signal, a lost lease, a taken port or a broken
listener may come between any two of these steps. External, from how the code
uses them: the manager cancels its context on the first error and waits for its
runnables, except after a lost lease; `Serve` refuses to begin once `GracefulStop`
has, and returns nil when `GracefulStop` is through. The manager gives up waiting
after 30 s; the longest a call takes is the 5 s of the sidecar's timeout, so that
limit is not modelled. What the model makes visible: a signal that falls between
`Spawn` and `Serve` makes `Serve` return an error, which the manager returns or
only logs, so an orderly stop may end with either exit status.

### Keys and tokens

In `AdminTool` each invocation of `llmd-admin` is a process. `Begin` generates the
key pair; `tls-cert` then reads the CA's certificate (`ReadCA`) and key (`ReadCAKey`,
which also signs: the library refuses a key that is not the certificate's);
each `os.WriteFile` is an `Open`, which truncates, and a `WriteFile`. `Stop` may come
anywhere. `create` reads a single file and is one step. `make deploy` publishes the
certificate with a pipeline, `kubectl create --dry-run | kubectl apply`: `ReadCertificate`
takes the file as it is, torn or not, and `ApplySecret` puts it in the Secret later, or
not at all (`ApplyFails`). `StartServer` loads what the Secret holds then. Keys are
numbered in the order they are generated, which is what "older" means. `clean`,
`overlapped`, `served` and the field `alone` are history. Seen on the way: `init`
prints its error and exits with status 0, so that `make deploy` goes on to publish
whatever certificate is there; and two `init`s that overlap may leave the key of one
beside the certificate of the other, which is why `RetiredKeysStayRetired` excludes
them and `FreshTokensWork` asks for one that ran alone. It excludes two publications
that overlap as well: the one that read the older certificate may apply it last, after
a server has loaded the newer, and the next restart brings the retired key back.

### The composition

`SecureInference` instantiates `ExtAuthz` for each replica over the store that
`Reconciler` writes there. A step of the controllers is one of `Reconciler`'s
actions; when it ends a process, the calls in it are lost. A call arrives at any
running process, ready or not: gRPC serves before `readyz` passes, on an empty
store. `ServersAreExtAuthz` ties the two halves: `ExtAuthz` on its own lets its store
change by any sync or delete of a spec at any time, and the composition shows that
this is all a live server ever sees. `gone` is history: the objects a call depends on that have not existed at any
instant since it arrived.

## 3. Runs

| Run | Shows |
|---|---|
| `extauthz_races` | one call against a user in two versions, a base model and an adapter in two versions, all coming and going: `AnswersJustified`, `StrangersAreRefused`, `StableAccessIsGranted`, `SelectionNeverDenies`, `ImplementsContract` (refinement of `AuthzContract`), `EveryCallAnswered` |
| `extauthz_requests` | 20 requests, one or more per branch of parser, authenticator and selection conditions: `AnswersJustified`, `AllowedIsAuthenticated` |
| `reconcile_failover` | two replicas with leader election, a user in two versions beside one with an empty id, 3 edits, 2 faults: `EntriesHaveFinalizer`, `StoreNeverRegresses`, `EventuallyConsistent`, `DeletionCompletes`, `LeaderBecomesReady` |
| `secure_inference` | one replica, a base model and two `User` objects that claim one id, 3 edits, 1 fault, calls for the model and for the list: `EntriesHaveFinalizer`, `RevokedIsRefused`, `ServersAreExtAuthz` |
| `reconcile_two_replicas` | finding: a deleted user stays in another replica's store |
| `standby_replica` | finding: a replica that is not the leader never becomes ready |
| `ready_too_early` | finding: ready with part of the initial list in the store |
| `renamed_id` | finding: an edited `spec.id` leaves the old entry behind |
| `sidecar_pick` | two threads, five requests over four texts: `NeverKeyError`, `CacheIsFaithful`, `PicksTheBest`, `EveryPickAnswered` |
| `startup` | files that vary what they say of one component, or of the authenticator and the selector together, followed to the exit of the process with up to 2 calls in flight: `RefusesOnlyUnusable`, `DefaultKeyPathSurvives`, `CleanExitCutsNothing`, `ShutdownCompletes`, `ServesOnEveryReplica` |
| `admin_tool` | 2 commands and 2 publications at a time, 3 keys, 2 tokens that live 1 of 2 ticks: `FreshTokensWork`, `TLSChainVerifies`, `RetiredKeysStayRetired`, `NoTokenOutlivesItsLifetime` |
| `startup_validated` | finding: a configuration without the key path its authenticator requires passes `Validate` (`ValidatedIsComplete`) |

Bounds. One handler is enough for the runs of the server: handlers write nothing
they share, and the theorems hold for any number. Specs exist in two versions
where a change under the call matters. Three edits allow create, delete and recreate
of one name, the sequence in which a stale copy of a former object meets a new one,
and create, update and delete; faults count crashes and failed updates together. In
`secure_inference` three edits create both claimants of an id and delete one, or
create a user and a model and delete either. Three keys allow two rotations, or one
and a `tls-cert` beside it; commands are interchangeable and so are publications, hence the
symmetry. Two publications let the second finish while the first still holds what it read.
`CHECK_DEADLOCK FALSE` where the system may stop: when the administrator has used up
the edits and everything is synced, when the process has exited, when keys, tokens
and time are used up. The sidecar's requests include ties, shared descriptions,
candidates without descriptions, a cosine of -1 and a null embedding; two threads
suffice for each pair of accesses to interleave, and the theorems hold for any
number.

Fairness. Server: a handler that can take a step takes one (`WF` per handler);
goroutines are scheduled and the sidecar's HTTP call has a client timeout of
5 s. Controllers: weak fairness for the start of processes (Kubernetes restarts
them), the lease, the start of controllers, the delivery of events and the
worker's steps; strong fairness for taking a given name from the queue, because
the queue is first in, first out and an object that keeps failing goes to its
end. Nothing is assumed of administrators, resyncs or faults. Sidecar: each
thread with a request takes steps, and the model's call returns or raises. Process:
weak fairness for the runnable, the stopping goroutine, the manager and the end of
calls; none for signals, the lease, new calls or the steps of `main`. `AdminTool` and
`SecureInference` state safety only.

Findings. The five violations are disagreements between the code and what its
comments and documents say, quoted in `PROJECT.json`. The passing runs of the
controllers assume what those runs drop: one active replica and ids that are never
edited, and `reconcile_failover` also that ids are unique. With two objects of one id
(`secure_inference`) deleting either removes the entry of both until the next resync,
so that only the safety properties are asked.

## 4. Proofs

`ExtAuthzProofs` proves, for any sets of handlers, ids, specs, requests and any
configuration:

* `TypeCorrect`: `Spec => []TypeOK`;
* `AnswersAreJustified`, `StrangersStayOut`, `StableAccessGranted`: the
  invariants of `extauthz_races`;
* `SelectionOnlyAllows`: the action property;
* `ServerRefinesContract`: the safety part of the contract, by step simulation.

Assumptions: specs carry one of the declared ids, the empty string is not an id,
and `None` is neither a spec nor an id.

`AnswersJustified` is not inductive: it only speaks of answered calls. `IInv`
adds what a handler has established at each program counter, said of its window
and not of the store, which may have changed since (`Established`); that the
window of a pending call has seen what the store holds now (`SeesStore`); that
pairs consist of what was seen (`PairsSeen`); and that the store is keyed by
spec id (`StoreKeyed`). A store write only enlarges windows (`ObserveGrows`), so
what was established stays so. `StoreKeyed` is needed for adapters:
`GetAllowedModels` goes from specs to ids and back, and returns only permitted
specs because no two entries have the same id (`SentAdaptersAllowed`). TLC checked
`IInv` on the instance of `extauthz_races` before it was proved.

`SidecarProofs` proves, for any set of threads, any requests, any lengths and any
cosines from -1 to 1:

* `SidecarTypeCorrect`, `EmbedNeverRaisesKeyError`, `CacheStaysFaithful`: the
  cache is safe to share. The invariant (`SInv`) adds that each text of a thread
  within `_embed` is cached or still on the thread's own list of uncached texts
  (`Accounted`), which other threads cannot falsify as they only add entries, and
  that new embeddings and uncached texts correspond (`Aligned`);
* `PickReturnsTheBest`: the answer is the reference maximum. `BInv` adds the
  loop's invariant (`BestAmong` of the candidates before the present one). That a
  non-empty set of scores has a greatest element (`GreatestScore`) comes from the
  well-foundedness of the natural numbers, and is what makes `max_sim` a number.

`AdminToolProofs` proves, for any number of commands, publications, keys and tokens and any time:

* `AdminTypeCorrect`. `TInv` adds what a command has established at each step
  (`Progress`), of which the one that matters is that a `tls-cert` past its reads has
  the key of the very CA it read;
* `ChainsVerify`, from that;
* `CompleteInitRepairs`. `CleanInv` adds that an init that has opened a file has ended
  `clean`, that one which is still alone is the only one, and that it finds its own
  key in place when it writes the certificate;
* `RotationRevokes`. `RotationInv` orders what is on its way: the key a server has
  loaded is no newer than the mounted certificate, that one no newer than what the one
  publication under way has read, that no newer than the file, and the file no newer
  than the key of the one init that runs. Where two inits or two publications overlap
  nothing is claimed;
* `TokensExpire`, as every token is one that `GenerateJWT` made.

Assumptions: the bounds are numbers, a lifetime is not zero, `None` is not a number.

`ReconcilerProofs` proves, for any replicas, names, specs, edits and faults:

* `TypeCorrect`: `Spec => []TypeOK`;
* `NeverRegresses`, with or without leader election. The versions a replica knows of
  an object are its cached copy, the events on their way and the copy its worker
  holds. `VInv` says that they are past versions of the object, that cache and events
  are sorted (`CopiesOK`), that the present version number belongs to the present
  object only (`ApiOK`), and that no copy with a finalizer is older than what the
  store has seen, nor older than the copy a worker holds (`JobOK`). The restriction
  to copies with a finalizer is the point: `Reconcile` syncs the object its own
  `Update` has returned, which the cache has not seen, so older copies do remain, but
  they lack the finalizer, and `Reconcile` can only try to add it and is refused;
* `EntriesBacked`, under two hypotheses: `StableIds`, no update changes an object's
  id, and `OneActive`, leader election is on or there is one replica. Neither can be
  dropped: the runs `renamed_id` and `reconcile_two_replicas` show entries that stay
  without an object. `HInv` adds that controllers run on live processes and on the
  leader only, and that entries were put in from objects of their kind under their
  id. `EInv` adds that a copy which a `Get` could still lead to the store has its
  finalizer at the API server (`CopyBacked`), so has the copy about to be synced
  (`SyncBacked`), that an object which is about to lose its finalizer has no entry of
  its own left (`RemoveEmptied`), and that each entry has an object (`EntryBacked`).
  Ids need not be unique.

`SecureInferenceProofs` carries these over, as every step of the system is one of the
controllers' or leaves them alone, and proves:

* `SystemTypeCorrect`: every store holds valid specs of its kind;
* `RevokedCallsRefused`, under the same two hypotheses, for any number of handlers on
  any replicas. `GoneOK` adds that a kind in a call's history still has no object,
  and that a call without its `User` is at most at `UserExists`, one without its
  `Model` at most at `GetModel`: what these lookups find is an entry, which has an
  object by `EInv`;
* `ServersImplementExtAuthz`, without them: each step that touches a live replica's
  store or calls is a step of `ExtAuthz`.

TLC checked the candidate invariants on the instances of the runs first.

`ProcessProofs` proves, for any set of configuration files and any number of calls:

* `ProcessTypeCorrect`, `CleanExit`. `PInv` adds that calls are in flight only while
  `Serve` runs, that none is left once `GracefulStop` has returned, and that `Serve`
  returns nil only after that (`CallsOK`);
* `KeyPathSurvives`, from `KeyPathKept` (what decoding over the defaults does to the
  key path) and `LoadedOK` (the configuration in use is the one decoded from the
  file);
* `ValidateRefusesOnlyUnusable`, from `ValidateIsNoStricter`, which compares
  `Validate` with the factories case by case.

`ExtAuthzProofs` also proves `AllowedAreAuthenticated`. A justified answer that allows
is for an identified caller of which the window has a spec (`AllowedAnswers`); every
spec of a user in the window is under the id of the token (`OwnSpecs`, inductive with
`IInv`); and identified means that `Authenticate` has checked method, key, issuer and
expiry (`IdentifiedCaller`).

Assumptions: kinds are `User` and `Model`, bounds are numbers, `None` is none of the
specs, objects or replicas, handlers run on replicas, files have the declared shape.

Only model-checked: liveness (`EveryCallAnswered`, `EventuallyConsistent`,
`DeletionCompletes`, `LeaderBecomesReady`, `EveryPickAnswered`, `ShutdownCompletes`,
`ServesOnEveryReplica`), which the prover does not reach. Every safety invariant and
action property of a passing run is the subject of a theorem.

## 5. Not modelled

The deployment customizer: a one-shot command that reads a YAML file, replaces fixed
values and writes it back, shares no state with the rest and has no other actor to
interleave with. Generated deep copies, logging, the wording of denials, TLS, metrics,
cryptography, the claims the server never reads (role, organization). One fact read off
the code and not modelled: prompts stay in the sidecar's cache for good, although the
comment above it speaks of descriptions; the models have finitely many texts.

## 6. Plan

Done: the server with its contract and proofs; the controllers; the sidecar with its
proofs; the process from its start to its exit; keys and tokens with their proofs; the
composition of controllers and server; the proofs of all of these.

Left: the safety facts that the liveness properties rest on, as invariants to check and
to prove, above all that no work is forgotten: an object whose entry in the store of a
running controller is out of date is queued, held by the worker or on its way as an
event.
