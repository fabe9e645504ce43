----------------------------- MODULE MemoryStore -----------------------------
(***************************************************************************)
(* The in-memory store: two maps, users and models, keyed by spec id.      *)
(* Every method holds the store's RWMutex from its first to its last       *)
(* access of the maps, and copies specs in and out, so each method is one  *)
(* atomic read or write and specs are plain values.  The operators below   *)
(* are the methods as functions of the map; a map is a total function on   *)
(* ids with None for "no entry".                                           *)
(***************************************************************************)
EXTENDS Nil

ModelTypeBase == "BaseModel"
ModelTypeLora == "LoRA"

\* New: both maps are empty.
EmptyMap(Ids) == [i \in Ids |-> None]

UserExists(users, id) == id \in DOMAIN users /\ users[id] # None

\* GetUser and GetModel return None for the "not found" error.
GetUser(users, id) == IF UserExists(users, id) THEN users[id] ELSE None

GetModel(models, id) ==
  IF id \in DOMAIN models /\ models[id] # None THEN models[id] ELSE None

ListModelsByType(models, type) ==
  {m \in {models[i] : i \in DOMAIN models} : m # None /\ m.type = type}

\* The check SyncUser and SyncModel make before they take the lock; a spec
\* that fails it is returned as an error and the map stays as it was.
ValidId(spec) == spec.id # ""

SyncUser(users, user) ==
  IF ValidId(user) THEN [users EXCEPT ![user.id] = user] ELSE users

\* Mutant: the entry is overwritten with a zero UserSpec, not deleted.
DeleteUser_zeroed(users, id) ==
  IF id \in DOMAIN users
    THEN [users EXCEPT ![id] = [id |-> "", attributes |-> << >>]] ELSE users

DeleteUser(users, id) ==
  IF id \in DOMAIN users THEN [users EXCEPT ![id] = None] ELSE users

SyncModel(models, model) ==
  IF ValidId(model) THEN [models EXCEPT ![model.id] = model] ELSE models

DeleteModel(models, id) ==
  IF id \in DOMAIN models THEN [models EXCEPT ![id] = None] ELSE models

=============================================================================
