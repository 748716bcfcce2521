--------------------------- MODULE SettingsStores ---------------------------
(***************************************************************************)
(* The files of .rector/ and what each method of their stores makes of the *)
(* content it has read.  A store method reads the whole file, computes the *)
(* next content and replaces the file; module Settings takes those two     *)
(* halves apart.  Each operator here is the middle of one method:          *)
(* Change(old content, request) = new content.                             *)
(*                                                                         *)
(* A record is its id, kind, model, the time it was written at and whether *)
(* its request brought a key.  Times are request numbers; a key is the     *)
(* number of the request that brought it.                                  *)
(***************************************************************************)
EXTENDS ModelRoutes, Sequences

ModelRoles == {"flagship"}
Modules == {"core", "extra"}

EmptyProviders == [recs |-> {}, active |-> [m \in ModelRoles |-> None]]
EmptyMemory == [recs |-> {}, active |-> None]
EmptyModules == [m \in Modules |-> "unset"]
DefaultRuntime == [profile |-> "local", sandbox |-> "workspace"]

Rec(recs, id) == findProviderRecord(recs, id)
Replace(recs, rec) == {r \in recs : r.id # rec.id} \cup {rec}

(***************************************************************************)
(* ProviderConfigStore and MemoryConfigStore.                              *)
(***************************************************************************)
NewRecord(q) == [id |-> q.op.id, kind |-> q.op.kind, model |-> q.op.model, at |-> q.at, keyed |-> q.op.keyed]

upsertProvider(file, q) == [file EXCEPT !.recs = Replace(@, NewRecord(q))]

pruneActiveRoutes(routes, id) == [m \in ModelRoles |-> IF routes[m] = id THEN None ELSE routes[m]]

\* A way to get this wrong: the active routes of the provider stay.
removeProviderKeepingRoutes(file, q) == [file EXCEPT !.recs = {r \in @ : r.id # q.op.id}]

removeProvider(file, q) ==
    [recs |-> {r \in file.recs : r.id # q.op.id}, active |-> pruneActiveRoutes(file.active, q.op.id)]

setActiveRoute(file, q) == [file EXCEPT !.active["flagship"] = q.op.id]

upsertMemoryProvider(file, q) == [file EXCEPT !.recs = Replace(@, NewRecord(q))]

pruneActiveMemoryProvider(active, id) == IF active = id THEN None ELSE active

removeMemoryProvider(file, q) ==
    [recs |-> {r \in file.recs : r.id # q.op.id}, active |-> pruneActiveMemoryProvider(file.active, q.op.id)]

setActiveMemoryProvider(file, q) == [file EXCEPT !.active = q.op.id]

(***************************************************************************)
(* SecretStore.  Sealing and opening a value are each other's inverse.     *)
(***************************************************************************)
setSecret(file, q) == [file EXCEPT ![q.op.id] = q.at]
deleteSecret(file, q) == [file EXCEPT ![q.op.id] = 0]
hasSecret(file, id) == file[id] # 0

(***************************************************************************)
(* OrchestrationAssignmentStore and MemoryAssignmentStore.                 *)
(***************************************************************************)
findAssignment(assignments, role, scope) == selectAssignmentForResolution(assignments, role, scope)

\* An omitted "enabled" is inherited, also from the record of the default workspace.
normalizeUpsert(a, existing) ==
    [role |-> a.role, scope |-> a.scope, provider |-> a.provider, fallback |-> a.fallback,
     enabled |-> IF a.enabled # None THEN a.enabled
                 ELSE IF existing # None THEN existing.enabled ELSE TRUE]

upsertAssignment(file, a) ==
    {b \in file : ~(b.role = a.role /\ b.scope = a.scope)}
      \cup {normalizeUpsert(a, findAssignment(file, a.role, a.scope))}

resetAssignments(file, scope) == {b \in file : b.scope # scope}

\* What the body leaves out is inherited from the assignment of exactly this scope.
createMemoryRoleAssignment(a, existing, at) ==
    [role |-> a.role, scope |-> a.scope, provider |-> a.provider, at |-> at,
     enabled |-> IF a.enabled # None THEN a.enabled ELSE IF existing # None THEN existing.enabled ELSE TRUE,
     fallback |-> IF a.fallback # None THEN a.fallback ELSE IF existing # None THEN existing.fallback ELSE None]

exactAssignmentFor(assignments, a) ==
    LET own == {b \in assignments : b.role = a.role /\ b.scope = a.scope}
    IN  IF own = {} THEN None ELSE CHOOSE b \in own : TRUE

upsertMemoryAssignment(file, a) == {b \in file : ~(b.role = a.role /\ b.scope = a.scope)} \cup {a}

\* Without a workspace the filter is empty, and an empty filter matches every scope.
resetMemoryAssignments(file, scope) == IF scope = "default" THEN {} ELSE {b \in file : b.scope # scope}

(***************************************************************************)
(* ModuleConfigStore, the registry it is applied to, RuntimeSettingsStore. *)
(***************************************************************************)
setModuleEnabled(file, id, on) == [file EXCEPT ![id] = on]

BuiltinModules == [m \in Modules |-> "on"]
mayDisable(id) == id # "core"

applyModuleConfigToRegistry(file) ==
    [m \in Modules |->
        IF m = "core" THEN BuiltinModules[m]
        ELSE IF file[m] = "unset" THEN BuiltinModules[m] ELSE file[m]]

patchRuntime(settings, patch) == [settings EXCEPT ![patch.field] = patch.value]
=============================================================================
