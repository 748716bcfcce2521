------------------------------ MODULE Settings ------------------------------
(***************************************************************************)
(* Requests of the settings interface against the configuration files,     *)
(* the caches in memory and the provider that is asked for its models.     *)
(*                                                                         *)
(* Requests interleave between their steps.  A store method is two steps:  *)
(* it reads the file, and later replaces it with what it made of what it   *)
(* read.  Writes may fail, and the process may be killed and started       *)
(* again.  No store holds a lock, so overlapping writes lose updates; the  *)
(* properties say what holds all the same, and what holds as long as       *)
(* requests come one after the other.                                      *)
(***************************************************************************)
EXTENDS SettingsRoutes

CONSTANTS
    MaxSlots,       \* requests in flight at once
    Mixes,          \* by name, the requests that are issued together
    Ids,            \* ids of providers and memory providers (disjoint)
    MaxRequests,    \* by name, how many requests of the mix are issued in all
    MaxMishaps      \* writes that fail and times the process is killed, in all

\* The requests that name a model provider, and those that name a memory provider.
ProviderRoutes == {"postProvider", "postProvidersActive", "postProviderSecret", "deleteProvider"}
MemoryRoutes ==
    {"postMemoryProvider", "postMemoryProvidersActive", "postMemoryProviderSecret", "deleteMemoryProvider"}
OtherRoutes ==
    {"discover", "settingsDiscover", "testConnection", "putAssignment", "testAssignment", "resetAssignments",
     "resolveMemory", "putMemoryAssignment", "resetMemoryAssignments", "planMemoryMigration", "router",
     "postModules", "applyTemplate", "saveCurrentConfig", "patchRuntime", "activate"}
ApplyModes == {"previewOnly", "saveAsDraft", "replaceAssignments", "mergeMissing"}

\* The ids that these requests name.
Naming(ops, routes) == {op.id : op \in {o \in ops : o.do \in routes}}

\* The requests of a mix are requests of these routes.  A model provider's key is stored under
\* its id and a memory provider's under "memory:" and its id; an id here is that reference, so
\* a provider and a memory provider share none.  (The schema would take a model provider whose
\* own id begins with "memory:", which could; such ids are left out.)
ASSUME MixesAssumption ==
    /\ None \notin Ids
    /\ \A m \in DOMAIN Mixes :
          /\ None \notin Mixes[m]
          /\ Naming(Mixes[m], ProviderRoutes) \cup Naming(Mixes[m], MemoryRoutes) \subseteq Ids
          /\ Naming(Mixes[m], ProviderRoutes) \cap Naming(Mixes[m], MemoryRoutes) = {}
          /\ \A op \in Mixes[m] : /\ op.do \in ProviderRoutes \cup MemoryRoutes \cup OtherRoutes
                                  /\ op.do = "applyTemplate" => op.mode \in ApplyModes

Slots == 1 .. MaxSlots

VARIABLES
    disk,           \* the files, by store
    mods,           \* the inodes behind modules.json and its temporary name
    registry,       \* which modules are enabled in memory
    discovered,     \* the discovery cache
    built,          \* the memory router's provider cache
    drafts,         \* the in-memory store of saved templates
    req,            \* the requests in flight
    mix, issued, mishaps,
    published,      \* history: every key that was ever in the secrets file
    gone,           \* history: ids a request deleted, alone, and none has named since
    calm            \* history: no overlap and no failed write since the last start

vars == <<disk, mods, registry, discovered, built, drafts, req, mix, issued, mishaps,
          published, gone, calm>>

Idle == [op |-> None]
NotStarted == [s \in {"providers", "memory", "secrets", "assignments", "memoryAssignments", "modules", "runtime"}
                 |-> None]

Busy(q) == q.op # None /\ q.todo # << >>
Instruction(q) == Head(q.todo)
At(s, do) == Busy(req[s]) /\ Instruction(req[s]).do = do

Advance(q) ==
    [q EXCEPT !.todo = Tail(@), !.snap = None,
              !.answer = IF @ = 0 /\ Len(q.todo) = 1 THEN q.code ELSE @]
End(q, code) ==
    [q EXCEPT !.todo = << >>, !.snap = None, !.answer = IF @ = 0 THEN code ELSE @]

SettingsInit ==
    /\ disk = [providers |-> EmptyProviders, memory |-> EmptyMemory, secrets |-> [i \in Ids |-> 0],
               assignments |-> {}, memoryAssignments |-> {}, runtime |-> DefaultRuntime]
    /\ mods = [node |-> << >>, file |-> 0, temp |-> 0]
    /\ registry = BuiltinModules
    /\ discovered = [i \in Ids |-> None]
    /\ built = {} /\ drafts = {}
    /\ req = [s \in Slots |-> Idle]
    /\ mix \in DOMAIN Mixes
    /\ issued = 0 /\ mishaps = 0
    /\ published = {} /\ gone = {} /\ calm = TRUE

(***************************************************************************)
(* A request arrives.  An answered one leaves its slot.                    *)
(***************************************************************************)
Issue(s, op) ==
    /\ issued < MaxRequests[mix]
    /\ ~Busy(req[s]) /\ \A t \in 1 .. s - 1 : Busy(req[t])
    /\ LET overlaps == \E t \in Slots \ {s} : Busy(req[t])
           new == [op |-> op, at |-> issued + 1, todo |-> Program(op), seen |-> NotStarted, snap |-> None, inode |-> 0,
                   cands |-> << >>, first |-> None, served |-> None, code |-> 200, answer |-> 0,
                   wrote |-> {}, alone |-> ~overlaps, failed |-> FALSE]
       IN  /\ req' = [t \in Slots |-> IF t = s THEN new
                                      ELSE IF Busy(req[t]) THEN [req[t] EXCEPT !.alone = FALSE] ELSE Idle]
           /\ calm' = (calm /\ ~overlaps)
    /\ issued' = issued + 1
    /\ gone' = gone \ {op.id}
    /\ UNCHANGED <<disk, mods, registry, discovered, built, drafts, mix, mishaps, published>>

(***************************************************************************)
(* Reading a store.                                                        *)
(***************************************************************************)
\* A file that does not parse reads as the empty state.
ModuleFile == IF mods.file = 0 THEN EmptyModules
              ELSE IF mods.node[mods.file] = None THEN EmptyModules ELSE mods.node[mods.file]
Content(store) == IF store = "modules" THEN ModuleFile ELSE disk[store]

ReadStore(s) ==
    /\ At(s, "read")
    /\ LET store == Instruction(req[s]).store
       IN  req' = [req EXCEPT ![s] = Advance([@ EXCEPT !.seen[store] = Content(store)])]
    /\ UNCHANGED <<disk, mods, registry, discovered, built, drafts, mix, issued, mishaps,
                   published, gone, calm>>

(***************************************************************************)
(* The conditions of the routes, on what the request has read.             *)
(***************************************************************************)
RecordsFor(q) == IF q.seen.memory # None THEN q.seen.memory.recs ELSE q.seen.providers.recs

knownMemoryRef(q, id) == id \in {None, "local", "disabled"} \/ Rec(q.seen.memory.recs, id) # None

draftBlockers(q) ==
    Blockers(resolveEffectiveAssignment(q.op.assignment.role,
        {normalizeUpsert(q.op.assignment, findAssignment(q.seen.assignments, q.op.assignment.role, q.op.scope))},
        q.seen.providers.recs, q.op.scope))

\* The planner stands for the roles that must be assigned to a provider with a key, and
\* the semantic memory for those that must not be disabled.
evaluateReadiness(q) ==
    LET e == resolveEffectiveAssignment("planner", q.seen.assignments, q.seen.providers.recs, q.op.scope)
        m == selectMemoryAssignmentForRole(q.seen.memoryAssignments, "semanticMemory", q.op.scope)
    IN  /\ \E r \in q.seen.providers.recs : hasSecret(q.seen.secrets, r.id)
        /\ e.provider \notin BuiltIn /\ e.source # "builtin-template"
        /\ hasSecret(q.seen.secrets, e.provider)
        /\ Blockers(e) = {}
        /\ m = None \/ (m.enabled /\ m.provider # "disabled")

Holds(test, q) ==
    CASE test = "maySetSecret" -> q.op.allowed
      [] test = "known" -> Rec(RecordsFor(q), IF q.first = None THEN q.op.id ELSE q.first) # None
      [] test = "external" -> q.op.external
      [] test = "noBlockers" -> draftBlockers(q) = {}
      [] test = "primaryKnown" -> knownMemoryRef(q, q.op.assignment.provider)
      [] test = "fallbackKnown" -> knownMemoryRef(q, q.op.assignment.fallback)
      [] test = "moduleKnown" -> q.op.id \in Modules
      [] test = "mayDisable" -> q.op.on = "on" \/ mayDisable(q.op.id)
      [] test \in {"templateValid", "noSecretFound"} -> q.op.template.valid
      [] test = "confirmed" -> q.op.confirm
      [] test = "patchGiven" -> q.op.patch # None
      [] test = "ready" -> evaluateReadiness(q)

CheckRequest(s) ==
    /\ At(s, "need")
    /\ LET i == Instruction(req[s])
       IN  req' = [req EXCEPT ![s] = IF Holds(i.test, @) THEN Advance(@) ELSE End(@, i.code)]
    /\ UNCHANGED <<disk, mods, registry, discovered, built, drafts, mix, issued, mishaps,
                   published, gone, calm>>

(***************************************************************************)
(* Writing a store: BeginWrite reads, PublishWrite replaces.               *)
(***************************************************************************)
roleMissing(assignments, a) == \A b \in assignments : b.role # a.role \/ b.scope # a.scope
memoryRoleMissing(q, a) == \A b \in q.seen.memoryAssignments :
                              b.role # a.role \/ (q.op.scope # "default" /\ b.scope # q.op.scope)

Wanted(i, q) ==
    CASE i.when = "always" -> TRUE
      [] i.when = "roleMissing" -> roleMissing(q.seen.assignments, i.arg)
      [] i.when = "memoryRoleMissing" -> memoryRoleMissing(q, i.arg)
      [] i.when = "toggleMissing" -> q.seen.modules[i.arg.id] = "unset"

NothingToDelete(i, content, q) == i.what = "deleteSecret" /\ ~hasSecret(content, q.op.id)

Change(i, content, q) ==
    CASE i.what = "upsertProvider" -> upsertProvider(content, q)
      [] i.what = "removeProvider" -> removeProvider(content, q)
      [] i.what = "setActiveRoute" -> setActiveRoute(content, q)
      [] i.what = "upsertMemoryProvider" -> upsertMemoryProvider(content, q)
      [] i.what = "removeMemoryProvider" -> removeMemoryProvider(content, q)
      [] i.what = "setActiveMemoryProvider" -> setActiveMemoryProvider(content, q)
      [] i.what = "setSecret" -> setSecret(content, q)
      [] i.what = "deleteSecret" -> deleteSecret(content, q)
      [] i.what = "upsertAssignment" -> upsertAssignment(content, i.arg)
      [] i.what = "resetAssignments" -> resetAssignments(content, i.arg)
      [] i.what = "upsertMemoryAssignment" ->
            upsertMemoryAssignment(content,
                createMemoryRoleAssignment(i.arg,
                    IF q.op.do = "putMemoryAssignment" THEN exactAssignmentFor(q.seen.memoryAssignments, i.arg)
                    ELSE None, q.at))
      [] i.what = "resetMemoryAssignments" -> resetMemoryAssignments(content, i.arg)
      [] i.what = "setModuleEnabled" -> setModuleEnabled(content, i.arg.id, i.arg.on)
      [] i.what = "putRuntime" -> patchRuntime(q.seen.runtime, i.arg)

Deletes(q) == q.op.do \in {"deleteProvider", "deleteMemoryProvider"}
DeletedAlone(q) == Deletes(q) /\ q.alone /\ Advance(q).answer = 200

BeginWrite(s) ==
    /\ At(s, "write") /\ req[s].snap = None
    /\ LET q == req[s]
           i == Instruction(q)
           content == Content(i.store)
       IN  IF Wanted(i, q) /\ ~NothingToDelete(i, content, q)
           THEN /\ req' = [req EXCEPT ![s].snap = content]
                /\ UNCHANGED gone
           ELSE /\ req' = [req EXCEPT ![s] = Advance(@)]
                /\ gone' = IF DeletedAlone(q) THEN gone \cup {q.op.id} ELSE gone
    /\ UNCHANGED <<disk, mods, registry, discovered, built, drafts, mix, issued, mishaps,
                   published, calm>>

PublishWrite(s) ==
    /\ At(s, "write") /\ req[s].snap # None
    /\ Instruction(req[s]).store # "modules"
    /\ LET q == req[s]
           i == Instruction(q)
       IN  /\ disk' = [disk EXCEPT ![i.store] = Change(i, q.snap, q)]
           /\ req' = [req EXCEPT ![s] = Advance([q EXCEPT !.wrote = q.wrote \cup {i.store}])]
           /\ published' = IF i.what = "setSecret" THEN published \cup {q.at} ELSE published
           /\ gone' = IF DeletedAlone(q) THEN gone \cup {q.op.id} ELSE gone
    /\ UNCHANGED <<mods, registry, discovered, built, drafts, mix, issued, mishaps, calm>>

\* The temporary file cannot be written or renamed: the store keeps its content.
FailWrite(s) ==
    /\ At(s, "write") /\ req[s].snap # None /\ req[s].inode = 0
    /\ mishaps < MaxMishaps
    /\ req' = [req EXCEPT ![s] = End([@ EXCEPT !.failed = TRUE], IF @.op.do = "applyTemplate" THEN 400 ELSE 500)]
    /\ mishaps' = mishaps + 1
    /\ calm' = FALSE
    /\ UNCHANGED <<disk, mods, registry, discovered, built, drafts, mix, issued, published, gone>>

(***************************************************************************)
(* modules.json is written through one fixed temporary name: a second      *)
(* writer truncates the file the first one is about to rename.             *)
(***************************************************************************)
OpenTemp(s) ==
    /\ At(s, "write") /\ req[s].snap # None /\ req[s].inode = 0
    /\ Instruction(req[s]).store = "modules"
    /\ LET fresh == mods.temp = 0
           n == IF fresh THEN Len(mods.node) + 1 ELSE mods.temp
       IN  /\ mods' = [mods EXCEPT !.temp = n,
                          !.node = IF fresh THEN Append(@, None) ELSE [@ EXCEPT ![n] = None]]
           /\ req' = [req EXCEPT ![s].inode = n]
    /\ UNCHANGED <<disk, registry, discovered, built, drafts, mix, issued, mishaps, published, gone, calm>>

FillTemp(s) ==
    /\ At(s, "write") /\ req[s].inode > 0 /\ "filled" \notin req[s].wrote
    /\ mods' = [mods EXCEPT !.node[req[s].inode] = Change(Instruction(req[s]), req[s].snap, req[s])]
    /\ req' = [req EXCEPT ![s].wrote = @ \cup {"filled"}]
    /\ UNCHANGED <<disk, registry, discovered, built, drafts, mix, issued, mishaps, published, gone, calm>>

RenameTemp(s) ==
    /\ At(s, "write") /\ req[s].inode > 0 /\ "filled" \in req[s].wrote
    /\ LET q == [req[s] EXCEPT !.wrote = (@ \ {"filled"}) \cup {"modules"}, !.inode = 0]
       IN  IF mods.temp = 0
           THEN /\ req' = [req EXCEPT ![s] = End([q EXCEPT !.failed = TRUE], 500)]
                /\ UNCHANGED mods
           ELSE /\ mods' = [mods EXCEPT !.file = mods.temp, !.temp = 0]
                /\ req' = [req EXCEPT ![s] = Advance(q)]
    /\ UNCHANGED <<disk, registry, discovered, built, drafts, mix, issued, mishaps, published, gone, calm>>

(***************************************************************************)
(* Discovery: a cached answer, or a call that the provider answers, fails  *)
(* or leaves to the 30 s timer.  What comes back is kept for the next.     *)
(***************************************************************************)
Lookup(s) ==
    /\ At(s, "lookup")
    /\ LET hit == discovered[req[s].op.id]
       IN  req' = [req EXCEPT ![s] = IF hit = None THEN Advance(@)
                                     ELSE End([@ EXCEPT !.served = hit], IF hit.ok THEN 200 ELSE 502)]
    /\ UNCHANGED <<disk, mods, registry, discovered, built, drafts, mix, issued, mishaps,
                   published, gone, calm>>

CallProvider(s, ok) ==
    /\ At(s, "call")
    /\ LET q  == req[s]
           id == IF q.first = None THEN q.op.id ELSE q.first
       IN  req' = [req EXCEPT ![s] =
                     Advance([@ EXCEPT !.served = [ok |-> ok, at |-> Rec(q.seen.providers.recs, id).at,
                                                   key |-> q.seen.secrets[id]],
                                       !.code = IF ok THEN 200 ELSE 502])]
    /\ UNCHANGED <<disk, mods, registry, discovered, built, drafts, mix, issued, mishaps,
                   published, gone, calm>>

Remember(s) ==
    /\ At(s, "remember")
    /\ discovered' = [discovered EXCEPT ![req[s].op.id] = req[s].served]
    /\ req' = [req EXCEPT ![s] = Advance(@)]
    /\ UNCHANGED <<disk, mods, registry, built, drafts, mix, issued, mishaps, published, gone, calm>>

\* The route's own 30 s timer answers; the discovery it waited for goes on.
SettingsDeadline(s) ==
    /\ Busy(req[s]) /\ req[s].op.do = "settingsDiscover" /\ req[s].op.external
    /\ req[s].answer = 0 /\ Instruction(req[s]).do # "need"
    /\ req' = [req EXCEPT ![s].answer = 504]
    /\ UNCHANGED <<disk, mods, registry, discovered, built, drafts, mix, issued, mishaps,
                   published, gone, calm>>

\* The time to live of a cached result passes.
ExpireEntry(id) ==
    /\ discovered[id] # None
    /\ discovered' = [discovered EXCEPT ![id] = None]
    /\ UNCHANGED <<disk, mods, registry, built, drafts, req, mix, issued, mishaps, published, gone, calm>>

(***************************************************************************)
(* A memory role: the candidates in order, each from the cache or built    *)
(* from its record and key; one that cannot be built gives way to the next.*)
(***************************************************************************)
NoMemory == [id |-> "disabled", at |-> 0, key |-> 0]
LocalProvider == [id |-> "local", at |-> 0, key |-> 0]

buildMemoryProviderFromRecord(rec, key) ==
    [ok |-> ~(rec.kind = "mem0" /\ key = 0),
     provider |-> [id |-> rec.id, at |-> rec.at, key |-> IF rec.kind \in LocalKinds THEN 0 ELSE key]]

cachedProvider(cache, rec) ==
    IF \E p \in cache : p.id = rec.id /\ p.at = rec.at
    THEN CHOOSE p \in cache : p.id = rec.id /\ p.at = rec.at ELSE None

Candidates(s) ==
    /\ At(s, "candidates")
    /\ LET q == req[s]
       IN  req' = [req EXCEPT ![s] =
                     Advance([@ EXCEPT !.cands =
                        MemoryCandidates(selectMemoryAssignmentForRole(q.seen.memoryAssignments, "semanticMemory",
                                                                      q.op.scope), q.seen.memory.active)])]
    /\ UNCHANGED <<disk, mods, registry, discovered, built, drafts, mix, issued, mishaps,
                   published, gone, calm>>

nextCandidate(q) == [q EXCEPT !.cands = Tail(@)]

PickMemory(s) ==
    /\ At(s, "pick")
    /\ LET q     == req[s]
           local == q.cands # << >> /\ Head(q.cands) = "local"
           rec   == IF q.cands = << >> \/ local THEN None ELSE Rec(q.seen.memory.recs, Head(q.cands))
       IN  req' = [req EXCEPT ![s] =
                     CASE q.cands = << >> -> End([@ EXCEPT !.served = NoMemory], 200)
                       [] local -> End([@ EXCEPT !.served = LocalProvider], 200)
                       [] ~local /\ q.cands # << >> /\ rec = None -> nextCandidate(@)
                       [] ~local /\ rec # None ->
                             IF cachedProvider(built, rec) # None
                             THEN End([@ EXCEPT !.served = cachedProvider(built, rec)], 200)
                             ELSE Advance(@)]
    /\ UNCHANGED <<disk, mods, registry, discovered, built, drafts, mix, issued, mishaps,
                   published, gone, calm>>

BuildMemory(s) ==
    /\ At(s, "build")
    /\ LET q   == req[s]
           rec == Rec(q.seen.memory.recs, Head(q.cands))
           b   == buildMemoryProviderFromRecord(rec, q.seen.secrets[rec.id])
       IN  IF b.ok
           THEN /\ built' = {p \in built : ~(p.id = rec.id /\ p.at = rec.at)} \cup {b.provider}
                /\ req' = [req EXCEPT ![s] = Advance([@ EXCEPT !.served = b.provider])]
           ELSE /\ req' = [req EXCEPT ![s] = [nextCandidate(q) EXCEPT !.todo = <<Do("pick"), Read("secrets")>> \o @]]
                /\ UNCHANGED built
    /\ UNCHANGED <<disk, mods, registry, discovered, drafts, mix, issued, mishaps, published, gone, calm>>

ClearCaches(s) ==
    /\ At(s, "clearCaches")
    /\ built' = {}
    /\ req' = [req EXCEPT ![s] = Advance(@)]
    /\ gone' = IF DeletedAlone(req[s]) THEN gone \cup {req[s].op.id} ELSE gone
    /\ UNCHANGED <<disk, mods, registry, discovered, drafts, mix, issued, mishaps, published, calm>>

(***************************************************************************)
(* The model router: the slots of the selected assignment are chosen from  *)
(* one read and built from a later one.                                    *)
(***************************************************************************)
Choose(s) ==
    /\ At(s, "choose")
    /\ LET q == req[s]
           e == resolveEffectiveAssignment(q.op.role,
                    {a \in {findAssignment(q.seen.assignments, q.op.role, q.op.scope)} : a # None},
                    q.seen.providers.recs, q.op.scope)
       IN  req' = [req EXCEPT ![s] = IF e.provider \in BuiltIn THEN End(@, 200)
                                     ELSE Advance([@ EXCEPT !.first = e.provider])]
    /\ UNCHANGED <<disk, mods, registry, discovered, built, drafts, mix, issued, mishaps,
                   published, gone, calm>>

RememberSlots(s) ==
    /\ At(s, "slots")
    /\ req' = [req EXCEPT ![s] = Advance([@ EXCEPT !.first = req[s].seen.providers.recs])]
    /\ UNCHANGED <<disk, mods, registry, discovered, built, drafts, mix, issued, mishaps,
                   published, gone, calm>>

resolveAssignmentProvider(recs, secrets, id) ==
    IF id \in BuiltIn \cup {None} \/ Rec(recs, id) = None THEN None
    ELSE [id |-> id, at |-> Rec(recs, id).at, key |-> secrets[id]]

routerSelection(assignments, first, recs, secrets, role, scope) ==
    LET a == selectAssignmentForResolution(assignments, role, scope)
        slot(id) == resolveAssignmentProvider(recs, secrets, id)
    IN  buildAssignmentAwareModelRouter(assignments, first, scope,
            IF a = None THEN [primary |-> None, fallback |-> None]
            ELSE [primary |-> slot(a.provider), fallback |-> slot(a.fallback)], role)

Route(s) ==
    /\ At(s, "route")
    /\ LET q == req[s]
       IN  req' = [req EXCEPT ![s] =
                     Advance([@ EXCEPT !.served =
                        routerSelection(q.seen.assignments, q.first, q.seen.providers.recs, q.seen.secrets,
                                        q.op.role, q.op.scope)])]
    /\ UNCHANGED <<disk, mods, registry, discovered, built, drafts, mix, issued, mishaps,
                   published, gone, calm>>

(***************************************************************************)
(* Modules and drafts live in memory; a restart reads the files again.     *)
(***************************************************************************)
SetRegistry(s) ==
    /\ At(s, "registry")
    /\ registry' = [registry EXCEPT ![req[s].op.id] = req[s].op.on]
    /\ req' = [req EXCEPT ![s] = Advance([req[s] EXCEPT !.wrote = @ \cup {"registry"}])]
    /\ UNCHANGED <<disk, mods, discovered, built, drafts, mix, issued, mishaps, published, gone, calm>>

SaveDraft(s) ==
    /\ At(s, "saveDraft")
    /\ drafts' = drafts \cup {req[s].at}
    /\ req' = [req EXCEPT ![s] = Advance([req[s] EXCEPT !.wrote = @ \cup {"drafts"}])]
    /\ UNCHANGED <<disk, mods, registry, discovered, built, mix, issued, mishaps, published, gone, calm>>

Restart ==
    /\ mishaps < MaxMishaps
    /\ mishaps' = mishaps + 1
    /\ req' = [s \in Slots |-> Idle]
    /\ discovered' = [i \in Ids |-> None]
    /\ built' = {} /\ drafts' = {}
    /\ registry' = applyModuleConfigToRegistry(ModuleFile)
    /\ calm' = TRUE
    /\ UNCHANGED <<disk, mods, mix, issued, published, gone>>

Step(s) ==
    \/ ReadStore(s) \/ CheckRequest(s) \/ BeginWrite(s) \/ PublishWrite(s)
    \/ OpenTemp(s) \/ FillTemp(s) \/ RenameTemp(s)
    \/ Lookup(s) \/ (\E ok \in BOOLEAN : CallProvider(s, ok)) \/ Remember(s)
    \/ Candidates(s) \/ PickMemory(s) \/ BuildMemory(s) \/ ClearCaches(s)
    \/ Choose(s) \/ RememberSlots(s) \/ Route(s) \/ SetRegistry(s) \/ SaveDraft(s)

SettingsNext ==
    \/ \E s \in Slots : Step(s) \/ FailWrite(s) \/ SettingsDeadline(s) \/ (\E op \in Mixes[mix] : Issue(s, op))
    \/ \E i \in Ids : ExpireEntry(i)
    \/ Restart

SettingsSpec == SettingsInit /\ [][SettingsNext]_vars

(***************************************************************************)
(* Properties.                                                             *)
(***************************************************************************)
\* "Persist a newly supplied secret BEFORE the config upsert" (Requirement 11.7): a record
\* that came with a key is never in a file unless that key has been, whatever write failed
\* and wherever the process was killed.
KeyBeforeRecord ==
    \A r \in disk.providers.recs \cup disk.memory.recs : r.keyed => r.at \in published

\* "Remove the record AND its stored secret" (Requirement 10.6): after a delete that ran
\* alone was answered, no record, route, key or built provider of that id is left, whatever
\* the requests and restarts after it do to other ids.
DeletedIsGone ==
    \A id \in gone :
        /\ Rec(disk.providers.recs \cup disk.memory.recs, id) = None
        /\ disk.memory.active # id /\ \A m \in ModelRoles : disk.providers.active[m] # id
        /\ ~hasSecret(disk.secrets, id)
        /\ \A p \in built : p.id # id

\* A request that a check refused has changed no store and nothing in memory.
RefusedLeavesNoTrace ==
    \A s \in Slots :
        (req[s].op # None /\ req[s].answer \in {400, 403, 404, 409, 503} /\ ~req[s].failed) => req[s].wrote = {}

\* What the stores hold says which provider serves a memory role.
ExpectedMemory(scope) ==
    LET a == selectMemoryAssignmentForRole(disk.memoryAssignments, "semanticMemory", scope)
        refs == MemoryCandidates(a, disk.memory.active)
        Fit(id) == id = "local" \/ (Rec(disk.memory.recs, id) # None
                     /\ buildMemoryProviderFromRecord(Rec(disk.memory.recs, id), disk.secrets[id]).ok)
        n == CHOOSE n \in 1 .. Len(refs) : Fit(refs[n]) /\ \A m \in 1 .. n - 1 : ~Fit(refs[m])
    IN  CASE refs = << >> -> NoMemory
          [] refs # << >> /\ refs[n] = "local" -> LocalProvider
          [] refs # << >> /\ refs[n] # "local" ->
                buildMemoryProviderFromRecord(Rec(disk.memory.recs, refs[n]), disk.secrets[refs[n]]).provider

\* As long as requests come one after the other and no write fails, a memory role is served
\* by the provider the files name, with the record and the key they hold (the caches never
\* show), the router selects the record it names with its current key, and a discovery that
\* is asked to refresh shows the record as it is.
ServedFromCurrent ==
    \A s \in Slots :
        (calm /\ req[s].op # None /\ ~Busy(req[s]) /\ req[s].answer = 200 /\ req[s].served # None) =>
            /\ req[s].op.do \in {"resolveMemory", "putMemoryAssignment", "planMemoryMigration"} =>
                    req[s].served = ExpectedMemory(req[s].op.scope)
            /\ req[s].op.do \in {"router", "activate"} =>
                    req[s].served = routerSelection(disk.assignments, disk.providers.recs, disk.providers.recs,
                                                    disk.secrets, req[s].op.role, req[s].op.scope)
            /\ req[s].op.do = "discover" /\ req[s].op.refresh =>
                    req[s].served.at = Rec(disk.providers.recs, req[s].op.id).at
=============================================================================
