----------------------------- MODULE MCSettings -----------------------------
(***************************************************************************)
(* Two model providers, two memory providers and the requests about them   *)
(* in the combinations that touch each other's stores.                     *)
(***************************************************************************)
EXTENDS Settings

Op(do) == [do |-> do, id |-> None, scope |-> "default"]
On(do, id) == [do |-> do, id |-> id, scope |-> "default"]

Post(id, keyed, kind, model) ==
    [do |-> "postProvider", id |-> id, kind |-> kind, model |-> model, keyed |-> keyed, allowed |-> TRUE]
Strong(id, keyed) == Post(id, keyed, "azure-openai", {"strong"})
PostMemory(id, kind, keyed) ==
    [do |-> "postMemoryProvider", id |-> id, kind |-> kind, model |-> {}, keyed |-> keyed, allowed |-> TRUE]
Discover(do, refresh, external) ==
    [do |-> do, id |-> "p", refresh |-> refresh, external |-> external]

Assign(provider, fallback, scope) ==
    [role |-> "planner", scope |-> scope, provider |-> provider, fallback |-> fallback, enabled |-> None]
Put(a) == [do |-> "putAssignment", id |-> None, assignment |-> a, scope |-> a.scope]
MemoryAssign(provider, fallback, scope) ==
    [role |-> "semanticMemory", scope |-> scope, provider |-> provider, fallback |-> fallback, enabled |-> None]
PutMemory(a) == [do |-> "putMemoryAssignment", id |-> None, assignment |-> a, scope |-> a.scope]
ForRole(do, scope) == [do |-> do, id |-> None, role |-> "planner", scope |-> scope]

Toggle(id, on) == [do |-> "postModules", id |-> id, on |-> on]
Apply(mode, confirm, valid, scope) ==
    [do |-> "applyTemplate", id |-> None, mode |-> mode, confirm |-> confirm, scope |-> scope,
     template |-> [assignment |-> Assign("deterministic", None, scope), memory |-> MemoryAssign("local", None, scope),
                   toggle |-> "extra", valid |-> valid]]
Patch(p) == [do |-> "patchRuntime", id |-> None, patch |-> p]

MCMixes ==
    [providers |->
        {Strong("p", TRUE), Strong("p", FALSE), Strong("q", FALSE), [Strong("p", TRUE) EXCEPT !.allowed = FALSE],
         On("postProvidersActive", "p"), On("postProviderSecret", "p"), On("deleteProvider", "p")},
     discovery |->
        {Strong("p", TRUE), Discover("discover", FALSE, TRUE), Discover("discover", TRUE, TRUE),
         Discover("settingsDiscover", FALSE, TRUE), Discover("settingsDiscover", FALSE, FALSE),
         On("testConnection", "p")},
     memory |->
        {PostMemory("m", "mem0", TRUE), PostMemory("m", "local-sqlite-mem", FALSE),
         On("postMemoryProvidersActive", "m"), On("postMemoryProviderSecret", "m"), On("deleteMemoryProvider", "m"),
         Op("resolveMemory")},
     memoryKeys |->
        {PostMemory("m", "mem0", TRUE), PutMemory(MemoryAssign("m", None, "default")),
         On("postMemoryProviderSecret", "m"), Op("resolveMemory")},
     memoryRoles |->
        {PostMemory("m", "mem0", FALSE), PostMemory("n", "chroma", FALSE),
         PutMemory(MemoryAssign("m", "n", "default")), PutMemory(MemoryAssign("disabled", None, "workspace")),
         [Op("resetMemoryAssignments") EXCEPT !.scope = "workspace"], Op("resetMemoryAssignments"),
         [Op("resolveMemory") EXCEPT !.scope = "workspace"],
         [PutMemory(MemoryAssign("m", None, "default")) EXCEPT !.do = "planMemoryMigration"]},
     assignments |->
        {Strong("p", TRUE), Post("p", FALSE, "cloudflare", {}), Strong("q", FALSE),
         Put(Assign("p", "q", "default")), Put(Assign("disabled", None, "workspace")),
         ForRole("testAssignment", "default"), Op("resetAssignments"), ForRole("router", "default"),
         ForRole("router", "workspace"), On("deleteProvider", "p")},
     modules |->
        {Toggle("extra", "on"), Toggle("extra", "off"), Toggle("core", "off"), Toggle("unknown", "on"),
         Apply("replaceAssignments", TRUE, TRUE, "default")},
     templates |->
        {Apply("previewOnly", FALSE, TRUE, "default"), Apply("saveAsDraft", FALSE, TRUE, "default"),
         Apply("replaceAssignments", FALSE, TRUE, "default"), Apply("mergeMissing", FALSE, TRUE, "default"),
         Apply("mergeMissing", FALSE, FALSE, "default"), Apply("mergeMissing", FALSE, TRUE, "workspace"),
         [Apply("saveAsDraft", FALSE, TRUE, "default") EXCEPT !.do = "saveCurrentConfig"],
         Put(Assign("deterministic", None, "default"))},
     activation |->
        {Strong("p", TRUE), Put(Assign("p", None, "default")), ForRole("activate", "default"), Patch(None),
         Patch([field |-> "sandbox", value |-> "e2b"])}]

\* A cached memory provider, a new key for it and its next use take four requests; two overlapping ones
\* are what a template can be disturbed by.
MCRequests == [m \in DOMAIN MCMixes |-> CASE m = "memoryKeys" -> 4 [] m \in {"modules", "templates"} -> 2 [] OTHER -> 3]

MCIds == {"p", "q", "m", "n"}
=============================================================================
