---------------------------- MODULE ModelRoutes ----------------------------
(***************************************************************************)
(* Which model serves which orchestration role, and which store serves     *)
(* which memory role: the pure functions of orchestrationAssignments.ts,   *)
(* configBridge.ts, memoryAssignments.ts and memoryRoleRouter.ts.          *)
(*                                                                         *)
(* A provider record is its id, kind and model; a model is the set of the  *)
(* words its name is matched for ("embed", "strong", "large").  An         *)
(* assignment names a role, a scope (the user's default workspace or one   *)
(* workspace), a provider and a fallback.  The roles are the four that the *)
(* requirement table tells apart.                                          *)
(***************************************************************************)
EXTENDS Integers, FiniteSets

CONSTANT None   \* an absent value

Roles == {"planner", "directAnswer", "embedding", "ponder"}
Scopes == {"default", "workspace"}
BuiltIn == {"deterministic", "disabled"}

Rank(tier) == CASE tier = "high" -> 3 [] tier = "medium" -> 2 [] tier = "low" -> 1 [] OTHER -> 0

deterministicCapabilities ==
    [text |-> TRUE, json |-> TRUE, embeddings |-> TRUE,
     context |-> 1000, reasoning |-> "none", cost |-> "free"]
DisabledCapabilities ==
    [text |-> FALSE, json |-> FALSE, embeddings |-> FALSE,
     context |-> 0, reasoning |-> "none", cost |-> "free"]

(* The table of what each kind of provider can do with a model of that name. *)
capabilitiesForProviderRecord(kind, model) ==
    LET embeds == "embed" \in model
        strong == "strong" \in model
        solid  == strong \/ "large" \in model
    IN  [text |-> ~embeds, json |-> kind # "cloudflare", embeddings |-> embeds,
         context |-> IF kind = "cloudflare" THEN 32 ELSE 128,
         reasoning |-> CASE kind = "cloudflare" -> "low"
                         [] kind = "together" -> IF solid THEN "medium" ELSE "low"
                         [] kind = "azure-openai" -> IF strong THEN "high" ELSE "medium"
                         [] OTHER -> IF strong THEN "high" ELSE IF solid THEN "medium" ELSE "low",
         cost |-> CASE kind \in {"cloudflare", "together"} -> "low"
                    [] kind = "azure-openai" -> IF strong THEN "high" ELSE "medium"
                    [] OTHER -> "medium"]

(* What each role needs, and what it only prefers. *)
ROLE_REQUIREMENTS ==
    [planner      |-> [need |-> {"text", "json"}, reasoning |-> "medium", context |-> 64, cost |-> "high"],
     directAnswer |-> [need |-> {"text"}, reasoning |-> "none", context |-> 0, cost |-> "medium"],
     embedding    |-> [need |-> {"embeddings"}, reasoning |-> "none", context |-> 0, cost |-> "high"],
     ponder       |-> [need |-> {"text"}, reasoning |-> "none", context |-> 0, cost |-> "low"]]

ROLE_MODEL_ROUTES ==
    [planner |-> "flagship", directAnswer |-> "cheap", embedding |-> "cheap", ponder |-> "cheap"]

(* A deterministic fallback turns a missing JSON mode from a blocker into a warning. *)
buildCapabilityWarnings(a, provider, caps) ==
    IF provider = "disabled" THEN {}
    ELSE LET req == ROLE_REQUIREMENTS[a.role]
             Warn(cond, code, severity) == IF cond THEN {[code |-> code, severity |-> severity]} ELSE {}
             advisory == Warn(caps.context < req.context, "context_window_low", "warning")
                         \cup Warn(Rank(caps.reasoning) < Rank(req.reasoning), "reasoning_low", "warning")
                         \cup Warn(Rank(caps.cost) > Rank(req.cost), "cost_tier_high", "warning")
         IN  Warn("text" \in req.need /\ ~caps.text, "provider_missing", "blocker")
             \cup Warn("json" \in req.need /\ ~caps.json, "json_mode_missing",
                       IF a.fallback = "deterministic" THEN "warning" ELSE "blocker")
             \cup Warn("embeddings" \in req.need /\ ~caps.embeddings, "embeddings_missing", "blocker")
             \cup (IF provider = "deterministic" THEN {} ELSE advisory)

findProviderRecord(records, id) ==
    IF \E p \in records : p.id = id THEN CHOOSE p \in records : p.id = id ELSE None

capabilitiesForSelection(records, id) ==
    IF id = "disabled" THEN DisabledCapabilities
    ELSE IF id # "deterministic" /\ \E p \in records : p.id = id
    THEN LET p == findProviderRecord(records, id) IN capabilitiesForProviderRecord(p.kind, p.model)
    ELSE deterministicCapabilities

(* The record of the scope itself, or of the user's default workspace. *)
selectAssignmentForResolution(assignments, role, scope) ==
    LET own(s) == {a \in assignments : a.role = role /\ a.scope = s}
    IN  IF own(scope) # {} THEN CHOOSE a \in own(scope) : TRUE
        ELSE IF own("default") # {} THEN CHOOSE a \in own("default") : TRUE
        ELSE None

builtinAssignment(role, scope) ==
    [role |-> role, scope |-> scope, provider |-> "deterministic",
     fallback |-> IF role = "ponder" THEN "disabled" ELSE "deterministic", enabled |-> role # "ponder"]

deterministicFallbackRoute(warnings) ==
    [status |-> "ready", provider |-> "deterministic",
     warnings |-> warnings \cup {[code |-> "deterministic_fallback", severity |-> "warning"]}]

resolvePrimaryRoute(a, records) ==
    IF ~a.enabled \/ a.provider = "disabled"
    THEN [status |-> "disabled", provider |-> "disabled",
          warnings |-> {[code |-> "provider_disabled", severity |-> "warning"]}]
    ELSE IF a.provider = "deterministic" \/ findProviderRecord(records, a.provider) # None
    THEN [status |-> "ready", provider |-> a.provider, warnings |-> {}]
    ELSE [status |-> "notReady", provider |-> a.provider,
          warnings |-> {[code |-> "provider_missing", severity |-> "warning"]}]

validateFallbackRoute(a, primary, records) ==
    LET used == [code |-> "fallback_used", severity |-> "warning"]
    IN  IF a.fallback = "deterministic" THEN deterministicFallbackRoute(primary.warnings \cup {used})
        ELSE IF findProviderRecord(records, a.fallback) = None THEN deterministicFallbackRoute(primary.warnings)
        ELSE [status |-> "ready", provider |-> a.fallback, warnings |-> primary.warnings \cup {used}]

resolveFallbackRoute(a, primary, records) ==
    IF a.fallback \notin {None, "disabled", a.provider}
    THEN validateFallbackRoute(a, primary, records)
    ELSE deterministicFallbackRoute(primary.warnings)

resolveAssignmentRecord(a, source, records) ==
    LET primary  == resolvePrimaryRoute(a, records)
        selected == IF primary.status = "notReady" THEN resolveFallbackRoute(a, primary, records) ELSE primary
        caps     == capabilitiesForSelection(records, selected.provider)
    IN  [role |-> a.role, provider |-> selected.provider, route |-> ROLE_MODEL_ROUTES[a.role],
         fallback |-> a.fallback, enabled |-> a.enabled /\ selected.provider # "disabled", source |-> source,
         warnings |-> selected.warnings \cup buildCapabilityWarnings(a, selected.provider, caps)]

resolveEffectiveAssignment(role, assignments, records, scope) ==
    LET a == selectAssignmentForResolution(assignments, role, scope)
    IN  IF a = None THEN resolveAssignmentRecord(builtinAssignment(role, scope), "builtin-template", records)
        ELSE resolveAssignmentRecord(a, IF a.scope = scope THEN "assignment" ELSE "workspace-default", records)

Blockers(effective) == {w \in effective.warnings : w.severity = "blocker"}

(* The router built from one read of the assignments and records; built maps a
   slot of the assignment to the record the provider was constructed from. *)
buildAssignmentAwareModelRouter(assignments, records, scope, built, role) ==
    LET a == selectAssignmentForResolution(assignments, role, scope)
    IN  IF a = None THEN [id |-> "base", from |-> "base", then |-> None]
        ELSE LET e == resolveAssignmentRecord(a, "assignment", records)
                 then == IF e.fallback \in {None, e.provider} THEN None
                         ELSE IF built.fallback # None THEN built.fallback
                         ELSE IF e.fallback = "deterministic" THEN "fake" ELSE None
             IN  IF ~e.enabled \/ e.provider \in BuiltIn THEN [id |-> e.provider, from |-> "fake", then |-> None]
                 ELSE IF built.primary # None THEN [id |-> e.provider, from |-> built.primary, then |-> then]
                 ELSE IF built.fallback # None THEN [id |-> e.fallback, from |-> built.fallback, then |-> None]
                 ELSE [id |-> "base", from |-> "base", then |-> None]

(***************************************************************************)
(* Memory roles.                                                           *)
(***************************************************************************)
MemoryRoles == {"semanticMemory", "vectorSearch"}
LocalKinds == {"local-inmemory", "local-sqlite-mem"}

(* The most specific enabled-or-not assignment of the role; the later of two alike. *)
selectMemoryAssignmentForRole(assignments, role, scope) ==
    LET fits == {a \in assignments : a.role = role /\ a.scope \in {"default", scope}}
        best == {a \in fits : \A b \in fits : a.scope = "default" => b.scope = "default"}
    IN  IF best = {} THEN None ELSE CHOOSE a \in best : \A b \in best : b.at <= a.at

(* The order in which resolveMemoryProvider tries what can serve the role; the
   local store stands at the end of every list but the disabled one. *)
MemoryCandidates(assignment, active) ==
    IF assignment = None THEN (IF active = None THEN <<"local">> ELSE <<active, "local">>)
    ELSE IF ~assignment.enabled \/ assignment.provider = "disabled" THEN <<>>
    ELSE IF assignment.fallback \in {None, assignment.provider} THEN <<assignment.provider, "local">>
    ELSE <<assignment.provider, assignment.fallback, "local">>
=============================================================================
