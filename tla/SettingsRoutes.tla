--------------------------- MODULE SettingsRoutes ---------------------------
(***************************************************************************)
(* The settings routes of server.ts and api/routes/, each as the sequence  *)
(* of steps its handler takes.  Between two steps the handler awaits, so   *)
(* another request may take any number of its own; module Settings says    *)
(* what a step does.                                                       *)
(*   read   one store is read and kept;                                    *)
(*   need   a condition on what was read, else the answer `code`;          *)
(*   write  a store method (skipped when `when` does not hold);            *)
(*   others are steps of one route only.                                   *)
(* The parallel reads of a Promise.all are taken in the order written;     *)
(* reads that only fill in the body of the answer are left out.            *)
(***************************************************************************)
EXTENDS SettingsStores

Read(store) == [do |-> "read", store |-> store]
Need(test, code) == [do |-> "need", test |-> test, code |-> code]
WriteArg(store, what, arg) == [do |-> "write", store |-> store, what |-> what, arg |-> arg, when |-> "always"]
Write(store, what) == WriteArg(store, what, None)
Do(what) == [do |-> what]

(***************************************************************************)
(* Provider_Config_API and memory providers.  A key that comes with a      *)
(* record is written first, after a second permission check.               *)
(***************************************************************************)
KeyFirst(op) == IF op.keyed THEN <<Need("maySetSecret", 403), Write("secrets", "setSecret")>> ELSE << >>

\* A way to get this wrong: the record is saved before its key.
postProviderKeyLast(op) == <<Read("providers"), Write("providers", "upsertProvider")>> \o KeyFirst(op)
postProvider(op) == <<Read("providers")>> \o KeyFirst(op) \o <<Write("providers", "upsertProvider")>>
postProvidersActive(op) == <<Write("providers", "setActiveRoute")>>
postProviderSecret(op) == <<Read("providers"), Need("known", 404), Write("secrets", "setSecret")>>
deleteProvider(op) ==
    <<Read("providers"), Need("known", 404), Write("providers", "removeProvider"), Write("secrets", "deleteSecret")>>

postMemoryProvider(op) ==
    <<Read("memory")>> \o KeyFirst(op) \o <<Write("memory", "upsertMemoryProvider"), Do("clearCaches")>>
postMemoryProvidersActive(op) == <<Write("memory", "setActiveMemoryProvider"), Do("clearCaches")>>
\* A way to get this wrong: the provider built with the old key stays cached.
postMemorySecretNoClear(op) == <<Read("memory"), Need("known", 404), Write("secrets", "setSecret")>>
postMemoryProviderSecret(op) ==
    <<Read("memory"), Need("known", 404), Write("secrets", "setSecret"), Do("clearCaches")>>
deleteMemoryProvider(op) ==
    <<Read("memory"), Need("known", 404), Write("memory", "removeMemoryProvider"),
      Write("secrets", "deleteSecret"), Do("clearCaches")>>

(***************************************************************************)
(* Discovery and connection tests: the provider may answer, fail or hang.  *)
(***************************************************************************)
discover(op) ==
    <<Read("providers"), Need("known", 404)>>
      \o (IF op.refresh THEN << >> ELSE <<Do("lookup")>>)
      \o <<Read("secrets"), Do("call"), Do("remember")>>
runSettingsDiscovery(op) == <<Need("external", 503)>> \o discover(op)
resolveTestProvider(op) == <<Read("providers"), Need("known", 400), Read("secrets")>>
runConnectionTest(op) == resolveTestProvider(op) \o <<Do("call")>>

(***************************************************************************)
(* Assignments of models and of memory stores to roles.                    *)
(***************************************************************************)
putAssignment(op) ==
    <<Read("assignments"), Read("providers"), Need("noBlockers", 400),
      WriteArg("assignments", "upsertAssignment", op.assignment)>>
testAssignment(op) ==
    <<Read("providers"), Read("assignments"), Do("choose"), Read("providers"),
      Need("known", 400), Read("secrets"), Do("call")>>
postAssignmentsReset(op) ==
    <<WriteArg("assignments", "resetAssignments", op.scope)>>

resolveMemoryProvider(op) ==
    <<Read("memoryAssignments"), Read("memory"), Do("candidates"), Do("pick"), Read("secrets"), Do("build")>>
ensureMemoryProviderRefExists(op) ==
    <<Read("memory"), Need("primaryKnown", 400), Read("memory"), Need("fallbackKnown", 400)>>
putMemoryAssignment(op) ==
    ensureMemoryProviderRefExists(op)
      \o <<Read("memoryAssignments"), WriteArg("memoryAssignments", "upsertMemoryAssignment", op.assignment),
           Do("clearCaches")>>
      \o resolveMemoryProvider(op)
postMemoryAssignmentsReset(op) ==
    <<WriteArg("memoryAssignments", "resetMemoryAssignments", op.scope), Do("clearCaches")>>
planMemoryMigration(op) == <<Read("memory"), Need("primaryKnown", 400)>> \o resolveMemoryProvider(op)

\* The router of a run: which record serves the role, first decided from one read of
\* the stores, then built from a later read of each record and its key.
buildConfiguredAssignmentAwareRouter(op) ==
    <<Read("assignments"), Read("providers"), Do("slots"), Read("providers"), Read("secrets"), Do("route")>>

(***************************************************************************)
(* Modules, templates, runtime settings and activation.                    *)
(***************************************************************************)
ModuleWrite(id, on, when) ==
    <<[do |-> "write", store |-> "modules", what |-> "setModuleEnabled", arg |-> [id |-> id, on |-> on],
       when |-> when]>>
\* A way to get this wrong: the registry changes before the last check.
postModulesUnchecked(op) ==
    <<Need("moduleKnown", 404), Do("registry"), Need("mayDisable", 400)>> \o ModuleWrite(op.id, op.on, "always")
postModules(op) ==
    <<Need("moduleKnown", 404), Need("mayDisable", 400), Do("registry")>> \o ModuleWrite(op.id, op.on, "always")

currentConfig(op) ==
    <<Read("providers"), Read("memory"), Read("modules"), Read("assignments"), Read("memoryAssignments")>>
replaceAssignments(op) ==
    <<WriteArg("assignments", "resetAssignments", op.scope),
      WriteArg("assignments", "upsertAssignment", op.template.assignment),
      WriteArg("memoryAssignments", "resetMemoryAssignments", op.scope),
      WriteArg("memoryAssignments", "upsertMemoryAssignment", op.template.memory)>>
mergeMissing(op) ==
    currentConfig(op)
      \o <<[WriteArg("assignments", "upsertAssignment", op.template.assignment) EXCEPT !.when = "roleMissing"],
           [WriteArg("memoryAssignments", "upsertMemoryAssignment", op.template.memory)
              EXCEPT !.when = "memoryRoleMissing"]>>
\* Module toggles are applied in the default scope only.
applyModuleToggles(op, when) ==
    IF op.scope # "default" THEN << >> ELSE ModuleWrite(op.template.toggle, "off", when)
applyTemplate(op) ==
    currentConfig(op) \o <<Need("templateValid", 400)>>
      \o (CASE op.mode = "previewOnly" -> << >>
            [] op.mode = "saveAsDraft" -> <<Do("saveDraft")>>
            [] op.mode = "replaceAssignments" ->
                  <<Need("confirmed", 400)>> \o replaceAssignments(op)
                    \o applyModuleToggles(op, "always")
            [] op.mode = "mergeMissing" ->
                  mergeMissing(op) \o applyModuleToggles(op, "toggleMissing"))
saveCurrentConfig(op) == currentConfig(op) \o <<Need("noSecretFound", 400), Do("saveDraft")>>

patchRuntimeSettings(op) ==
    <<Need("patchGiven", 400), Read("runtime"), WriteArg("runtime", "putRuntime", op.patch)>>
computeActivationReadiness(op) ==
    <<Read("runtime"), Read("assignments"), Read("providers"), Read("secrets"), Read("memoryAssignments"),
      Need("ready", 409)>>
postSetupActivate(op) ==
    computeActivationReadiness(op)
      \o <<Read("runtime"), WriteArg("runtime", "putRuntime", [field |-> "profile", value |-> "configured"])>>
      \o buildConfiguredAssignmentAwareRouter(op)

Program(op) ==
    CASE op.do = "postProvider" -> postProvider(op)
      [] op.do = "postProvidersActive" -> postProvidersActive(op)
      [] op.do = "postProviderSecret" -> postProviderSecret(op)
      [] op.do = "deleteProvider" -> deleteProvider(op)
      [] op.do = "postMemoryProvider" -> postMemoryProvider(op)
      [] op.do = "postMemoryProvidersActive" -> postMemoryProvidersActive(op)
      [] op.do = "postMemoryProviderSecret" -> postMemoryProviderSecret(op)
      [] op.do = "deleteMemoryProvider" -> deleteMemoryProvider(op)
      [] op.do = "discover" -> discover(op)
      [] op.do = "settingsDiscover" -> runSettingsDiscovery(op)
      [] op.do = "testConnection" -> runConnectionTest(op)
      [] op.do = "putAssignment" -> putAssignment(op)
      [] op.do = "testAssignment" -> testAssignment(op)
      [] op.do = "resetAssignments" -> postAssignmentsReset(op)
      [] op.do = "resolveMemory" -> resolveMemoryProvider(op)
      [] op.do = "putMemoryAssignment" -> putMemoryAssignment(op)
      [] op.do = "resetMemoryAssignments" -> postMemoryAssignmentsReset(op)
      [] op.do = "planMemoryMigration" -> planMemoryMigration(op)
      [] op.do = "router" -> buildConfiguredAssignmentAwareRouter(op)
      [] op.do = "postModules" -> postModules(op)
      [] op.do = "applyTemplate" -> applyTemplate(op)
      [] op.do = "saveCurrentConfig" -> saveCurrentConfig(op)
      [] op.do = "patchRuntime" -> patchRuntimeSettings(op)
      [] op.do = "activate" -> postSetupActivate(op)
=============================================================================
