----------------------------- MODULE ClientPanels -----------------------------
(***************************************************************************)
(* The settings panels of the browser client (public/app.js): each handler *)
(* is a program of calls to the server, run one step at a time while the   *)
(* user goes on clicking; connection tests with their abort and timer; the *)
(* model picker with its probe; the onboarding lock.                       *)
(*                                                                         *)
(* A resource of the server is the number of its last change; 0 is empty.  *)
(* The resources in ByChoice are what the user chose to look at (a         *)
(* template's preview, a memory layer): their answer is the choice asked   *)
(* for, however old.                                                       *)
(***************************************************************************)
EXTENDS Integers, Sequences, FiniteSets

CONSTANTS
    Nothing,
    Visits,         \* by name: the panels, handlers, models and clicks of a visit to the settings
    Slots           \* handlers that may be under way at once

\* Models are no selections: nothing selected is not one either.
ASSUME VisitsAssumption ==
    \A v \in DOMAIN Visits :
        LET names == Visits[v].models \cup {Nothing} IN Nothing \notin [model : names, deployment : names]

VARIABLES
    visit,
    version,        \* at the server, by resource
    display,        \* on the page, by resource
    panels,         \* the open ones
    chosen,         \* the choice of each resource in ByChoice
    calls,          \* by slot: a handler under way
    tests,          \* by guard: a connection test or status request that can be aborted
    picker,         \* one role row of the model picker
    probes,         \* the probes under way
    probed,         \* history: what a probe accepted
    savedVerified,  \* history: what was saved as verified
    fresh,          \* history: panels whose resources no other panel changed since they were opened
    disturbed,      \* history: two handlers overlapped or a call failed
    used            \* clicks so far

picking == <<picker, probes, probed, savedVerified>>
panelVars == <<visit, version, display, panels, chosen, calls, tests, picking, fresh, disturbed, used>>

Has == Visits[visit]
ByChoice == {"preview", "entries"}
Resources == {"providers", "models", "memory", "memoryRoles", "modules", "templates", "readiness", "notes",
              "safety"} \cup ByChoice
Current(r) == IF r \in ByChoice THEN chosen[r] ELSE version[r]

(***************************************************************************)
(* Steps of a handler.  A failed Put or Query ends the handler.  A failed  *)
(* Get empties what is shown or leaves it, and ends the handler or not.    *)
(* Some answers of a Put are shown at once.                                *)
(***************************************************************************)
PutShow(rs, shows) == [op |-> "put", res |-> rs, shows |-> shows, onError |-> "end"]
Put(rs) == PutShow(rs, {})
Get(r, onError) == [op |-> "get", res |-> {}, shows |-> {r}, onError |-> onError]
Query == [op |-> "query", res |-> {}, shows |-> {}, onError |-> "end"]

\* What a change touches: effective routes and the readiness are computed from the records.
ProviderChange == {"providers", "models", "readiness"}
ModelChange == {"models", "readiness"}
MemoryChange == {"memory", "memoryRoles"}
TemplateChange == {"models", "memoryRoles", "modules", "readiness"}

loadProviderConfig == <<Get("providers", "clear")>>
loadOrchestrationModelConfig == <<Get("models", "clear")>>
loadMemoryAssignments == <<Get("memoryRoles", "end")>>
loadMemoryProviderConfig == <<Get("memory", "clearAll"), Get("memoryRoles", "clear")>>
loadModuleManager == <<Get("modules", "end")>>
previewTemplateById == <<Get("preview", "keep")>>
loadTemplates == <<Get("templates", "end")>> \o previewTemplateById
loadMemoryBrowser == <<Get("entries", "clear")>>
loadWorkspaceSafety == <<Get("safety", "clear")>>
loadProductReadiness == <<Get("readiness", "keep")>>
refreshOrchestrationMode == <<Get("readiness", "keep")>>

discoverProviderModels == <<Query>>
\* A way to get this wrong: a save is not followed by a load.
saveForgetsReload == <<Put(ProviderChange)>>
saveProviderConfig == <<Put(ProviderChange)>> \o loadProviderConfig
removeProviderConfig == <<Put(ProviderChange)>> \o loadProviderConfig
toggleActiveRole == <<Put(ProviderChange)>> \o loadProviderConfig
addOpenAICompatibleProvider == <<Put(ProviderChange)>> \o loadProviderConfig
\* Two writes: the model goes onto the record, which every role of the provider shares.
saveRouteSelection == <<Put(ProviderChange), Put(ProviderChange)>> \o loadProviderConfig
saveOrchestrationModelRow == <<Put(ModelChange)>> \o loadOrchestrationModelConfig
testOrchestrationModelRow == <<Query>>
resetOrchestrationModelAssignments == <<Put(ModelChange)>> \o loadOrchestrationModelConfig
saveMemoryAssignment == <<Put({"memoryRoles"})>> \o loadMemoryAssignments
testMemoryAssignment == <<Query>> \o loadMemoryAssignments
previewMemoryAssignmentMigration == <<Query>>
resetMemoryAssignments == <<Put({"memoryRoles"})>> \o loadMemoryAssignments
saveMemoryProviderConfig == <<Put(MemoryChange)>> \o loadMemoryProviderConfig
removeMemoryProviderConfig == <<Put(MemoryChange)>> \o loadMemoryProviderConfig
toggleActiveMemoryProvider == <<Put(MemoryChange)>> \o loadMemoryProviderConfig
addMemoryProviderFromForm == <<Put(MemoryChange)>> \o loadMemoryProviderConfig
\* The box shows the new value before the answer and the old one again after a failure.
toggleModule == <<PutShow({"modules"}, {"modules"})>>
applySelectedTemplate == <<PutShow(TemplateChange, {"preview"})>> \o loadProductReadiness
applyImportedTemplate == <<Put(TemplateChange \cup {"templates"})>> \o loadTemplates
previewImportedTemplate == <<Query>>
exportCurrentTemplate == <<Query>>
saveCurrentTemplate == <<Put({"templates"})>> \o loadTemplates
suggestCheapByokTemplate == previewTemplateById
activateProduct == <<PutShow({"readiness"}, {"readiness"})>>
submitQuickNote == <<Put({"notes"})>>

Handlers ==
  [saveProviderConfig |-> saveProviderConfig, removeProviderConfig |-> removeProviderConfig,
   toggleActiveRole |-> toggleActiveRole, addOpenAICompatibleProvider |-> addOpenAICompatibleProvider,
   saveRouteSelection |-> saveRouteSelection,
   saveOrchestrationModelRow |-> saveOrchestrationModelRow, testOrchestrationModelRow |-> testOrchestrationModelRow,
   resetOrchestrationModelAssignments |-> resetOrchestrationModelAssignments,
   saveMemoryAssignment |-> saveMemoryAssignment, testMemoryAssignment |-> testMemoryAssignment,
   previewMemoryAssignmentMigration |-> previewMemoryAssignmentMigration,
   resetMemoryAssignments |-> resetMemoryAssignments, saveMemoryProviderConfig |-> saveMemoryProviderConfig,
   removeMemoryProviderConfig |-> removeMemoryProviderConfig,
   toggleActiveMemoryProvider |-> toggleActiveMemoryProvider, addMemoryProviderFromForm |-> addMemoryProviderFromForm,
   toggleModule |-> toggleModule,
   previewTemplateById |-> previewTemplateById, applySelectedTemplate |-> applySelectedTemplate,
   applyImportedTemplate |-> applyImportedTemplate, previewImportedTemplate |-> previewImportedTemplate,
   discoverProviderModels |-> discoverProviderModels, exportCurrentTemplate |-> exportCurrentTemplate, saveCurrentTemplate |-> saveCurrentTemplate,
   suggestCheapByokTemplate |-> suggestCheapByokTemplate,
   loadMemoryBrowser |-> loadMemoryBrowser,
   loadProductReadiness |-> loadProductReadiness, activateProduct |-> activateProduct,
   refreshOrchestrationMode |-> refreshOrchestrationMode, submitQuickNote |-> submitQuickNote]

\* The handlers the controls of each panel are wired to, and what it loads when opened.
Panel(load, handlers) == [load |-> load, handlers |-> handlers]
providerCard == {"saveProviderConfig", "removeProviderConfig", "toggleActiveRole", "discoverProviderModels"}
orchestrationModelRow == {"saveOrchestrationModelRow", "testOrchestrationModelRow"}
memoryAssignmentRow == {"saveMemoryAssignment", "testMemoryAssignment", "previewMemoryAssignmentMigration"}
memoryProviderCard == {"saveMemoryProviderConfig", "removeMemoryProviderConfig", "toggleActiveMemoryProvider"}
moduleCard == {"toggleModule"}
templateManager == {"previewTemplateById", "applySelectedTemplate", "applyImportedTemplate", "previewImportedTemplate",
                    "exportCurrentTemplate", "saveCurrentTemplate", "suggestCheapByokTemplate"}
onboarding == {"loadProductReadiness", "activateProduct", "refreshOrchestrationMode"}

\* The page itself ("shell") is always open.
Panels ==
  [providers |-> Panel(loadProviderConfig, providerCard \cup {"addOpenAICompatibleProvider"}),
   models |-> Panel(loadOrchestrationModelConfig, orchestrationModelRow \cup {"resetOrchestrationModelAssignments"}),
   memory |-> Panel(loadMemoryProviderConfig,
                    memoryProviderCard \cup memoryAssignmentRow \cup {"resetMemoryAssignments", "addMemoryProviderFromForm"}),
   modules |-> Panel(loadModuleManager, moduleCard),
   templates |-> Panel(loadTemplates, templateManager),
   browser |-> Panel(loadMemoryBrowser, {"loadMemoryBrowser"}),
   safety |-> Panel(loadWorkspaceSafety, {}),
   test |-> Panel(<<>>, {}), wizard |-> Panel(<<>>, {}),
   shell |-> Panel(loadProductReadiness, onboarding \cup {"submitQuickNote"})]

\* Guards of the requests that can be aborted, with the panel whose closing aborts them.
Guards == [providerTest |-> "test", providerConfigTest |-> "providers", memoryProviderConfigTest |-> "memory",
           setupWizard |-> "wizard"]
NoTest == [inFlight |-> FALSE, timer |-> FALSE, value |-> Nothing]

Free == [handler |-> Nothing]
NoPick == [select |-> Nothing, manual |-> Nothing, verified |-> Nothing, warned |-> FALSE, ui |-> 0]

PanelInit ==
    /\ visit \in DOMAIN Visits
    /\ version = [r \in Resources |-> 1]
    /\ display = [r \in Resources |-> 0]
    /\ panels = {"shell"} /\ fresh = {}
    /\ chosen = [r \in ByChoice |-> 1]
    /\ calls = [k \in Slots |-> Free]
    /\ tests = [g \in DOMAIN Guards |-> NoTest]
    /\ picker = NoPick /\ probes = {} /\ probed = {} /\ savedVerified = {}
    /\ disturbed = FALSE /\ used = 0

(***************************************************************************)
(* Clicks.                                                                 *)
(***************************************************************************)
Click == used < Has.clicks /\ used' = used + 1
UnderWay == {k \in Slots : calls[k] # Free}
Start(panel, handler, program, choices) ==
    \E k \in Slots :
        /\ calls[k] = Free /\ \A j \in Slots : calls[j] = Free => k <= j
        /\ calls' = [calls EXCEPT ![k] = [handler |-> handler, panel |-> panel, program |-> program, ui |-> picker.ui,
                                          asked |-> choices, phase |-> "sent", got |-> 0, ok |-> TRUE]]
        /\ disturbed' = (disturbed \/ UnderWay # {})

openPanel(p) ==
    /\ p \in Has.panels \ panels /\ Click
    /\ panels' = panels \cup {p} /\ fresh' = fresh \cup {p}
    /\ IF Panels[p].load = <<>> THEN UNCHANGED <<calls, disturbed>> ELSE Start(p, "open", Panels[p].load, chosen)
    /\ UNCHANGED <<visit, version, display, chosen, tests, picking>>

\* Closing aborts the test of the panel: its handler ends before anything else happens.
abortTests(p) == [g \in DOMAIN Guards |-> IF Guards[g] = p THEN NoTest ELSE tests[g]]
closePanel(p) ==
    /\ p \in panels \ {"shell"}
    /\ panels' = panels \ {p} /\ fresh' = fresh \ {p}
    /\ tests' = abortTests(p)
    /\ UNCHANGED <<visit, version, display, chosen, calls, picking, disturbed, used>>

\* The requests of the onboarding exclude each other; most buttons of a card need a record.
Onboarding == {"loadProductReadiness", "activateProduct", "applySelectedTemplate"}
OnboardingBusy == \E k \in UnderWay : calls[k].handler \in Onboarding /\ "readiness" \in Head(calls[k].program).shows
HandlerEnabled(h) ==
    /\ h \in {"removeProviderConfig", "toggleActiveRole", "discoverProviderModels"} => display["providers"] > 0
    /\ h \in {"loadProductReadiness", "activateProduct"} => ~OnboardingBusy
    /\ h = "toggleModule" => display["modules"] > 0

runHandler(p, h) ==
    /\ p \in panels /\ h \in Panels[p].handlers \cap Has.handlers /\ HandlerEnabled(h) /\ Click
    /\ Start(p, h, Handlers[h], chosen)
    /\ fresh' = IF h = "loadProductReadiness" THEN fresh \cup {p} ELSE fresh
    /\ UNCHANGED <<visit, version, display, panels, chosen, tests, picking>>

\* Choosing a template or a layer asks for it at once.
choose(p, r, c) ==
    /\ p \in panels /\ <<p, r>> \in {<<"templates", "preview">>, <<"browser", "entries">>} /\ c # chosen[r] /\ Click
    /\ chosen' = [chosen EXCEPT ![r] = c]
    /\ Start(p, "choose", IF r = "preview" THEN previewTemplateById ELSE loadMemoryBrowser, chosen')
    /\ UNCHANGED <<visit, version, display, panels, tests, picking, fresh>>

(***************************************************************************)
(* The server carries a step out, or refuses it, or its answer is lost.    *)
(***************************************************************************)
Step(k) == Head(calls[k].program)
Loads(p) == UNION {Panels[p].load[i].shows : i \in DOMAIN Panels[p].load}

Serve(k, done, heard) ==
    /\ calls[k] # Free /\ calls[k].phase = "sent" /\ (heard => done) /\ (heard \/ Has.failures)
    /\ LET changed == IF done THEN Step(k).res ELSE {}
       IN  /\ version' = [r \in Resources |-> IF r \in changed THEN version[r] + 1 ELSE version[r]]
           /\ fresh' = {p \in fresh : p = calls[k].panel \/ changed \cap Loads(p) = {}}
           /\ calls' = [calls EXCEPT ![k].phase = "answered", ![k].ok = heard,
                            ![k].got = [r \in Step(k).shows |-> IF r \in ByChoice THEN calls[k].asked[r] ELSE version'[r]]]
    /\ disturbed' = (disturbed \/ ~heard)
    /\ UNCHANGED <<visit, display, panels, chosen, tests, picking, used>>

\* The rows of the picker are built anew whenever the cards are.
Rebuilt == [NoPick EXCEPT !.ui = picker.ui + 1]

\* A program that comes to the readiness while the onboarding asks for it skips that step.
Rest(k) ==
    LET rest == Tail(calls[k].program)
    IN  IF rest # <<>> /\ calls[k].handler = "applySelectedTemplate"
           /\ \E j \in UnderWay \ {k} : calls[j].handler \in Onboarding /\ "readiness" \in Step(j).shows
        THEN <<>> ELSE rest

\* A discovery clears the selection of its card, also when it answers with an error; only when
\* no answer comes through does the selection stay.
Answer(k) ==
    /\ calls[k] # Free /\ calls[k].phase = "answered"
    /\ LET st == Step(k)
           ok == calls[k].ok
           emptied == IF ok \/ st.op # "get" THEN {}
                      ELSE CASE st.onError = "clear" -> st.shows
                             [] st.onError = "clearAll" -> {"memory", "memoryRoles"}
                             [] OTHER -> {}
           goesOn == ok \/ st.onError \in {"keep", "clear"}
           rest == IF goesOn THEN Rest(k) ELSE <<>>
       IN  /\ display' = [r \in Resources |-> IF ok /\ r \in st.shows THEN calls[k].got[r]
                                              ELSE IF r \in emptied THEN 0 ELSE display[r]]
           /\ picker' \in CASE "providers" \in st.shows /\ goesOn -> {Rebuilt}
                             [] calls[k].handler = "discoverProviderModels" /\ calls[k].ui = picker.ui
                                  -> {[picker EXCEPT !.select = Nothing]} \cup {p \in {picker} : ~ok}
                             [] OTHER -> {picker}
           /\ calls' = [calls EXCEPT ![k] = IF rest = <<>> THEN Free
                                            ELSE [@ EXCEPT !.program = rest, !.phase = "sent", !.asked = chosen, !.got = 0]]
    /\ UNCHANGED <<visit, version, panels, chosen, tests, probes, probed, savedVerified, fresh, disturbed, used>>

(***************************************************************************)
(* Connection tests and the setup status: one at a time per guard, ended   *)
(* by the answer, by the timer or by closing the panel.                    *)
(***************************************************************************)
startTest(g) ==
    /\ g \in Has.tests /\ Guards[g] \in panels /\ ~tests[g].inFlight /\ Click
    /\ g = "providerConfigTest" => display["providers"] > 0
    /\ tests' = [tests EXCEPT ![g] = [inFlight |-> TRUE, timer |-> TRUE, value |-> Nothing]]
    /\ UNCHANGED <<visit, version, display, panels, chosen, calls, picking, fresh, disturbed>>

TestServed(g) ==
    /\ tests[g].inFlight /\ tests[g].value = Nothing
    /\ tests' = [tests EXCEPT ![g].value = version["readiness"]]
    /\ UNCHANGED <<visit, version, display, panels, chosen, calls, picking, fresh, disturbed, used>>

\* The wizard's answer also goes to the onboarding, whatever the onboarding learned meanwhile.
TestAnswer(g) ==
    /\ tests[g].inFlight /\ tests[g].value # Nothing
    /\ tests' = [tests EXCEPT ![g] = NoTest]
    /\ display' = IF g = "setupWizard" THEN [display EXCEPT !["readiness"] = tests[g].value] ELSE display
    /\ disturbed' = (disturbed \/ (g = "setupWizard" /\ tests[g].value # version["readiness"]))
    /\ UNCHANGED <<visit, version, panels, chosen, calls, picking, fresh, used>>

TestTimeout(g) ==
    /\ tests[g].timer
    /\ tests' = [tests EXCEPT ![g] = NoTest]
    /\ UNCHANGED <<visit, version, display, panels, chosen, calls, picking, fresh, disturbed, used>>

(***************************************************************************)
(* The model picker.  What was verified is remembered as the model and the *)
(* deployment that were probed.                                            *)
(***************************************************************************)
resolveRoleSelection ==
    IF Has.azure THEN [model |-> picker.select, deployment |-> picker.manual]
    ELSE [model |-> IF picker.manual # Nothing THEN picker.manual ELSE picker.select, deployment |-> Nothing]
Picking == "providers" \in panels /\ display["providers"] > 0

onSelectionChange(field, m) ==
    /\ Picking /\ m # picker[field] /\ Click
    /\ picker' = [picker EXCEPT ![field] = m, !.verified = Nothing, !.warned = FALSE]
    /\ UNCHANGED <<visit, version, display, panels, chosen, calls, tests, probes, probed, savedVerified, fresh, disturbed>>

probeRoleModel ==
    /\ Picking /\ resolveRoleSelection.model # Nothing /\ Click
    /\ \A q \in probes : q.ui # picker.ui
    /\ probes' = probes \cup {[sel |-> resolveRoleSelection, ui |-> picker.ui]}
    /\ UNCHANGED <<visit, version, display, panels, chosen, calls, tests, picker, probed, savedVerified, fresh, disturbed>>

ProbeAnswer(q, ok) ==
    /\ q \in probes /\ probes' = probes \ {q}
    /\ probed' = IF ok THEN probed \cup {q.sel} ELSE probed
    /\ picker' = IF q.ui # picker.ui THEN picker ELSE [picker EXCEPT !.verified = IF ok THEN q.sel ELSE Nothing]
    /\ UNCHANGED <<visit, version, display, panels, chosen, calls, tests, savedVerified, fresh, disturbed, used>>

isVerified(sel) == picker.verified = sel

saveVerifiedRoute ==
    /\ Picking /\ resolveRoleSelection.model # Nothing /\ isVerified(resolveRoleSelection) /\ Click
    /\ savedVerified' = savedVerified \cup {resolveRoleSelection}
    /\ Start("providers", "saveRouteSelection", saveRouteSelection, chosen)
    /\ UNCHANGED <<visit, version, display, panels, chosen, tests, picker, probes, probed, fresh>>

\* The first click only warns.
saveUnverifiedRoute ==
    /\ Picking /\ resolveRoleSelection.model # Nothing /\ Click
    /\ picker' = [picker EXCEPT !.warned = ~@]
    /\ IF picker.warned THEN Start("providers", "saveRouteSelection", saveRouteSelection, chosen)
       ELSE UNCHANGED <<calls, disturbed>>
    /\ UNCHANGED <<visit, version, display, panels, chosen, tests, probes, probed, savedVerified, fresh>>

PanelNext ==
    \/ \E p \in DOMAIN Panels : openPanel(p) \/ closePanel(p)
    \/ \E p \in DOMAIN Panels : \E h \in DOMAIN Handlers : runHandler(p, h)
    \/ \E p \in DOMAIN Panels : \E r \in ByChoice, c \in 1 .. 2 : choose(p, r, c)
    \/ \E k \in Slots, done, heard \in BOOLEAN : Serve(k, done, heard)
    \/ \E k \in Slots : Answer(k)
    \/ \E g \in DOMAIN Guards : startTest(g) \/ TestServed(g) \/ TestAnswer(g) \/ TestTimeout(g)
    \/ \E field \in {"select", "manual"}, m \in Has.models : onSelectionChange(field, m)
    \/ probeRoleModel \/ saveVerifiedRoute \/ saveUnverifiedRoute
    \/ \E q \in probes, ok \in BOOLEAN : ProbeAnswer(q, ok)

(***************************************************************************)
(* Properties.                                                             *)
(***************************************************************************)

\* A route that was saved as verified names the model and the deployment that a probe
\* accepted, however the selection, the cards and the probes' answers interleave
\* (probeRoleModel, createModelPickerRoleRow).
VerifiedWasProbed == savedVerified \subseteq probed

\* Every handler that changes something shows the change: when no handlers overlapped and
\* no call failed, a panel at rest shows what the server holds, unless another panel changed it.
PanelsAreCurrent ==
    (~disturbed /\ UnderWay = {}) =>
        \A p \in fresh : \A r \in Loads(p) : display[r] = Current(r)

\* The settings pages tell the truth: what they show is what the server holds, and what they
\* save as verified was verified.
PanelsAgree == VerifiedWasProbed /\ PanelsAreCurrent
===============================================================================
