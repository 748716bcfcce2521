----------------------------- MODULE PlanReview -----------------------------
(***************************************************************************)
(* What becomes of a routed message before and after its execution: the    *)
(* plan, deterministic or proposed by a model (orchestration/planner.ts),  *)
(* the skeptic's review of it (skeptic.ts) and the answer that tells the   *)
(* user what happened (synthesizer.ts).  The loops that ask a model are    *)
(* those of ProviderCalls; here is what is made of what it answers.        *)
(*                                                                         *)
(* A text is the words of it that a pattern looks for; titles, checks and  *)
(* artifacts that no pattern finds are left out.                           *)
(***************************************************************************)
EXTENDS Triage, Sequences

VARIABLES
    plan,         \* the plan, Unset before there is one
    review,       \* the skeptic's review of it, Unset before
    outcome,      \* what the execution left: the input of the synthesizer
    synthesis     \* the answer, and the calls made for it

reviewVars == <<plan, review, outcome, synthesis>>

(***************************************************************************)
(* Plans.  A task's dependencies are ids; words and refs are what its text *)
(* says, write the path it says it writes ("src", "unsafe" or "none") and  *)
(* checks the number of validations that are not blank.                    *)
(***************************************************************************)
PlanTask(id, deps, risk, approval) ==
    [id |-> id, dependencies |-> deps, risk |-> risk, approvalRequired |-> approval, checks |-> 2,
     words |-> {}, refs |-> {}, write |-> "none"]
Gate(type, required, tasks) == [type |-> type, required |-> required, taskIds |-> tasks]
Unsafe == {"high", "destructive"}
TaskIds(p) == {p.tasks[n].id : n \in DOMAIN p.tasks}
isUnsafeTask(t) == t.approvalRequired \/ t.risk \in Unsafe
UnsafeTasks(p) == {n \in DOMAIN p.tasks : isUnsafeTask(p.tasks[n])}

GatesCover(p) ==
    LET required == {g \in p.approvalGates : g.required}
        planLevel == \E g \in required : g.taskIds = {}
        gated == UNION {g.taskIds : g \in required} IN
    p.riskLevel \in Unsafe \/ UnsafeTasks(p) # {} =>
        /\ planLevel \/ \A n \in UnsafeTasks(p) : p.tasks[n].id \in gated
        /\ p.riskLevel \in Unsafe => planLevel \/ UnsafeTasks(p) # {}
PlannerOutputSchema(p) ==
    /\ Cardinality(TaskIds(p)) = Len(p.tasks)
    /\ \A d \in p.dependencies : d.from \in TaskIds(p) /\ d.to \in TaskIds(p)
    /\ \A n \in DOMAIN p.tasks :
         /\ p.tasks[n].dependencies \subseteq TaskIds(p)
         /\ p.tasks[n].checks > 0
         /\ p.tasks[n].risk \in Unsafe => p.tasks[n].approvalRequired
    /\ \A g \in p.approvalGates : g.taskIds \subseteq TaskIds(p)
    /\ p.checks > 0
    /\ GatesCover(p)

\* A plan that passes is used; normalizePlannerOutput only drops what is said twice, and parses again.
safeValidatePlannerOutput(p) == PlannerOutputSchema(p)

hasDestructiveRisk(t, words) ==
    t.riskFlags \cap {"destructive_change", "deployment_risk"} # {} \/ words \cap {"delete", "deploy"} # {}
riskFromTriage(t) ==
    IF hasDestructiveRisk(t, {}) THEN "destructive"
    ELSE IF t.complexity = "high" \/ "deployment_risk" \in t.riskFlags THEN "high"
    ELSE IF t.complexity = "medium" \/ t.riskFlags # {} THEN "medium" ELSE "low"
basePlan(words, t) ==
    [words |-> words, tasks |-> <<>>, dependencies |-> {}, checks |-> 2, riskLevel |-> riskFromTriage(t), approvalGates |-> {}, refs |-> {}]
Chain(tasks) == {[from |-> tasks[n].id, to |-> tasks[n + 1].id] : n \in 1..(Len(tasks) - 1)}
PlanOf(words, t, tasks, risk, gates) ==
    [basePlan(words, t) EXCEPT !.tasks = tasks, !.dependencies = Chain(tasks), !.riskLevel = risk, !.approvalGates = gates]

\* The routes that are staged: research, work behind a checkpoint, and the question back to the user.
stagedPlan(words, t) ==
    CASE t.route = "RESEARCH" ->
           PlanOf(words, t, <<PlanTask("research.gather", {}, "medium", FALSE), PlanTask("research.synthesize", {"research.gather"}, "medium", FALSE),
                     PlanTask("research.cite", {"research.synthesize"}, "low", FALSE)>>, "medium", {})
      [] t.route = "LONG_RUNNING" ->
           PlanOf(words, t, <<PlanTask("long.scope", {}, "medium", FALSE),
                     [PlanTask("long.checkpoint", {"long.scope"}, "high", TRUE) EXCEPT !.words = {"deployment"}],
                     PlanTask("long.execute-stage", {"long.checkpoint"}, "high", TRUE)>>,
                  "high", {Gate("checkpoint", TRUE, {"long.checkpoint", "long.execute-stage"})})
      [] t.route = "NEEDS_CLARIFICATION" -> PlanOf(words, t, <<>>, "low", {Gate("clarification", TRUE, {})})

createFakePlan(words, t) ==
    LET editRisk == IF hasDestructiveRisk(t, words) THEN "destructive" ELSE IF t.complexity = "high" THEN "high" ELSE "medium"
        approval == editRisk \in Unsafe IN
    CASE t.route = "DIRECT_ANSWER" -> PlanOf(words, t, <<PlanTask("answer.synthesize", {}, "low", FALSE)>>, "low", {})
      [] t.route = "PLAN_ONLY" ->
           PlanOf(words, t, <<PlanTask("plan.inspect", {}, "low", FALSE), PlanTask("plan.document", {"plan.inspect"}, "low", FALSE)>>, "low", {})
      [] t.route = "CODE_EDIT" ->
           PlanOf(words, t, <<PlanTask("code.inspect", {}, "low", FALSE), PlanTask("code.edit", {"code.inspect"}, editRisk, approval),
                     PlanTask("code.validate", {"code.edit"}, "medium", FALSE)>>,
                  editRisk, IF approval THEN {Gate("approval", TRUE, {"code.edit"})} ELSE {})
      [] OTHER -> stagedPlan(words, t)

(***************************************************************************)
(* The skeptic.  Findings are a set: deduplicateSkepticFindings drops the  *)
(* ones that are said twice.                                               *)
(***************************************************************************)
RISKY_LANGUAGE_PATTERN == {"write", "delete", "deploy", "deployment", "migrate"}
Finding(severity, category, about) == [severity |-> severity, category |-> category, about |-> about]
hasClarificationGate(p, route) ==
    route = "NEEDS_CLARIFICATION" \/ \E g \in p.approvalGates : g.type = "clarification" /\ g.required
\* A way to get this wrong: a gate without tasks is not one for every task.
gateNamesTask(p, id) == \E g \in p.approvalGates : g.required /\ id \in g.taskIds
hasRequiredGateForTask(p, id) == \E g \in p.approvalGates : g.required /\ (g.taskIds = {} \/ id \in g.taskIds)
planText(p) == p.words \cup UNION {p.tasks[n].words : n \in DOMAIN p.tasks}
unsupportedContextReferences(p, known) == (p.refs \cup UNION {p.tasks[n].refs : n \in DOMAIN p.tasks}) \ known

reviewPlanWithSkeptic(p, route, known) ==
    LET tasks == {p.tasks[n] : n \in DOMAIN p.tasks} IN
    (IF p.checks > 0 THEN {} ELSE {Finding("MAJOR", "validation", "plan")})
    \cup {Finding("MAJOR", "validation", t.id) : t \in {x \in tasks : x.checks = 0}}
    \cup {Finding("BLOCKER", "dependency", d.from) : d \in {x \in p.dependencies : x.from \notin TaskIds(p)}}
    \cup {Finding("BLOCKER", "dependency", d.to) : d \in {x \in p.dependencies : x.to \notin TaskIds(p)}}
    \cup {Finding("BLOCKER", "dependency", t.id) : t \in {x \in tasks : ~(x.dependencies \subseteq TaskIds(p))}}
    \cup (IF tasks = {} /\ ~hasClarificationGate(p, route) THEN {Finding("BLOCKER", "clarification", "plan")} ELSE {})
    \cup {Finding("BLOCKER", "approval", t.id) : t \in {x \in tasks : isUnsafeTask(x) /\ ~hasRequiredGateForTask(p, x.id)}}
    \cup (IF p.riskLevel = "low" /\ planText(p) \cap RISKY_LANGUAGE_PATTERN # {} THEN {Finding("MAJOR", "risk", "plan")} ELSE {})
    \cup {Finding("MAJOR", "risk", t.id) : t \in {x \in tasks : x.risk = "low" /\ x.words \cap RISKY_LANGUAGE_PATTERN # {}}}
    \cup {Finding("MAJOR", "context", r) : r \in unsupportedContextReferences(p, known)}

verdictForFindings(findings) ==
    IF \E f \in findings : f.severity = "BLOCKER" THEN "BLOCKED"
    ELSE IF \E f \in findings : f.severity \in {"MAJOR", "MINOR"} THEN "NEEDS_REVISION" ELSE "SOUND"

assembleSkepticReview(draft, deterministic) ==
    LET findings == deterministic \cup draft.findings IN
    [verdict |-> verdictForFindings(findings), findings |-> findings]

(***************************************************************************)
(* The answer.  ran is the status of the execution ("none" when there was  *)
(* none), healed the status of validation and healing.                     *)
(***************************************************************************)
answerStatus(o) ==
    IF o.healed # "none" THEN o.healed
    ELSE CASE o.verdict = "ACCEPTED" -> IF o.ran = "FAILED" THEN "FAILED" ELSE "SKIPPED"
           [] o.verdict = "BLOCKED" -> "BLOCKED"
           [] OTHER -> "NEEDS_DECISION"
hasExecutionOrValidationEvidence(o) == o.ran # "none" \/ o.healed # "none"
synthesisEvidence(o) == {"triage", "plan", "skeptic", "crucible", o.verdict, o.ran, o.healed}
failedValidationEvidence(o) == o.failures
HEAVY_DEVELOPER_ROUTES == {"RESEARCH", "CODE_EDIT", "PLAN_ONLY", "LONG_RUNNING"}
shouldRunLiveSynthesizer(gate, route) == gate.external /\ route \in HEAVY_DEVELOPER_ROUTES /\ gate.flagship

synthesizeChatBrainstemResponse(o) ==
    [status |-> answerStatus(o), evidence |-> synthesisEvidence(o), citations |-> {}, live |-> FALSE]
validateSynthesisDraft(draft, evidence) == draft.kind = "draft" /\ (evidence => draft.citations # {})
liveSynthesis(o, draft) ==
    [synthesizeChatBrainstemResponse(o) EXCEPT !.evidence = @ \cup failedValidationEvidence(o), !.citations = draft.citations, !.live = TRUE]

(***************************************************************************)
(* The steps of one message.                                               *)
(***************************************************************************)
\* The deterministic plan, of a reflection and of a deep planner that does not ask.
PlanFromRoute ==
    /\ live.triage # Unset /\ plan = Unset /\ synthesis.at = "off"
    /\ plan' = createFakePlan({message.verb}, live.triage)
    /\ UNCHANGED <<triageVars, review, outcome, synthesis>>

\* A plan of the model; one that is not valid blocks the run (resolvePlannerBlocker).
PlanFromModel ==
    /\ live.triage # Unset /\ plan = Unset /\ synthesis.at = "off" /\ ~Inbox.deep
    /\ \E draft \in Inbox.plans :
         \/ /\ safeValidatePlannerOutput(draft)
            /\ plan' = draft /\ UNCHANGED synthesis
         \/ /\ ~safeValidatePlannerOutput(draft)
            /\ synthesis' = [synthesis EXCEPT !.at = "blocked"] /\ UNCHANGED plan
    /\ UNCHANGED <<triageVars, review, outcome>>

ReviewDeterministic ==
    /\ plan # Unset /\ review = Unset
    /\ review' = assembleSkepticReview([verdict |-> "SOUND", findings |-> {}], reviewPlanWithSkeptic(plan, live.triage.route, Inbox.known))
    /\ UNCHANGED <<triageVars, plan, outcome, synthesis>>
ReviewFromModel ==
    /\ plan # Unset /\ review = Unset
    /\ \E draft \in Inbox.reviews :
          review' = assembleSkepticReview(draft, reviewPlanWithSkeptic(plan, live.triage.route, Inbox.known))
    /\ UNCHANGED <<triageVars, plan, outcome, synthesis>>

\* What the Crucible and the execution (PlanCompiler, DagExecution) make of the plan and its review.
Executed ==
    {o \in [verdict : {"ACCEPTED", "NEEDS_REVISION", "ESCALATED", "BLOCKED"}, ran : {"none", "SUCCESS", "PARTIAL", "FAILED"},
            healed : {"none", "VALIDATED", "HEALED", "NEEDS_DECISION"}, failures : {{}, {"failure"}}] :
        /\ review.verdict = "BLOCKED" <=> o.verdict = "BLOCKED"
        /\ review.verdict = "NEEDS_REVISION" => o.verdict # "ACCEPTED"
        /\ o.ran # "none" => o.verdict = "ACCEPTED"
        /\ o.healed # "none" => o.ran # "none"
        /\ o.failures # {} => o.healed \in {"HEALED", "NEEDS_DECISION"}}
Execute ==
    /\ review # Unset /\ outcome = Unset /\ Inbox.executes
    /\ \E o \in Executed : outcome' = o
    /\ synthesis' = [synthesis EXCEPT !.at = "start"]
    /\ UNCHANGED <<triageVars, plan, review>>

Answered(answer, status, usage) ==
    IF synthesis.answer = Unset THEN [synthesis EXCEPT !.at = "end", !.answer = answer, !.status = status, !.usage = usage]
    ELSE [synthesis EXCEPT !.at = "end"]
synthesisFallbackResult(usage) == Answered(synthesizeChatBrainstemResponse(outcome), "fallback", usage)
synthesisOkResult(draft, usage) == Answered(liveSynthesis(outcome, draft), "ok", usage)

\* The gate of synthesizeHeavyDeveloperRoute, then the first preflight of runLiveSynthesizer.
StartSynthesis ==
    /\ synthesis.at = "start"
    /\ synthesis' = IF Inbox.gate.gated /\ ~shouldRunLiveSynthesizer(Inbox.gate, live.triage.route) THEN synthesisFallbackResult(0)
                    ELSE [synthesis EXCEPT !.at = "ask"]
    /\ UNCHANGED <<triageVars, plan, review, outcome>>
AskSynthesizer ==
    /\ synthesis.at = "ask"
    /\ \/ synthesis' = synthesisFallbackResult(synthesis.spent)
       \/ synthesis' = [synthesis EXCEPT !.at = "answer", !.attempt = @ + 1]
    /\ UNCHANGED <<triageVars, plan, review, outcome>>
runLiveSynthesizerAnswer ==
    /\ synthesis.at = "answer"
    /\ \E draft \in Inbox.drafts :
         LET spent == synthesis.spent + 1
             valid == validateSynthesisDraft(draft, hasExecutionOrValidationEvidence(outcome)) IN
         synthesis' = IF draft.kind = "error" THEN synthesisFallbackResult(synthesis.spent)
                      ELSE IF valid THEN [synthesisOkResult(draft, spent) EXCEPT !.spent = spent]
                      ELSE IF synthesis.attempt = 1 THEN [synthesis EXCEPT !.at = "ask", !.spent = spent]
                      ELSE [synthesisFallbackResult(spent) EXCEPT !.spent = spent]
    /\ UNCHANGED <<triageVars, plan, review, outcome>>

\* The deadline answers with no usage at all; the call it gave up goes on.
SynthesisDeadline ==
    /\ Inbox.gate.gated /\ synthesis.at \in {"ask", "answer"} /\ synthesis.answer = Unset
    /\ synthesis' = [synthesis EXCEPT !.answer = synthesizeChatBrainstemResponse(outcome), !.status = "deadline", !.usage = 0]
    /\ UNCHANGED <<triageVars, plan, review, outcome>>

ReviewInit ==
    /\ plan = Unset /\ review = Unset /\ outcome = Unset
    /\ synthesis = [at |-> "off", attempt |-> 0, spent |-> 0, usage |-> 0, answer |-> Unset, status |-> "none"]
ReviewNext ==
    \/ PlanFromRoute \/ PlanFromModel \/ ReviewDeterministic \/ ReviewFromModel
    \/ Execute \/ StartSynthesis \/ AskSynthesizer \/ runLiveSynthesizerAnswer \/ SynthesisDeadline

(***************************************************************************)
(* The planner and the skeptic agree on what a plan must have, and neither *)
(* can be talked out of it by a model: a plan that passed the planner's    *)
(* schema is blocked by the skeptic's own rules only for having neither    *)
(* tasks nor a clarification gate (PlannerOutputSchema against             *)
(* hasRequiredGateForTask and the dependency rules), the deterministic     *)
(* plan never is, a destructive message never has an edit without a gate,  *)
(* the deep planner never keeps a candidate that writes outside src, and a *)
(* review keeps every deterministic finding and the verdict they call for  *)
(* whatever the model says (assembleSkepticReview).                        *)
(***************************************************************************)
PlanAndReviewAgree ==
    review # Unset =>
        LET own == reviewPlanWithSkeptic(plan, live.triage.route, Inbox.known)
            fake == plan = createFakePlan({message.verb}, live.triage) IN
        /\ PlannerOutputSchema(plan)
        /\ verdictForFindings(own) = "BLOCKED" => plan.tasks = <<>> /\ ~fake
        /\ fake /\ verdictForFindings(own) = "NEEDS_REVISION" => plan.riskLevel = "low" /\ message.verb \in RISKY_LANGUAGE_PATTERN
        /\ fake /\ destructiveTerms(message) # {} /\ "code.edit" \in TaskIds(plan) => hasRequiredGateForTask(plan, "code.edit")
        /\ Inbox.deep => \A n \in DOMAIN plan.tasks : plan.tasks[n].write # "unsafe"
        /\ own \subseteq review.findings
        /\ (\E f \in review.findings : f.severity = "BLOCKER") <=> review.verdict = "BLOCKED"

(***************************************************************************)
(* The answer tells what happened: its status follows from the run and not *)
(* from the model, a blocked plan is never reported as done, a live answer *)
(* about something that ran cites evidence and keeps the failures that     *)
(* validation found, and the usage reported is that of the calls that were *)
(* answered, but for the deadline, which reports none                      *)
(* (runLiveSynthesizer, synthesisOkResult, synthesisFallbackResult).       *)
(***************************************************************************)
AnswerIsGrounded ==
    synthesis.answer # Unset =>
        /\ review.verdict = "BLOCKED" => synthesis.answer.status = "BLOCKED"
        /\ synthesis.answer.status \in {"VALIDATED", "HEALED"} => outcome.verdict = "ACCEPTED" /\ review.verdict = "SOUND"
        /\ synthesis.answer.live =>
              /\ outcome.ran # "none" => synthesis.answer.citations # {}
              /\ outcome.failures \subseteq synthesis.answer.evidence
        /\ synthesis.at = "end" /\ synthesis.status # "deadline" => synthesis.usage = synthesis.spent
        /\ synthesis.spent <= 2

\* The steps of a message keep what the ones before them established, whatever a model answers: triage its risk
\* (triage.ts), plan and review each other's rules (planner.ts, skeptic.ts), the answer the facts (synthesizer.ts).
StepsKeepFacts == TriageKeepsRisk /\ PlanAndReviewAgree /\ AnswerIsGrounded
=============================================================================
