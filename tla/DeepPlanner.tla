---------------------------- MODULE DeepPlanner -----------------------------
(***************************************************************************)
(* The planner that makes several plans of one answer of the model, scores *)
(* them and keeps the best (orchestration/deepPlanner.ts).  Times are in   *)
(* seconds, costs in thousandths of a dollar.                              *)
(***************************************************************************)
EXTENDS PlanReview

LOCAL INSTANCE Functions

CONSTANT MaxEstimatedRuntime    \* the cap on a candidate's estimated runtime

TaskSum(p, Of(_)) == FoldFunction(LAMBDA x, y : x + y, 0, [n \in DOMAIN p.tasks |-> Of(p.tasks[n])])
Least2(a, b) == IF a < b THEN a ELSE b
Minus(a, b) == IF a > b THEN a - b ELSE 0
CeilDiv(a, b) == (a + b - 1) \div b
Map(p, Of(_)) == [p EXCEPT !.tasks = [n \in DOMAIN p.tasks |-> Of(p.tasks[n])]]
RequiredGates(p) == {g \in p.approvalGates : g.required}

(***************************************************************************)
(* The variants.  The risk-minimized one says "unsafe write paths" in the  *)
(* validation of every task.                                               *)
(***************************************************************************)
ensureApprovalGates(gates, tasks) ==
    LET needed == {tasks[n].id : n \in {x \in DOMAIN tasks : isUnsafeTask(tasks[x])}}
        missing == needed \ UNION {g.taskIds : g \in {x \in gates : x.required}} IN
    IF missing = {} THEN gates ELSE gates \cup {Gate("approval", TRUE, missing)}
sanitizeUnsafeWritePathMentions(write) == IF write = "unsafe" THEN "none" ELSE write
createRiskMinimizedVariant(p) ==
    LET safer == Map(p, LAMBDA t : [t EXCEPT !.approvalRequired = @ \/ t.risk \in Unsafe, !.checks = @ + 2, !.words = @ \cup {"write"},
                                             !.write = sanitizeUnsafeWritePathMentions(@)]) IN
    [safer EXCEPT !.checks = @ + 2, !.approvalGates = ensureApprovalGates(@, safer.tasks)]
createTestFirstVariant(p) == [Map(p, LAMBDA t : [t EXCEPT !.checks = @ + 1]) EXCEPT !.checks = @ + 1]
createUserSpeedVariant(p) == [p EXCEPT !.checks = Least2(2, @)]
isSafeForSpeedVariant(p) ==
    /\ p.riskLevel = "low" /\ RequiredGates(p) = {}
    /\ \A n \in DOMAIN p.tasks : ~p.tasks[n].approvalRequired /\ p.tasks[n].risk = "low"

\* In the order of the sources, which is that of sourcePriority from the last to the first.
generateCandidates(base) ==
    {[source |-> "base-live", plan |-> base], [source |-> "risk-minimized", plan |-> createRiskMinimizedVariant(base)],
     [source |-> "test-first", plan |-> createTestFirstVariant(base)]}
    \cup (IF isSafeForSpeedVariant(base) THEN {[source |-> "user-speed", plan |-> createUserSpeedVariant(base)]} ELSE {})

(***************************************************************************)
(* The scores.                                                             *)
(***************************************************************************)
validationCoverageScore(p) ==
    LET tasks == Len(p.tasks)
        sum == TaskSum(p, LAMBDA t : t.checks)
        perTask == IF tasks = 0 THEN 8 ELSE Least2(18, (8 * sum + tasks) \div (2 * tasks)) IN
    Least2(28, perTask + Least2(10, 2 * p.checks))
dependencySimplicityScore(p) ==
    Minus(22, 3 * (TaskSum(p, LAMBDA t : Cardinality(t.dependencies)) + Cardinality(p.dependencies)) + Minus(Len(p.tasks), 4))
approvalBurdenScore(p) == Minus(18, 5 * Cardinality(RequiredGates(p)) + 3 * TaskSum(p, LAMBDA t : IF t.approvalRequired THEN 1 ELSE 0))
\* Twenty more than riskScore, which is below zero for a destructive plan.
riskScore(risk) == CASE risk = "low" -> 42 [] risk = "medium" -> 34 [] risk = "high" -> 24 [] risk = "destructive" -> 2
estimateRuntime(p) ==
    TaskSum(p, LAMBDA t : IF t.risk \in Unsafe THEN 24 ELSE IF t.risk = "medium" THEN 18 ELSE 12)
    + 2 * Cardinality(p.dependencies) + 5 * Cardinality(RequiredGates(p))
estimateCost(p) == 2 * Len(p.tasks) + (IF p.riskLevel \in Unsafe THEN 20 ELSE IF p.riskLevel = "medium" THEN 10 ELSE 0)
estimatedCostRuntimeScore(p) == Minus(12, CeilDiv(estimateRuntime(p), 30) + CeilDiv(estimateCost(p), 10))
sourceDiversityScore(source) ==
    CASE source = "test-first" -> 4 [] source = "risk-minimized" -> 3 [] source = "base-live" -> 2 [] source = "user-speed" -> 1
findSymbolicViolations(p) == {n \in DOMAIN p.tasks : p.tasks[n].write = "unsafe"}

Rejected(p) == findSymbolicViolations(p) # {} \/ estimateRuntime(p) > MaxEstimatedRuntime
scoreCandidate(c) ==
    validationCoverageScore(c.plan) + dependencySimplicityScore(c.plan) + approvalBurdenScore(c.plan) + riskScore(c.plan.riskLevel)
    + estimatedCostRuntimeScore(c.plan) + sourceDiversityScore(c.source)

\* Ties go to the source that comes first in sourcePriority, which is the order of sourceDiversityScore.
selectBestCandidate(candidates, fallback) ==
    LET eligible == {c \in candidates : ~Rejected(c.plan)}
        Better(c, d) == \/ scoreCandidate(c) > scoreCandidate(d)
                        \/ scoreCandidate(c) = scoreCandidate(d) /\ sourceDiversityScore(c.source) >= sourceDiversityScore(d.source) IN
    IF eligible = {} THEN fallback ELSE (CHOOSE c \in eligible : \A d \in eligible : Better(c, d)).plan

\* A plan of the model becomes candidates; no plan at all is the deterministic one, a budget denial is handed on.
runDeepPlanner ==
    /\ live.triage # Unset /\ plan = Unset /\ synthesis.at = "off" /\ Inbox.deep
    /\ LET fallback == createFakePlan({message.verb}, live.triage) IN
       \/ /\ \E draft \in Inbox.plans :
               plan' = (IF safeValidatePlannerOutput(draft) THEN selectBestCandidate(generateCandidates(draft), fallback) ELSE fallback)
          /\ UNCHANGED synthesis
       \/ synthesis' = [synthesis EXCEPT !.at = "blocked"] /\ UNCHANGED plan
    /\ UNCHANGED <<triageVars, review, outcome>>

DeepNext == runDeepPlanner
=============================================================================
