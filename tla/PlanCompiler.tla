---------------------------- MODULE PlanCompiler ----------------------------
(***************************************************************************)
(* The pure half of plan review and execution planning: the verdict the    *)
(* Crucible reaches on a plan and its review (orchestration/crucible.ts),  *)
(* the DAG the compiler makes of an accepted plan                          *)
(* (orchestration/dagCompiler.ts) and the checks a DAG must pass           *)
(* (protocol/dag.ts).                                                      *)
(*                                                                         *)
(* Task and node ids are numbers, so that the code's sort() is <.  Task t  *)
(* becomes the nodes TaskNode(t) and ValidationNode(t).  Labels, texts and *)
(* timestamps are left out.                                                *)
(***************************************************************************)
EXTENDS Integers, Sequences, FiniteSets, SequencesExt

CRUCIBLE_MAX_ROUNDS == 2

NodeTypes == {"LLM_EXECUTION", "VALIDATION", "FILE_OPERATION",
              "SHELL_COMMAND", "MERGE", "CONDITIONAL"}

(***************************************************************************)
(* The Crucible.  A review is a verdict and a set of findings              *)
(* [severity, human]: human stands for a finding that only an operator can *)
(* decide.  A requested skill is what its manifest and the policy context  *)
(* make of it.                                                             *)
(***************************************************************************)
Skill(cap, known, highRisk, gate, prerequisites) ==
    [cap |-> cap, known |-> known, highRisk |-> highRisk, gate |-> gate,
     prerequisites |-> prerequisites]

\* prerequisites: "none", "met", or the first kind that is not, in the order
\* platform, commands, env_vars; "unknown" when the context has no such data.
evaluatePrerequisites(skill) ==
    CASE skill.prerequisites \in {"none", "met"} -> "approved"
      [] skill.prerequisites = "unknown"         -> "deferred"
      [] OTHER                                   -> "denied"

evaluateSkillActivation(skill) ==
    IF \/ ~skill.cap
       \/ ~skill.known
       \/ skill.highRisk /\ ~skill.gate
    THEN "denied"
    ELSE evaluatePrerequisites(skill)

skillFindingsFor(skills) ==
    {s \in skills : evaluateSkillActivation(s) = "denied"}

boundedRound(requested) ==
    IF requested < 1 THEN 1
    ELSE IF requested > CRUCIBLE_MAX_ROUNDS THEN CRUCIBLE_MAX_ROUNDS
    ELSE requested

arbitratePlanWithCrucible(review, skills, requested) ==
    LET round     == boundedRound(requested)
        blockers  == {f \in review.findings : f.severity = "BLOCKER"}
        revisions == {f \in review.findings : f.severity \in {"MAJOR", "MINOR"}}
        human     == {f \in revisions : f.human}
        open      == revisions # {} \/ skillFindingsFor(skills) # {}
    IN  IF review.verdict = "BLOCKED" \/ blockers # {} THEN "BLOCKED"
        ELSE IF review.verdict = "SOUND" /\ skillFindingsFor(skills) = {} THEN "ACCEPTED"
        ELSE IF human # {} THEN "ESCALATED"
        ELSE IF ~open THEN "ACCEPTED"
        ELSE IF round < CRUCIBLE_MAX_ROUNDS THEN "NEEDS_REVISION"
        ELSE "ESCALATED"

-----------------------------------------------------------------------------
(***************************************************************************)
(* Graphs.  deps maps an id to the set of ids it depends on.               *)
(***************************************************************************)
Ids(dag) == {dag.nodes[i].id : i \in DOMAIN dag.nodes}

NodeOf(dag, id) ==
    LET last == CHOOSE i \in DOMAIN dag.nodes :
                  /\ dag.nodes[i].id = id
                  /\ \A j \in DOMAIN dag.nodes : dag.nodes[j].id = id => j <= i
    IN  dag.nodes[last]

\* What the depth-first search of hasCycle finds: ids that keep one another
\* waiting.
hasCycle(deps) ==
    \E S \in (SUBSET DOMAIN deps) \ {{}} : \A n \in S : deps[n] \cap S # {}

\* Kahn's rounds: an id is ready in the round after its last dependency; the
\* ready ids of a round are sorted.
Layers(deps) ==
    LET round[n \in DOMAIN deps] ==
            IF deps[n] = {} THEN 0 ELSE 1 + Max({round[d] : d \in deps[n]})
    IN  CHOOSE s \in SetToSeqs(DOMAIN deps) :
            \A i, j \in DOMAIN s :
                i < j => \/ round[s[i]] < round[s[j]]
                         \/ round[s[i]] = round[s[j]] /\ s[i] < s[j]

-----------------------------------------------------------------------------
(***************************************************************************)
(* protocol/dag.ts.  A DAG is a sequence of nodes and a set of edges       *)
(* <<from, to>>.                                                           *)
(***************************************************************************)
validateNodeRuntimePolicy(node) ==
    /\ node.timeoutMs > 0
    /\ node.maxAttempts > 0

dependencyMap(dag) ==
    [id \in Ids(dag) |->
        NodeOf(dag, id).dependsOn \cup {e[1] : e \in {f \in dag.edges : f[2] = id}}]

validateDag(dag) ==
    LET sound == {e \in dag.edges : e[1] # e[2] /\ e[1] \in Ids(dag) /\ e[2] \in Ids(dag)}
    IN  /\ Cardinality(Ids(dag)) = Len(dag.nodes)
        /\ \A i \in DOMAIN dag.nodes : validateNodeRuntimePolicy(dag.nodes[i])
        /\ sound = dag.edges
        /\ \A id \in Ids(dag) : dependencyMap(dag)[id] \subseteq Ids(dag)
        /\ ~hasCycle(dependencyMap(dag))

-----------------------------------------------------------------------------
(***************************************************************************)
(* The compiler.  A task is [file, path, risk, approval, dependencies]:    *)
(* file says that its text asks for a file operation, path that one of its *)
(* expected artifacts is a safe relative path ("safe", else "none").  plan.links are the plan's  *)
(* own dependencies <<from, to>>.                                          *)
(***************************************************************************)
Tasks(plan)       == DOMAIN plan.tasks
TaskNode(t)       == 2 * t
ValidationNode(t) == 2 * t + 1

Risky(task) == task.risk \in {"high", "destructive"}

retryPolicyFor(risk) == IF risk \in {"high", "destructive"} THEN 1 ELSE 2
timeoutForRisk(risk) ==
    CASE risk \in {"high", "destructive"} -> 120
      [] risk = "medium"                  -> 60
      [] OTHER                            -> 30

dependencyTaskMap(plan) ==
    [t \in Tasks(plan) \cup {l[2] : l \in plan.links} |->
        (IF t \in Tasks(plan) THEN plan.tasks[t].dependencies ELSE {})
          \cup {l[1] : l \in {m \in plan.links : m[2] = t}}]

topologicalTasks(plan) ==
    Layers(Restrict(dependencyTaskMap(plan), Tasks(plan)))

\* dependencyTaskMap throws on a missing dependency, topologicalTasks on a cycle.
CompileThrows(plan) ==
    \/ \E t \in DOMAIN dependencyTaskMap(plan) :
            ~(dependencyTaskMap(plan)[t] \subseteq Tasks(plan))
    \/ hasCycle(Restrict(dependencyTaskMap(plan), Tasks(plan)))

taskDagNode(plan, t) ==
    [id |-> TaskNode(t), kind |-> "planner-task",
     type |-> IF plan.tasks[t].file THEN "FILE_OPERATION" ELSE "LLM_EXECUTION",
     dependsOn |-> {TaskNode(d) : d \in dependencyTaskMap(plan)[t]},
     target |-> {}, hint |-> "none", path |-> plan.tasks[t].path,
     command |-> FALSE, flags |-> {}, policy |-> TRUE,
     outputs |-> {TaskNode(t)}, expects |-> {},
     unsafe |-> Risky(plan.tasks[t]) \/ plan.tasks[t].approval,
     rollback |-> Risky(plan.tasks[t]) \/ plan.tasks[t].approval,
     shell |-> FALSE, deniesShell |-> TRUE, checks |-> TRUE,
     timeoutMs |-> timeoutForRisk(plan.tasks[t].risk),
     maxAttempts |-> retryPolicyFor(plan.tasks[t].risk)]

validationDagNode(t) ==
    [id |-> ValidationNode(t), kind |-> "task-validation", type |-> "VALIDATION",
     dependsOn |-> {TaskNode(t)}, target |-> {TaskNode(t)}, hint |-> "none",
     path |-> "none", command |-> FALSE, flags |-> {}, policy |-> TRUE,
     outputs |-> {ValidationNode(t)}, expects |-> {TaskNode(t)},
     unsafe |-> FALSE, rollback |-> FALSE, shell |-> FALSE, deniesShell |-> TRUE,
     checks |-> TRUE, timeoutMs |-> 15, maxAttempts |-> 1]

compileAcceptedPlanToDag(plan) ==
    LET ordered == topologicalTasks(plan)
        tasks   == [i \in DOMAIN ordered |-> taskDagNode(plan, ordered[i])]
        checks  == [i \in DOMAIN ordered |-> validationDagNode(ordered[i])]
    IN  [nodes |-> tasks \o checks,
         edges |-> UNION {{<<d, n.id>> : d \in n.dependsOn} : n \in ToSet(tasks \o checks)}]

\* What a compiled DAG must show beyond validateDag.
validateUnsafeShellDenied(node) ==
    node.type # "SHELL_COMMAND" /\ ~node.shell /\ node.deniesShell

validateNodePolicyMetadata(node) ==
    /\ node.timeoutMs > 0
    /\ node.type = "VALIDATION" => node.checks
    /\ node.kind = "planner-task" => node.checks /\ (node.unsafe => node.rollback)

validateExplicitDependencyEdges(dag, i) ==
    \A d \in dag.nodes[i].dependsOn :
        /\ <<d, dag.nodes[i].id>> \in dag.edges
        /\ \A j \in DOMAIN dag.nodes : dag.nodes[j].id = d => j <= i

validatePlannerTaskCoverage(dag, node) ==
    node.kind = "planner-task" =>
        \E v \in ToSet(dag.nodes) :
            /\ v.type = "VALIDATION"
            /\ node.id \in v.dependsOn \/ <<node.id, v.id>> \in dag.edges

validateCompiledDag(dag) ==
    /\ validateDag(dag)
    /\ \A i \in DOMAIN dag.nodes :
          /\ validateUnsafeShellDenied(dag.nodes[i])
          /\ validateNodePolicyMetadata(dag.nodes[i])
          /\ validateExplicitDependencyEdges(dag, i)
          /\ validatePlannerTaskCoverage(dag, dag.nodes[i])
=============================================================================
