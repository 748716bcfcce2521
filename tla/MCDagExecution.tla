--------------------------- MODULE MCDagExecution ---------------------------
(***************************************************************************)
(* Plans of two tasks and hand-made DAGs of up to three nodes.             *)
(***************************************************************************)
EXTENDS DagExecution

Task(file, risk, deps) ==
    [file |-> file, path |-> IF file THEN "safe" ELSE "none", risk |-> risk,
     approval |-> FALSE, dependencies |-> deps]

Plan(t1, t2, links) == [tasks |-> <<t1, t2>>, links |-> links]

Finding(severity, human) == [severity |-> severity, human |-> human]
Sound0 == [verdict |-> "SOUND", findings |-> {}]
Reviews ==
    {Sound0, [verdict |-> "BLOCKED", findings |-> {}]}
      \cup {[verdict |-> "CONCERNS", findings |-> {Finding(s, h)}] :
              s \in {"BLOCKER", "MAJOR", "NIT"}, h \in BOOLEAN}

Skills == {{}, {Skill(TRUE, TRUE, TRUE, FALSE, "none")}, {Skill(TRUE, TRUE, FALSE, FALSE, "unknown")},
           {Skill(TRUE, FALSE, FALSE, FALSE, "none"), Skill(TRUE, TRUE, FALSE, TRUE, "env")}}

BaseJob ==
    [planned |-> TRUE, plan |-> Plan(Task(FALSE, "low", {}), Task(TRUE, "low", {}), {}),
     dag |-> [nodes |-> << >>, edges |-> {}], review |-> Sound0, skills |-> {}, round |-> 1,
     simulated |-> FALSE, repairs |-> TRUE, options |-> NoOptions, approved |-> {}]

\* What the Crucible makes of every review.
ReviewJobs ==
    {[BaseJob EXCEPT !.review = r, !.skills = s, !.round = n] :
        r \in Reviews, s \in Skills, n \in 0 .. 3}

Plans ==
    {Plan(Task(FALSE, "low", {}), Task(TRUE, "low", {1}), {}),
     Plan(Task(TRUE, "low", {2}), Task(FALSE, "medium", {}), {}),
     Plan(Task(FALSE, "low", {}), Task(TRUE, "high", {}), {<<1, 2>>}),
     Plan(Task(FALSE, "low", {2}), Task(FALSE, "low", {1}), {}),
     Plan(Task(FALSE, "low", {3}), Task(FALSE, "low", {}), {}),
     Plan(Task(FALSE, "low", {}), Task(FALSE, "low", {}), {<<2, 1>>, <<1, 3>>}),
     Plan([Task(TRUE, "low", {}) EXCEPT !.path = "none"], Task(FALSE, "low", {1}), {})}

PlanJobs ==
    {[BaseJob EXCEPT !.plan = p, !.approved = a, !.repairs = r] :
        p \in Plans, a \in {{}, {2, 4}}, r \in BOOLEAN}

SimulatedJobs ==
    {[BaseJob EXCEPT !.plan = p, !.simulated = TRUE, !.repairs = FALSE, !.options = o] :
        p \in Plans,
        o \in {[NoOptions EXCEPT !.fail = f, !.retry = r, !.slow = s, !.invalid = i, !.block = b] :
                 f \in {{}, {2}, {4}, {2, 4}}, r \in 0 .. 1, s \in {{}, {2}}, i \in {{}, {5}}, b \in BOOLEAN}}

\* Hand-made DAGs: a command, a validation of it, and one more.
DagNode(id, type, hint, deps) ==
    [validationDagNode(0) EXCEPT !.id = id, !.kind = "custom", !.type = type, !.hint = hint,
        !.dependsOn = deps, !.target = {}, !.expects = {}, !.outputs = {id}, !.policy = FALSE,
        !.path = IF hint = "RUN_COMMAND" THEN "none" ELSE "safe",
        !.command = hint = "RUN_COMMAND"]

Command(flags) == [DagNode(1, "VALIDATION", "RUN_COMMAND", {}) EXCEPT !.flags = flags]
Dag(nodes, edges) == [nodes |-> nodes, edges |-> edges]

Dags ==
    {Dag(<<Command(f), DagNode(2, "VALIDATION", "none", {1})>>, {<<1, 2>>}) :
        f \in {{}, {"risky"}, {"unlisted", "destructive"}, {"long"}, {"slow"}}}
      \cup
    {Dag(<<DagNode(3, "FILE_OPERATION", "none", {1}), Command({}),
           DagNode(2, "LLM_EXECUTION", "none", {})>>, {<<2, 3>>}),
     Dag(<<DagNode(1, "SHELL_COMMAND", "RUN_COMMAND", {}), DagNode(2, "MERGE", "none", {1})>>, {}),
     Dag(<<DagNode(1, "LLM_EXECUTION", "READ_FILE", {}),
           [DagNode(2, "LLM_EXECUTION", "LIST_DIR", {1}) EXCEPT !.path = "parent"]>>, {}),
     Dag(<<[DagNode(1, "LLM_EXECUTION", "READ_FILE", {}) EXCEPT !.policy = TRUE]>>, {}),
     Dag(<<DagNode(1, "VALIDATION", "RUN_COMMAND", {}), DagNode(2, "VALIDATION", "none", {}),
           DagNode(3, "MERGE", "none", {2})>>, {}),
     Dag(<<DagNode(1, "MERGE", "none", {2}), DagNode(2, "MERGE", "none", {1})>>, {}),
     Dag(<< >>, {})}

DagJobs ==
    {[BaseJob EXCEPT !.planned = FALSE, !.dag = d, !.approved = a, !.repairs = r] :
        d \in Dags, a \in {{}, {1, 3}}, r \in BOOLEAN}

MCJobs  == ReviewJobs \cup PlanJobs \cup SimulatedJobs \cup DagJobs
MCTools == {"sandbox.execute", "workspace.read_file", "workspace.list_dir", "workspace.apply_patch"}
=============================================================================
