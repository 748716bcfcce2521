---------------------------- MODULE DagExecution ----------------------------
(***************************************************************************)
(* From a reviewed plan to its validated result: the Crucible's verdict,   *)
(* the compiled DAG, its execution node by node through the sandbox        *)
(* (orchestration/sandboxExecutor.ts) or in the simulator                  *)
(* (orchestration/executorSimulator.ts), and the healing loop around it    *)
(* (orchestration/validationHealing.ts), with an interrupt at any moment.  *)
(*                                                                         *)
(* Every node is a step; in the sandbox a tool call is two and a command   *)
(* several.                                                                *)
(***************************************************************************)
EXTENDS PlanCompiler, WorkspaceSandbox, FiniteSetsExt

CONSTANTS Jobs,                 \* what may be asked for: see Job
          MaxHealingAttempts    \* options.maxHealingAttempts

ASSUME HealingAssumption == MaxHealingAttempts \in Nat \ {0}

\* Plans have finitely many tasks, DAGs are sequences of nodes; ids are numbers.
ASSUME JobsAssumption ==
    \A j \in Jobs :
        /\ IsFiniteSet(DOMAIN j.plan.tasks) /\ DOMAIN j.plan.tasks \subseteq Int
        /\ Len(j.dag.nodes) \in Nat /\ DOMAIN j.dag.nodes = 1 .. Len(j.dag.nodes)
        /\ \A i \in DOMAIN j.dag.nodes : j.dag.nodes[i].id \in Int

VARIABLES job,        \* the request under way
          pc,         \* the point the job has reached
          dag, order, \* the compiled DAG and the order of its nodes
          at,         \* the next node of order
          results,    \* id -> result of the nodes executed so far
          run,        \* the finished execution: [status, results]
          heal,       \* [attempts, status, patch]: the healing loop
          options     \* the simulator's options of the next execution

execVars == <<job, pc, dag, order, at, results, run, heal, options>>
vars     == <<execVars, sandboxVars>>

(***************************************************************************)
(* A job: plan or dag, its review, the executor, whether a repair agent is *)
(* there, the simulator's injected failures and the operator's approvals.  *)
(***************************************************************************)
\* A failure of no node but of the DAG: an invalid DAG has this one result.
WholeDag   == 0
InvalidRun == [status |-> "FAILED",
               results |-> [n \in {WholeDag} |-> [status |-> "FAILED", code |-> "DAG_VALIDATION_FAILED"]]]

NoOptions == [fail |-> {}, slow |-> {}, retry |-> 0, invalid |-> {}, block |-> FALSE]
NoRun     == [status |-> "none", results |-> << >>]
NewHeal   == [attempts |-> 0, status |-> "none", patch |-> WholeDag]

Result(status, code) == [status |-> status, code |-> code]
Completed(r) == r.status \in {"SUCCESS", "RETRIED"}
Blocking(r)  == r.status \in {"FAILED", "SKIPPED"}

\* A way to get this wrong: nothing failed is taken for success.
dagStatusNoFailure(res) ==
    IF \A n \in DOMAIN res : res[n].status # "FAILED" THEN "SUCCESS" ELSE "FAILED"

dagStatus(res) ==
    LET with(S) == {n \in DOMAIN res : res[n].status \in S}
    IN  CASE DOMAIN res = {}                                     -> "SKIPPED"
          [] with({"FAILED", "SKIPPED"}) = {} /\ DOMAIN res # {} -> "SUCCESS"
          [] /\ with({"FAILED", "SUCCESS", "RETRIED"}) = {}
             /\ with({"SKIPPED"}) # {}                           -> "SKIPPED"
          [] /\ with({"FAILED"}) # {}
             /\ with({"SUCCESS", "RETRIED"}) = {}                -> "FAILED"
          [] OTHER                                               -> "PARTIAL"

\* A way to get this wrong: the nodes run in the order they were declared.
declaredNodes(d) == [i \in DOMAIN d.nodes |-> d.nodes[i].id]

\* A DAG that cannot be sorted runs in its declared order.
topologicalNodes(d) ==
    IF hasCycle(dependencyMap(d)) THEN [i \in DOMAIN d.nodes |-> d.nodes[i].id]
    ELSE Layers(dependencyMap(d))

\* The outputs a completed node is known to have produced.
Produced(d, id) == NodeOf(d, id).outputs

validationTargets(d, id) ==
    IF NodeOf(d, id).target # {} THEN NodeOf(d, id).target ELSE dependencyMap(d)[id]

validateUpstreamOutputs(d, id, res) ==
    /\ validationTargets(d, id) # {}
    /\ \A t \in validationTargets(d, id) :
          /\ t \in DOMAIN res
          /\ Completed(res[t])
          /\ NodeOf(d, id).expects \subseteq Produced(d, t)

blockedBy(d, id, res) ==
    {n \in dependencyMap(d)[id] : n \in DOMAIN res /\ Blocking(res[n])}

Recorded(res, id, r) == [n \in DOMAIN res \cup {id} |-> IF n = id THEN r ELSE res[n]]

appendAbortedRemainder(ids, from, res) ==
    LET rest == {ids[i] : i \in from .. Len(ids)}
    IN  [n \in DOMAIN res \cup rest |->
            IF n \in rest THEN Result("SKIPPED", "ABORTED") ELSE res[n]]

-----------------------------------------------------------------------------
(***************************************************************************)
(* The simulator.                                                          *)
(***************************************************************************)
unsafeShellError(node) == node.type = "SHELL_COMMAND" \/ node.shell

unsandboxedWorkspaceOpError(node, opt) ==
    opt.block /\ node.type \in {"FILE_OPERATION", "SHELL_COMMAND"}

timeoutErrorFor(node, opt) == node.id \in opt.slow

injectedFailureAttempts(node, opt) ==
    IF node.id \in opt.fail
    THEN IF opt.retry = 0 \/ opt.retry > node.maxAttempts THEN node.maxAttempts ELSE opt.retry
    ELSE 0

\* INJECTED_FAILURE is retryable, so an injected failure shorter than the
\* node's attempts ends in RETRIED.
injectedOutcome(node, opt) ==
    IF injectedFailureAttempts(node, opt) >= node.maxAttempts
    THEN Result("FAILED", "INJECTED_FAILURE")
    ELSE Result("RETRIED", "none")

validationErrorFor(d, node, opt, res) ==
    /\ node.type = "VALIDATION"
    /\ \/ node.id \in opt.invalid
       \/ node.hint # "RUN_COMMAND" /\ ~validateUpstreamOutputs(d, node.id, res)

executeNode(d, node, opt, res) ==
    CASE unsafeShellError(node)                  -> Result("FAILED", "PERMISSION_DENIED")
      [] ~unsafeShellError(node) /\ unsandboxedWorkspaceOpError(node, opt)
                                                 -> Result("FAILED", "PERMISSION_DENIED")
      [] OTHER ->
         IF timeoutErrorFor(node, opt) THEN Result("FAILED", "TIMEOUT")
         ELSE IF injectedFailureAttempts(node, opt) > 0 THEN injectedOutcome(node, opt)
         ELSE IF validationErrorFor(d, node, opt, res) THEN Result("FAILED", "VALIDATION_FAILED")
         ELSE Result("SUCCESS", "none")

-----------------------------------------------------------------------------
(***************************************************************************)
(* One node in the sandbox.                                                *)
(***************************************************************************)
defaultOperationKind(type) ==
    CASE type = "FILE_OPERATION"                  -> "PROPOSE_PATCH"
      [] type \in {"VALIDATION", "SHELL_COMMAND"} -> "RUN_COMMAND"
      [] OTHER                                    -> "none"

mapDagNodeToOperation(node) ==
    LET kind == IF node.hint # "none" THEN node.hint ELSE defaultOperationKind(node.type)
    IN  CASE kind = "none"        -> "none"
          [] kind = "RUN_COMMAND" -> IF node.command THEN kind ELSE "none"
          [] OTHER                -> IF node.path # "none" THEN kind ELSE "none"

OperationOf(node) ==
    [kind |-> mapDagNodeToOperation(node), target |-> node.id, path |-> node.path,
     flags |-> node.flags, shell |-> node.type = "SHELL_COMMAND"]

\* The node asks for nothing of the sandbox, or cannot be understood.
resultWithoutTool(d, node, res) ==
    CASE node.type = "VALIDATION" /\ node.hint = "none" ->
            IF validateUpstreamOutputs(d, node.id, res)
            THEN Result("SUCCESS", "none") ELSE Result("FAILED", "VALIDATION_FAILED")
      [] ~(node.type = "VALIDATION" /\ node.hint = "none") /\
         (node.hint # "none" \/ defaultOperationKind(node.type) # "none") ->
            Result("FAILED", "OPERATION_MAPPING_FAILED")
      [] OTHER -> Result("SUCCESS", "none")

executionErrorFromToolResult(code) ==
    CASE code \in {"PERMISSION_DENIED", "POLICY_DENIED"}       -> "PERMISSION_DENIED"
      [] code \in {"TOOL_NOT_FOUND", "TOOL_UNAVAILABLE"}       -> "OPERATION_MAPPING_FAILED"
      [] OTHER                                                 -> "SANDBOX_OPERATION_FAILED"

executionErrorFromResult(r) ==
    CASE r.reason = "COMMAND_ABORTED"             -> "ABORTED"
      [] r.reason = "COMMAND_TIMEOUT"             -> "TIMEOUT"
      [] r.status \in {"DENIED", "NEEDS_APPROVAL"}
         /\ r.reason \notin {"COMMAND_ABORTED", "COMMAND_TIMEOUT"} -> "PERMISSION_DENIED"
      [] OTHER                                    -> "none"

nodeResultFromOperation(r) ==
    IF r.status = "SUCCEEDED" THEN Result("SUCCESS", "none")
    ELSE Result("FAILED", executionErrorFromResult(r))

-----------------------------------------------------------------------------
(***************************************************************************)
(* Healing: what failed, what is at its root, and what may be done.        *)
(***************************************************************************)
classifyError(code) ==
    CASE code = "INJECTED_FAILURE"  -> "TRANSIENT"
      [] code = "PERMISSION_DENIED" -> "PERMISSION"
      [] code = "TIMEOUT"           -> "TIMEOUT"
      [] code = "DEPENDENCY_FAILED" -> "DEPENDENCY"
      [] code \in {"DAG_VALIDATION_FAILED", "VALIDATION_FAILED", "OPERATION_MAPPING_FAILED"}
                                    -> "VALIDATION"
      [] OTHER                      -> "UNKNOWN"

classifyExecutionFailures(r) == {n \in DOMAIN r.results : Blocking(r.results[n])}

Class(r, n) == classifyError(r.results[n].code)

rootActionableFailures(r) ==
    {n \in classifyExecutionFailures(r) : Class(r, n) # "DEPENDENCY"}

isUnsafeToAutoHeal(d, n) ==
    /\ n # WholeDag
    /\ \/ NodeOf(d, n).type = "SHELL_COMMAND"
       \/ NodeOf(d, n).shell
       \/ NodeOf(d, n).unsafe

\* A way to get this wrong: a denied permission is repaired like any other failure.
unsafeFailures(d, r) == {n \in rootActionableFailures(r) : isUnsafeToAutoHeal(d, n)}

decisionFailures(d, r) ==
    {n \in rootActionableFailures(r) : Class(r, n) = "PERMISSION" \/ isUnsafeToAutoHeal(d, n)}

isRetryableFailure(r, n) == Class(r, n) \in {"TRANSIENT", "TIMEOUT", "UNKNOWN"}

\* From the original options, the retried nodes lose their injected failures;
\* a timeout that was simulated is clamped to what the node allows.
healingOptions(opt, r, retried) ==
    [opt EXCEPT !.fail = @ \ retried,
                !.slow = @ \ {n \in retried : Class(r, n) = "TIMEOUT"}]

-----------------------------------------------------------------------------
(***************************************************************************)
(* The job.                                                                *)
(***************************************************************************)
Init ==
    /\ job \in Jobs
    /\ pc = IF job.planned THEN "review" ELSE "start"
    /\ dag = IF job.planned THEN [nodes |-> << >>, edges |-> {}] ELSE job.dag
    /\ order = << >> /\ at = 1 /\ results = << >>
    /\ run = NoRun /\ heal = NewHeal /\ options = job.options
    /\ SandboxInit(job.approved)

Review ==
    /\ pc = "review"
    /\ pc' = IF arbitratePlanWithCrucible(job.review, job.skills, job.round) = "ACCEPTED"
             THEN "compile" ELSE "rejected"
    /\ UNCHANGED <<job, dag, order, at, results, run, heal, options, sandboxVars>>

\* assertValidCompiledDag is the compiler's check of its own work.
Compile ==
    /\ pc = "compile"
    /\ IF CompileThrows(job.plan) THEN pc' = "threw" /\ UNCHANGED dag
       ELSE /\ dag' = compileAcceptedPlanToDag(job.plan)
            /\ pc' = IF validateCompiledDag(dag') THEN "start" ELSE "miscompiled"
    /\ UNCHANGED <<job, order, at, results, run, heal, options, sandboxVars>>

Ended(r, next) == run' = r /\ pc' = next

StartInvalid ==
    /\ pc = "start" /\ ~validateDag(dag)
    /\ Ended(InvalidRun, IF job.simulated THEN "heal" ELSE "validate")
    /\ UNCHANGED <<job, dag, order, at, results, heal, options, sandboxVars>>

\* The simulator is synchronous: nothing else happens between its nodes.
Start ==
    /\ pc = "start" /\ validateDag(dag)
    /\ order' = topologicalNodes(dag) /\ at' = 1 /\ results' = << >>
    /\ pc' = IF job.simulated THEN "simulate" ELSE "node"
    /\ UNCHANGED <<job, dag, run, heal, options, sandboxVars>>

\* A healing round goes on with its loop; so does the simulator's caller.
AfterExecution == IF heal.attempts = 0 /\ ~job.simulated THEN "validate" ELSE "heal"

InLoop == pc \in {"node", "simulate"}

EndExecution ==
    /\ InLoop /\ at > Len(order)
    /\ Ended([status |-> dagStatus(results), results |-> results], AfterExecution)
    /\ UNCHANGED <<job, dag, order, at, results, heal, options, sandboxVars>>

StopAborted ==
    /\ InLoop /\ at <= Len(order) /\ aborted
    /\ results' = appendAbortedRemainder(order, at, results)
    /\ Ended([status |-> dagStatus(results'), results |-> results'], AfterExecution)
    /\ UNCHANGED <<job, dag, order, at, heal, options, sandboxVars>>

Record(r) == results' = Recorded(results, order[at], r) /\ at' = at + 1

AtNode == InLoop /\ at <= Len(order) /\ ~aborted
Ready  == AtNode /\ blockedBy(dag, order[at], results) = {}
Node   == NodeOf(dag, order[at])
Op     == OperationOf(Node)

SkipBlocked ==
    /\ AtNode /\ blockedBy(dag, order[at], results) # {}
    /\ Record(Result("SKIPPED", "DEPENDENCY_FAILED"))
    /\ UNCHANGED <<job, pc, dag, order, run, heal, options, sandboxVars>>

SimulateNode ==
    /\ Ready /\ pc = "simulate"
    /\ Record(executeNode(dag, Node, options, results))
    /\ UNCHANGED <<job, pc, dag, order, run, heal, options, sandboxVars>>

RunWithoutTool ==
    /\ Ready /\ pc = "node" /\ Op.kind = "none"
    /\ Record(resultWithoutTool(dag, Node, results))
    /\ UNCHANGED <<job, pc, dag, order, run, heal, options, sandboxVars>>

\* The executor has checked for an interrupt; the tool layer is asynchronous,
\* so another may come before the sandbox is asked.
CallTool ==
    /\ Ready /\ pc = "node" /\ Op.kind # "none"
    /\ pc' = "tool"
    /\ UNCHANGED <<job, dag, order, at, results, run, heal, options, sandboxVars>>

Tool == runToolWithMiddleware(mapSandboxOperationToToolName(Op.kind), Node)

ToolRefuses ==
    /\ pc = "tool" /\ Tool # "run"
    /\ Record(Result("FAILED", executionErrorFromToolResult(Tool)))
    /\ turn' = IF CanConsumeToolCall THEN ToolCallConsumed ELSE turn
    /\ pc' = "node"
    /\ UNCHANGED <<job, dag, order, run, heal, options, files, approvals, proc, aborted>>

\* A read or a write may throw: the handler's exception is a tool error.
Operate ==
    /\ pc = "tool" /\ Tool = "run"
    /\ turn' = ToolCallConsumed
    /\ \/ /\ operate(Op) = Runs
          /\ proc' = Spawned /\ pc' = "command"
          /\ UNCHANGED <<at, results, files>>
       \/ /\ operate(Op) # Runs
          /\ Record(nodeResultFromOperation(operate(Op)))
          /\ files' = IF Writes(Op) THEN files \cup {Op.target} ELSE files
          /\ pc' = "node" /\ UNCHANGED proc
       \/ /\ operate(Op) = Succeeded
          /\ Record(Result("FAILED", executionErrorFromToolResult("TOOL_HANDLER_FAILED")))
          /\ pc' = "node" /\ UNCHANGED <<proc, files>>
    /\ UNCHANGED <<job, dag, order, run, heal, options, approvals, aborted>>

Timer ==
    /\ pc = "command" /\ TimerFires
    /\ UNCHANGED <<execVars, files, approvals, turn, aborted>>

Child ==
    /\ ChildEnds
    /\ UNCHANGED <<execVars, files, approvals, turn, aborted>>

EndCommand ==
    /\ pc = "command" /\ proc.answer # "none"
    /\ Record(nodeResultFromOperation(CommandResult))
    /\ pc' = "node"
    /\ UNCHANGED <<job, dag, order, run, heal, options, sandboxVars>>

Finished == pc \in {"done", "threw", "rejected", "miscompiled"}

\* One command at a time: the child of an aborted command may still be dying,
\* but no other is started after an abort.
Abort ==
    /\ ~aborted /\ pc # "simulate" /\ ~Finished
    /\ aborted' = TRUE
    /\ proc' = AbortHandler
    /\ UNCHANGED <<execVars, files, approvals, turn>>

-----------------------------------------------------------------------------
Settle(status) ==
    /\ heal' = [heal EXCEPT !.status = status]
    /\ pc' = "done"
    /\ UNCHANGED <<job, dag, order, at, results, run, options>>

\* externalPostPlanning leaves validation out when the run was interrupted.
Validate ==
    /\ pc = "validate"
    /\ IF aborted THEN Settle("skipped")
       ELSE pc' = "heal" /\ UNCHANGED <<job, dag, order, at, results, run, heal, options>>
    /\ UNCHANGED sandboxVars

EarlySuccess == heal.attempts = 0 /\ run.status = "SUCCESS"
Passed == \/ run.status = "SUCCESS"
          \/ run.status = "SKIPPED" /\ classifyExecutionFailures(run) = {}
Attempts == IF job.repairs THEN (IF MaxHealingAttempts > 10 THEN 10 ELSE MaxHealingAttempts)
            ELSE MaxHealingAttempts

HealPassed ==
    /\ pc = "heal" /\ (EarlySuccess \/ (~aborted /\ Passed))
    /\ Settle(IF heal.attempts > 0 THEN "HEALED" ELSE "VALIDATED")
    /\ UNCHANGED sandboxVars

HealAborted ==
    /\ pc = "heal" /\ ~EarlySuccess /\ aborted
    /\ Settle("FAILED")
    /\ UNCHANGED sandboxVars

AtFailure == pc = "heal" /\ ~aborted /\ ~Passed

RequestDecision ==
    /\ AtFailure /\ decisionFailures(dag, run) # {}
    /\ Settle("NEEDS_DECISION")
    /\ UNCHANGED sandboxVars

MayHeal == AtFailure /\ decisionFailures(dag, run) = {}
Healable ==
    \/ job.repairs
    \/ /\ rootActionableFailures(run) # {}
       /\ \A n \in rootActionableFailures(run) : isRetryableFailure(run, n)

GiveUp ==
    /\ MayHeal /\ (~Healable \/ heal.attempts >= Attempts)
    /\ Settle("FAILED")
    /\ UNCHANGED sandboxVars

OutOfIterations ==
    /\ MayHeal /\ Healable /\ heal.attempts < Attempts /\ ~CanConsumeIteration
    /\ turn' = GraceGranted
    /\ Settle("FAILED")
    /\ UNCHANGED <<files, approvals, proc, aborted>>

BeginAttempt ==
    /\ MayHeal /\ Healable /\ heal.attempts < Attempts /\ CanConsumeIteration
    /\ turn' = IterationConsumed
    /\ UNCHANGED <<files, approvals, proc, aborted>>

Retry ==
    /\ BeginAttempt /\ ~job.repairs
    /\ heal' = [heal EXCEPT !.attempts = @ + 1]
    /\ options' = healingOptions(job.options, run, rootActionableFailures(run))
    /\ pc' = "start"
    /\ UNCHANGED <<job, dag, order, at, results, run>>

AskRepair ==
    /\ BeginAttempt /\ job.repairs
    /\ heal' = [heal EXCEPT !.attempts = @ + 1]
    /\ pc' = "repair"
    /\ UNCHANGED <<job, dag, order, at, results, run, options>>

NoProposal ==
    /\ pc = "repair"
    /\ Settle("FAILED")
    /\ UNCHANGED sandboxVars

\* The repair agent registers the approval of the path it proposes; one that
\* is injected through the dependencies may not.
Propose ==
    /\ pc = "repair"
    /\ \E t \in Ids(dag), registers \in BOOLEAN :
         /\ approvals' = IF registers THEN approvals \cup {t} ELSE approvals
         /\ heal' = [heal EXCEPT !.patch = t]
    /\ pc' = "apply"
    /\ UNCHANGED <<job, dag, order, at, results, run, options, files, proc, turn, aborted>>

Patch == [kind |-> "PROPOSE_PATCH", target |-> heal.patch, path |-> "safe",
          flags |-> {}, shell |-> FALSE]

ApplyRepair ==
    /\ pc = "apply" /\ operate(Patch) = Succeeded
    /\ files' = files \cup {heal.patch}
    /\ pc' = "start"
    /\ UNCHANGED <<job, dag, order, at, results, run, heal, options, approvals, proc, turn, aborted>>

\* writeFileSync creates no directory, and nothing catches what it throws.
ApplyThrows ==
    /\ pc = "apply" /\ operate(Patch) = Succeeded
    /\ pc' = "threw"
    /\ UNCHANGED <<job, dag, order, at, results, run, heal, options, sandboxVars>>

NotApplied ==
    /\ pc = "apply" /\ operate(Patch) # Succeeded
    /\ Settle(IF operate(Patch) = NeedsApproval THEN "NEEDS_DECISION" ELSE "FAILED")
    /\ UNCHANGED sandboxVars

-----------------------------------------------------------------------------
Step ==
    \/ Review \/ Compile
    \/ StartInvalid \/ Start \/ EndExecution \/ StopAborted
    \/ SkipBlocked \/ SimulateNode \/ RunWithoutTool \/ CallTool \/ ToolRefuses \/ Operate \/ EndCommand
    \/ Validate \/ HealPassed \/ HealAborted \/ RequestDecision \/ GiveUp
    \/ OutOfIterations \/ Retry \/ AskRepair \/ NoProposal \/ Propose
    \/ ApplyRepair \/ ApplyThrows \/ NotApplied

Next == Step \/ Timer \/ Child \/ Abort

Spec == Init /\ [][Next]_vars

\* The code's own steps are taken, and a child that is killed or left alone
\* ends some time; nobody has to interrupt.
FairSpec == Spec /\ WF_vars(Step) /\ WF_vars(Child)

-----------------------------------------------------------------------------
Statuses == {"SUCCESS", "FAILED", "SKIPPED", "RETRIED"}

TypeOK ==
    /\ job \in Jobs
    /\ \A n \in DOMAIN results : results[n].status \in Statuses
    /\ run.status \in {"none", "SUCCESS", "FAILED", "PARTIAL", "SKIPPED"}
    /\ heal.attempts \in 0 .. MaxHealingAttempts
    /\ turn.tools \in 0 .. MaxToolCalls /\ turn.iterations \in 0 .. MaxIterations

(***************************************************************************)
(* A node is only executed, in the sandbox and in the simulator, when      *)
(* everything it depends on has completed: the order of topologicalNodes   *)
(* and the blocking of failed and skipped nodes together.                  *)
(***************************************************************************)
Sound(res) ==
    \A n \in DOMAIN res \ {WholeDag} :
        res[n].status # "SKIPPED" =>
            \A d \in dependencyMap(dag)[n] : d \in DOMAIN res /\ Completed(res[d])

DependenciesCompleted == Sound(results) /\ Sound(run.results)

(***************************************************************************)
(* When the healing loop reports VALIDATED or HEALED, every node of the    *)
(* DAG has completed in the last execution: every task and its validation. *)
(***************************************************************************)
ValidatedMeansDone ==
    heal.status \in {"VALIDATED", "HEALED"} =>
        \A id \in Ids(dag) : id \in DOMAIN run.results /\ Completed(run.results[id])

(***************************************************************************)
(* The check the compiler makes of its own DAG (assertValidCompiledDag)    *)
(* never fails: a plan it does not refuse compiles to a valid DAG.         *)
(***************************************************************************)
CompilerAgreesWithItself == pc # "miscompiled"

(***************************************************************************)
(* Together: what is executed is the plan, as compiled (dagCompiler.ts)    *)
(* and in its order (sandboxExecutor.ts, executorSimulator.ts).            *)
(***************************************************************************)
ExecutionFollowsPlan == TypeOK /\ CompilerAgreesWithItself /\ DependenciesCompleted

\* No file is written and no command is started.
NoEffect == files' = files /\ (proc'.st = "running" => proc.st = "running")

(***************************************************************************)
(* After an interrupt no file is written and no command is started, though *)
(* the interrupt may fall between the executor's check and the sandbox's.  *)
(***************************************************************************)
NothingAfterAbort == [][aborted => NoEffect]_vars

(***************************************************************************)
(* Once an execution was denied something, only a human can go on: nothing *)
(* is written and no command runs in what remains of the job.              *)
(***************************************************************************)
WasDenied == \E n \in DOMAIN run.results : run.results[n].code = "PERMISSION_DENIED"

NoEffectAfterDenial == [][WasDenied => NoEffect]_vars

(***************************************************************************)
(* Every job comes to an end: the healing loop is bounded, an interrupt or *)
(* a timeout frees the executor of its command.                            *)
(***************************************************************************)
JobEnds == <>Finished
=============================================================================
