---------------------------- MODULE TaskPipeline ----------------------------
(***************************************************************************)
(* The task pipeline and what surrounds it: the routes and the manager     *)
(* that move a task (api/routes/tasks.ts, thalamus/router.ts), the workers *)
(* of its states (workers/workers.ts, adapters/providers.ts), the timer    *)
(* that checks in on a conversation (proactive/proactiveAgent.ts) and the  *)
(* adapters that open tickets and call webhooks (workflows/index.ts).      *)
(***************************************************************************)
EXTENDS Naturals, Sequences, FiniteSets

CONSTANTS
    Nobody,       \* no task
    MaxEvents,    \* events of a task explored
    MaxPipelineTime,
    LabelTtl,     \* age from which a cached label mapping is fetched again
    Pipelines     \* the situations explored

VARIABLES
    line,         \* the name of the situation
    task,         \* the task in the repository, or Nobody
    requests,     \* request |-> what it has under way
    telemetry,    \* counts of model calls, validations, healings and syntheses
    heard,        \* events the subscribers of the bus were given
    checkIns,     \* check-ins by the proactive agent: the state of each
    labels,       \* the label mapping fetched last and its time
    sent,         \* requests of the workflow adapters that left the process
    now

pipeVars == <<line, task, requests, telemetry, heard, checkIns, labels, sent, now>>
Pipeline == Pipelines[line]

(***************************************************************************)
(* States of a task.                                                       *)
(***************************************************************************)
VALID_TRANSITIONS == [
    INTAKE |-> {"PLAN"}, PLAN |-> {"FANOUT"}, FANOUT |-> {"VALIDATION"}, VALIDATION |-> {"HEALING", "SYNTHESIS"},
    HEALING |-> {"VALIDATION"}, SYNTHESIS |-> {"HANDOFF"}, HANDOFF |-> {}, PAUSED |-> {"INTAKE"}, ABORTED |-> {}]
TaskEnded == {"HANDOFF", "ABORTED"}
isValidTransition(from, to) == to \in VALID_TRANSITIONS[from]
Moved(from, to) == [topic |-> "task.state_transition", from |-> from, to |-> to]
Told(topic) == [topic |-> topic, from |-> "none", to |-> "none"]

(***************************************************************************)
(* The workers.  A description that says it is broken fails until it is    *)
(* healed, one that says the fault is permanent fails for ever.            *)
(***************************************************************************)
executeSLM(description) == IF description \in {"broken", "permanent"} THEN "failed" ELSE "completed"
healingRetryDescription(description) == IF description = "broken" THEN "healed" ELSE description
validateResults(subtasks) == \A n \in DOMAIN subtasks : subtasks[n] # "failed"
createSubtasks(count) == [n \in 1..count |-> IF n = 1 THEN "completed" ELSE "pending"]
reexecHealed(subtasks, description) ==
    [n \in DOMAIN subtasks |-> IF subtasks[n] = "failed" THEN executeSLM(healingRetryDescription(description)) ELSE subtasks[n]]

\* What a worker makes of the task it was given: the task with its events, and the telemetry it records.
Worked(t, to, events, change) ==
    [t EXCEPT !.state = to, !.events = @ \o events, !.subtasks = change.subtasks, !.passed = change.passed]
With(t) == [subtasks |-> t.subtasks, passed |-> t.passed]
runIntake(t) ==
    Worked(t, "PLAN", <<Moved(t.state, "PLAN"), Told("subtask.completed")>>, [With(t) EXCEPT !.subtasks = createSubtasks(2)])
runFlagshipPlanning(t) ==
    Worked(t, "FANOUT", <<Told("subtask.completed"), Moved(t.state, "FANOUT")>>, [With(t) EXCEPT !.subtasks = createSubtasks(3)])
runSLMExecution(t) ==
    Worked(t, "VALIDATION", <<Moved(t.state, "VALIDATION")>>,
           [With(t) EXCEPT !.subtasks = [n \in DOMAIN t.subtasks |-> IF t.subtasks[n] = "completed" THEN "completed" ELSE executeSLM(t.about)]])
runSandboxValidation(t) ==
    LET passed == validateResults(t.subtasks)
        to == IF passed THEN "SYNTHESIS" ELSE "HEALING" IN
    Worked(t, to, <<Told(IF passed THEN "validation.passed" ELSE "validation.failed"), Moved(t.state, to)>>, [With(t) EXCEPT !.passed = passed])
runHealingLoop(t) ==
    LET rerun == reexecHealed(t.subtasks, t.about)
        passed == validateResults(rerun) IN
    Worked(t, IF passed THEN "VALIDATION" ELSE "ABORTED",
           IF passed THEN <<Told("healing.applied"), Moved(t.state, "VALIDATION"), Told("healing.applied")>>
           ELSE <<Told("healing.applied"), Told("healing.failed"), Moved(t.state, "ABORTED")>>,
           [subtasks |-> rerun, passed |-> passed])
runFinalSynthesis(t) == Worked(t, "HANDOFF", <<Told("synthesis.completed"), Moved(t.state, "HANDOFF")>>, With(t))
advancePipeline(t) ==
    CASE t.state = "INTAKE" -> runIntake(t)
      [] t.state = "PLAN" -> runFlagshipPlanning(t)
      [] t.state = "FANOUT" -> runSLMExecution(t)
      [] t.state = "VALIDATION" -> runSandboxValidation(t)
      [] t.state = "HEALING" -> runHealingLoop(t)
      [] t.state = "SYNTHESIS" -> runFinalSynthesis(t)
      [] OTHER -> t
Recorded(t) ==
    [telemetry EXCEPT !.models = @ + (IF t.state = "FANOUT" THEN Cardinality({n \in DOMAIN t.subtasks : t.subtasks[n] # "completed"}) ELSE 0),
                      !.validations = @ + (IF t.state = "VALIDATION" THEN 1 ELSE 0),
                      !.healings = @ + (IF t.state = "HEALING" THEN 1 ELSE 0),
                      !.syntheses = @ + (IF t.state = "SYNTHESIS" THEN 1 ELSE 0)]

(***************************************************************************)
(* The routes: a request reads the task, checks it, and for a control      *)
(* reads it once more in the manager, which saves the changed copy.        *)
(***************************************************************************)
ControlTarget == [pause |-> "PAUSED", abort |-> "ABORTED", retry |-> "INTAKE"]
Respond(r, code) == requests' = [requests EXCEPT ![r] = [pc |-> "done", code |-> code]]
Rest == UNCHANGED <<line, checkIns, labels, sent, now>>

createTask(r) ==
    /\ requests[r].pc = "idle" /\ r.op = "create" /\ task = Nobody
    /\ task' = [state |-> "INTAKE", about |-> Pipeline.about, subtasks |-> <<>>, passed |-> FALSE, approved |-> FALSE, events |-> <<>>]
    /\ Respond(r, "201")
    /\ UNCHANGED <<telemetry, heard>> /\ Rest

\* The route's own look: retry only of a paused task, approve only of one handed over.
LookFirst(r) ==
    /\ requests[r].pc = "idle" /\ r.op \in {"pause", "abort", "retry", "approve"}
    /\ IF task = Nobody THEN Respond(r, "404")
       ELSE IF (r.op = "retry" /\ task.state # "PAUSED") \/ (r.op = "approve" /\ task.state # "HANDOFF") THEN Respond(r, "400")
       ELSE requests' = [requests EXCEPT ![r] = [pc |-> "get"]]
    /\ UNCHANGED <<task, telemetry, heard>> /\ Rest

getTask(r) ==
    /\ requests[r].pc = "get" \/ (requests[r].pc = "idle" /\ r.op = "advance")
    /\ IF task = Nobody THEN Respond(r, "500") ELSE requests' = [requests EXCEPT ![r] = [pc |-> "save", copy |-> task]]
    /\ UNCHANGED <<task, telemetry, heard>> /\ Rest

SaveMoved(r, allowed) ==
    LET t == requests[r].copy
        to == ControlTarget[r.op] IN
    /\ requests[r].pc = "save" /\ r.op \in DOMAIN ControlTarget
    /\ task' = IF allowed THEN [t EXCEPT !.state = to, !.events = Append(@, Moved(t.state, to))] ELSE task
    /\ Respond(r, IF allowed THEN "200" ELSE "400")
    /\ UNCHANGED <<telemetry, heard>> /\ Rest
Movable(from, to) == to \in {"PAUSED", "ABORTED"} \/ (from = "PAUSED" /\ to = "INTAKE") \/ isValidTransition(from, to)
\* A way to get this wrong: a task that has ended is not refused.
transitionFromAny(r) ==
    LET from == requests[r].copy.state
        to == ControlTarget[r.op] IN
    requests[r].pc = "save" /\ r.op \in DOMAIN ControlTarget /\ SaveMoved(r, from # to /\ Movable(from, to))
transition(r) ==
    LET from == requests[r].copy.state
        to == ControlTarget[r.op] IN
    requests[r].pc = "save" /\ r.op \in DOMAIN ControlTarget /\ SaveMoved(r, from # to /\ from \notin TaskEnded /\ Movable(from, to))

approve(r) ==
    LET t == requests[r].copy IN
    /\ requests[r].pc = "save" /\ r.op = "approve"
    /\ task' = IF t.state = "HANDOFF" THEN [t EXCEPT !.approved = TRUE, !.events = Append(@, Told("task.approved"))] ELSE task
    /\ Respond(r, IF t.state = "HANDOFF" THEN "200" ELSE "400")
    /\ UNCHANGED <<telemetry, heard>> /\ Rest

\* The subscribers hear of the step before it is saved; a control is never published.
advance(r) ==
    LET t == requests[r].copy
        after == advancePipeline(t) IN
    /\ requests[r].pc = "save" /\ r.op = "advance" /\ Len(after.events) <= MaxEvents
    /\ heard' = heard + Len(after.events) - Len(t.events)
    /\ telemetry' = Recorded(t)
    /\ task' = after
    /\ Respond(r, "200")
    /\ Rest
\* A client advances a task step by step.
AskAgain(r) ==
    /\ requests[r].pc = "done" /\ r.op = "advance" /\ task # Nobody /\ task.state \notin TaskEnded /\ Len(task.events) < MaxEvents
    /\ requests' = [requests EXCEPT ![r] = [pc |-> "idle"]]
    /\ UNCHANGED <<task, telemetry, heard>> /\ Rest

(***************************************************************************)
(* The proactive agent: every tick of its timer checks in on the first     *)
(* conversation, whether or not the last check-in has ended.  A run that   *)
(* throws, or that ends without a synthesis, leaves the message it wrote   *)
(* as it was.                                                              *)
(***************************************************************************)
Others == UNCHANGED <<line, task, requests, telemetry, heard, labels, sent>>
PipelineTick(c) ==
    /\ Pipeline.proactive /\ now < MaxPipelineTime /\ checkIns[c] = "none"
    /\ now' = now + 1
    /\ checkIns' = [checkIns EXCEPT ![c] = IF Pipeline.conversation THEN "created" ELSE "skipped"]
    /\ Others
triggerCheckIn(c, outcome) ==
    /\ checkIns[c] = "created"
    /\ checkIns' = [checkIns EXCEPT ![c] = CASE outcome = "synthesis" -> "assistant" [] outcome = "none" -> "unanswered" [] OTHER -> "thrown"]
    /\ UNCHANGED now /\ Others
CompleteUserMessage(c, stored) ==
    /\ checkIns[c] = "assistant"
    /\ checkIns' = [checkIns EXCEPT ![c] = IF stored THEN "completed" ELSE "thrown"]
    /\ UNCHANGED now /\ Others

(***************************************************************************)
(* The workflow adapters: nothing leaves with the network off or with an   *)
(* incomplete configuration; labels are looked up in a mapping of at most  *)
(* LabelTtl, and go out as they are when there is none.                    *)
(***************************************************************************)
WorkflowRest == UNCHANGED <<line, task, requests, telemetry, heard, checkIns>>
validateConfig(adapter) == Pipeline.config[adapter] = "complete"
FreshLabels == labels.known /\ now - labels.at < LabelTtl
\* The time of a mapping is the time its fetch was begun; a fetch that fails leaves the old mapping.
resolveLinearLabelIds(answer) ==
    /\ "linear" \in Pipeline.adapters /\ ~FreshLabels
    /\ labels' = IF validateConfig("linear") /\ answer = "ok" THEN [known |-> TRUE, at |-> now] ELSE labels
    /\ sent' = IF validateConfig("linear") THEN Append(sent, [to |-> "linear", what |-> "labels"]) ELSE sent
    /\ Len(sent) < 3
    /\ UNCHANGED now /\ WorkflowRest
resolveLinearLabelIdsFromCache == IF FreshLabels THEN "ids" ELSE "names"
buildCreateIssueRequest == [to |-> "linear", what |-> resolveLinearLabelIdsFromCache]
createIssue ==
    /\ "linear" \in Pipeline.adapters /\ Len(sent) < 3
    /\ sent' = IF validateConfig("linear") /\ Pipeline.network THEN Append(sent, buildCreateIssueRequest) ELSE sent
    /\ UNCHANGED <<labels, now>> /\ WorkflowRest
buildWebhookRequest == [to |-> "make", what |-> "payload"]
sendWorkflow ==
    /\ "make" \in Pipeline.adapters /\ Len(sent) < 3
    /\ sent' = IF validateConfig("make") /\ Pipeline.network THEN Append(sent, buildWebhookRequest) ELSE sent
    /\ UNCHANGED <<labels, now>> /\ WorkflowRest
LabelsAge == Pipeline.adapters # {} /\ now < MaxPipelineTime /\ now' = now + 1 /\ UNCHANGED <<labels, sent>> /\ WorkflowRest

PipeInit ==
    /\ line \in DOMAIN Pipelines
    /\ task = Nobody
    /\ requests = [r \in Pipeline.asks |-> [pc |-> "idle"]]
    /\ telemetry = [models |-> 0, validations |-> 0, healings |-> 0, syntheses |-> 0]
    /\ heard = 0
    /\ checkIns = [c \in Pipeline.checks |-> "none"]
    /\ labels = [known |-> FALSE, at |-> 0]
    /\ sent = <<>> /\ now = 0

PipeNext ==
    \/ \E r \in Pipeline.asks : createTask(r) \/ LookFirst(r) \/ getTask(r) \/ transition(r) \/ approve(r) \/ advance(r) \/ AskAgain(r)
    \/ \E c \in Pipeline.checks : \/ PipelineTick(c)
                                  \/ \E outcome \in {"synthesis", "none", "throws"} : triggerCheckIn(c, outcome)
                                  \/ \E stored \in BOOLEAN : CompleteUserMessage(c, stored)
    \/ \E answer \in {"ok", "failed"} : resolveLinearLabelIds(answer)
    \/ createIssue \/ sendWorkflow \/ LabelsAge

\* The moves among the events, and the state the first n events lead to.
Moves(events) == {i \in DOMAIN events : events[i].topic = "task.state_transition"}
StateAfter(events, n) ==
    LET before == {i \in Moves(events) : i <= n} IN
    IF before = {} THEN "INTAKE" ELSE events[CHOOSE i \in before : \A j \in before : j <= i].to

(***************************************************************************)
(* Whatever requests overlap, the log of a task tells one legal history    *)
(* that ends in its state: each recorded move starts where the last one    *)
(* ended and is one the pipeline or a control allows.  A task handed over  *)
(* has passed validation with every subtask completed, and only such a     *)
(* task is approved.                                                       *)
(***************************************************************************)
TaskLogIsPath ==
    task # Nobody =>
        /\ \A i \in Moves(task.events) :
            LET move == task.events[i] IN
            /\ move.from = StateAfter(task.events, i - 1)
            /\ move.from \notin TaskEnded
            /\ isValidTransition(move.from, move.to) \/ move.to \in {"PAUSED", "ABORTED"}
        /\ task.state = StateAfter(task.events, Len(task.events))
        /\ task.state \in {"SYNTHESIS", "HANDOFF"} => task.passed /\ \A n \in DOMAIN task.subtasks : task.subtasks[n] = "completed"
        /\ task.approved => task.state = "HANDOFF"
=============================================================================
