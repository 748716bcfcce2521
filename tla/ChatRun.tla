------------------------------- MODULE ChatRun -------------------------------
(***************************************************************************)
(* One chat message from the API to its answer                             *)
(* (src/orchestration/chatRunner.ts, externalPostPlanning.ts).             *)
(*                                                                         *)
(* The work of a run (planning, review, compilation, execution,            *)
(* validation, synthesis) is all done while the stored run is still in     *)
(* CHAT_RECEIVED.  Its outcome decides a script of phases, and only then   *)
(* does the run walk through them, one stored transition at a time.        *)
(* Meanwhile clients interrupt and steer it through the registry of        *)
(* RunControl, and a timer may expire.                                     *)
(*                                                                         *)
(* Each step of the work is one action whose result is any result that     *)
(* component can return; an aborted provider call comes back as a blocker  *)
(* or a fallback, never as an exception.  The validation and healing loop  *)
(* (validationHealing.ts) takes a step per round.  Prompts, plans, costs   *)
(* and the payloads of events are left out.                                *)
(***************************************************************************)
EXTENDS RunControl, Integers

CONSTANTS
  MayTimeOut,          \* the runs whose timer may expire
  MayThrow,            \* the runs whose plan may have a cyclic dependency
  maxHealingAttempts,  \* as configured, before it is clamped
  maxIterations        \* of the turn budget

ASSUME ChatRunAssumption ==
  /\ MayTimeOut \subseteq Runs
  /\ MayThrow \subseteq Runs
  /\ maxHealingAttempts \in Int
  /\ maxIterations \in Nat \ {0}

VARIABLES
  conversation,  \* where each run is filed: the conversation or its child
  pc,            \* how far runOrchestratedChatRun got
  verdict,       \* what the crucible said of the plan
  execution,     \* the status of the last execution of the DAG
  attempts,      \* the rounds of repair so far
  script,        \* the phases the stored run has still to walk through
  answer,        \* the status of the synthesis
  timedOut,
  thrown         \* what made the inner function throw

outcomeVars == <<verdict, execution, attempts>>

chatVars == <<conversation, pc, outcomeVars, script, answer, timedOut, thrown>>

vars == <<phase, known, controlVars, requestVars, chatVars>>

\* runLivePlanner: a plan, or the code of its blocker.
LivePlannerResult == {"plan", "PLANNER_INVALID", "BUDGET_DENIED", "PROVIDER_ERROR"}

\* runLiveSkeptic
LiveSkepticResult == {"review", "blocked"}

\* arbitratePlanWithCrucible
CrucibleVerdict == {"ACCEPTED", "NEEDS_REVISION", "ESCALATED", "BLOCKED"}

\* dagStatus; PARTIAL and SKIPPED with failures are treated like FAILED.
DagStatus == {"SUCCESS", "SKIPPED", "FAILED"}

\* A DAG exists only for an accepted plan.
compiled(r) == verdict[r] = "ACCEPTED"

\* boundedLiveAttempts
boundedLiveAttempts ==
  IF maxHealingAttempts < 1 THEN 1
  ELSE IF maxHealingAttempts > 10 THEN 10 ELSE maxHealingAttempts

\* The steps that do the work, in order.
Work == {"prepare", "plan", "review", "compile", "execute", "validate",
         "repair", "synthesize"}

\* Between setTimeout and the return of the inner function, whose result the
\* outer one takes before the event loop can run another timer.
TimerArmed(r) == pc[r] \in Work \cup {"create", "register", "replay"}

Ended(r) == pc[r] \in {"returned", "rejected"}

Status == {"none", "VALIDATED", "HEALED", "SKIPPED", "BLOCKED", "NEEDS_DECISION", "FAILED"}

\* A way to get this code wrong: the walk leaves the crucible out.
ForgetCrucible ==
  << "TRIAGE", "CONTEXT_BUILDING", "PLANNING", "SKEPTIC_REVIEW", "DAG_COMPILATION",
     "DAG_COMPILATION", "EXECUTING", "VALIDATING" >>

\* EXTERNAL_PREFIX_PHASES
ExternalPrefixPhases ==
  << "TRIAGE", "CONTEXT_BUILDING", "PLANNING", "SKEPTIC_REVIEW", "CRUCIBLE",
     "DAG_COMPILATION", "EXECUTING", "VALIDATING" >>

\* The first n phases of the walk, then how it ends.
Prefix(n) == SubSeq(ExternalPrefixPhases, 1, n)

(***************************************************************************)
(* Ways to get this code wrong.                                            *)
(***************************************************************************)
\* Nobody looks for an interrupt after the synthesis.
DoneAnyway(r) ==
  /\ pc[r] = "synthesize"
  /\ pc' = [pc EXCEPT ![r] = "replay"]
  /\ script' = [script EXCEPT ![r] = ExternalPrefixPhases \o <<"SYNTHESIZING", "DONE">>]
  /\ answer' = [answer EXCEPT ![r] = "VALIDATED"]
  /\ UNCHANGED <<phase, known, controlVars, requestVars, conversation, outcomeVars, timedOut,
                 thrown>>

\* The answer of a run that needs a decision is taken for a synthesis.
CallItHealed(r, phases, status) ==
  /\ pc' = [pc EXCEPT ![r] = "replay"]
  /\ script' = [script EXCEPT ![r] = phases]
  /\ answer' = [answer EXCEPT ![r] = IF status = "NEEDS_DECISION" THEN "HEALED" ELSE status]

\* An exception without a timeout is swallowed.
SwallowThrow(r) ==
  /\ ~timedOut[r]
  /\ pc[r] = "resolved"
  /\ pc' = [pc EXCEPT ![r] = "returned"]
  /\ registry' = [registry EXCEPT ![r] = "none"]
  /\ UNCHANGED <<phase, known, control, requestVars, conversation, outcomeVars, script,
                 answer, timedOut, thrown>>

(***************************************************************************)
(* The work of run r is over: the answer is decided, and so are the phases *)
(* the stored run will walk through.                                       *)
(***************************************************************************)
Decide(r, phases, status) ==
  /\ pc' = [pc EXCEPT ![r] = "replay"]
  /\ script' = [script EXCEPT ![r] = phases]
  /\ answer' = [answer EXCEPT ![r] = status]

\* On to the next step of the work.
GoOn(r, step) ==
  /\ pc' = [pc EXCEPT ![r] = step]
  /\ UNCHANGED <<script, answer>>

(***************************************************************************)
(* runOrchestratedChatRun: the outer function arms the timer and creates   *)
(* the control state.  (It also registers it under the shared key          *)
(* `timeout-pending', which nobody looks up; the cleanup is what counts.)  *)
(***************************************************************************)
Start(r) ==
  /\ pc[r] = "idle"
  /\ pc' = [pc EXCEPT ![r] = "create"]
  /\ registry' = cleanupRunControlStates
  /\ UNCHANGED <<phase, known, control, requestVars, conversation, outcomeVars, script,
                 answer, timedOut, thrown>>

CreateRun(r) ==
  /\ pc[r] = "create"
  /\ pc' = [pc EXCEPT ![r] = "register"]
  /\ known' = Append(known, r)
  /\ UNCHANGED <<phase, controlVars, requestVars, conversation, outcomeVars, script, answer,
                 timedOut, thrown>>

\* registerRunControl(run.id, outerRunControl), after RUN_CREATED is stored.
Register(r) ==
  /\ pc[r] = "register"
  /\ pc' = [pc EXCEPT ![r] = "prepare"]
  /\ registry' = registered(r, "own")
  /\ control' = [control EXCEPT ![r]["own"] = touch(@)]
  /\ UNCHANGED <<phase, known, requestVars, conversation, outcomeVars, script, answer,
                 timedOut, thrown>>

(***************************************************************************)
(* Context compression files the run under a child conversation; hooks and *)
(* the preprocessor leave no trace here.                                   *)
(***************************************************************************)
Prepare(r) ==
  /\ pc[r] = "prepare"
  /\ pc' = [pc EXCEPT ![r] = "plan"]
  /\ \E c \in {"parent", "child"} : conversation' = [conversation EXCEPT ![r] = c]
  /\ UNCHANGED <<phase, known, controlVars, requestVars, outcomeVars, script, answer,
                 timedOut, thrown>>

resolvePlannerBlocker(r, code) ==
  IF code = "PLANNER_INVALID"
  THEN Decide(r, Prefix(2) \o <<"FAILED">>, "FAILED")
  ELSE Decide(r, Prefix(2) \o <<"NEEDS_DECISION">>, "NEEDS_DECISION")

Plan(r) ==
  /\ pc[r] = "plan"
  /\ \E result \in LivePlannerResult :
       IF result = "plan" THEN GoOn(r, "review") ELSE resolvePlannerBlocker(r, result)
  /\ UNCHANGED <<phase, known, controlVars, requestVars, conversation, outcomeVars,
                 timedOut, thrown>>

resolveSkepticBlocker(r) == Decide(r, Prefix(4) \o <<"FAILED">>, "FAILED")

Review(r) ==
  /\ pc[r] = "review"
  /\ \E result \in LiveSkepticResult :
       IF result = "review" THEN GoOn(r, "compile") ELSE resolveSkepticBlocker(r)
  /\ UNCHANGED <<phase, known, controlVars, requestVars, conversation, outcomeVars,
                 timedOut, thrown>>

resolveCodeEditWithoutSandbox(r) ==
  Decide(r, Prefix(6) \o <<"NEEDS_DECISION">>, "SKIPPED")

(***************************************************************************)
(* The crucible's verdict and compileAcceptedPlanToDag, which throws when  *)
(* the accepted plan is cyclic: nothing before it looks for cycles.        *)
(***************************************************************************)
Compile(r) ==
  /\ pc[r] = "compile"
  /\ \/ /\ \E v \in CrucibleVerdict : verdict' = [verdict EXCEPT ![r] = v]
        /\ GoOn(r, "execute")
        /\ UNCHANGED <<registry, thrown>>
     \/ /\ verdict' = [verdict EXCEPT ![r] = "ACCEPTED"]
        /\ resolveCodeEditWithoutSandbox(r)
        /\ UNCHANGED <<registry, thrown>>
     \/ /\ r \in MayThrow
        /\ verdict' = [verdict EXCEPT ![r] = "ACCEPTED"]
        /\ thrown' = [thrown EXCEPT ![r] = "compile"]
        /\ GoOn(r, "throwing")
        /\ clearRunControl(r)
  /\ UNCHANGED <<phase, known, control, requestVars, conversation, execution,
                 attempts, timedOut>>

\* A node of the DAG runs with the next steering message, unless aborted.
RunNode(r) ==
  /\ pc[r] \in {"execute", "repair"}
  /\ compiled(r)
  /\ ~isInterrupted(r)
  /\ drainSteer(r)
  /\ UNCHANGED <<phase, known, registry, requestVars, chatVars>>

\* The execution phase is over; abortAfterExecution.
Execute(r) ==
  /\ pc[r] = "execute"
  /\ IF compiled(r)
     THEN \E status \in DagStatus : execution' = [execution EXCEPT ![r] = status]
     ELSE UNCHANGED execution
  /\ IF isInterrupted(r) THEN Decide(r, Prefix(7) \o <<"ABORTED">>, "FAILED")
                         ELSE GoOn(r, "validate")
  /\ UNCHANGED <<phase, known, controlVars, requestVars, conversation, verdict,
                 attempts, timedOut, thrown>>

(***************************************************************************)
(* The healing loop returns status: abortAfterValidation, then synthesis   *)
(* for VALIDATED and HEALED (shouldProceedToSynthesis), else the end.      *)
(***************************************************************************)
Healed(r, status) ==
  IF isInterrupted(r)
  THEN Decide(r, Prefix(8) \o <<"ABORTED">>, "FAILED")
  ELSE IF status \in {"VALIDATED", "HEALED"}
  THEN GoOn(r, "synthesize")
  ELSE Decide(r, Prefix(8) \o <<status>>, "FAILED")

\* There is no DAG to validate, or nothing in it to repair.
passed(r) == compiled(r) => execution[r] \in {"SUCCESS", "SKIPPED"}

mayRepair(r) == attempts[r] < boundedLiveAttempts /\ attempts[r] < maxIterations

(***************************************************************************)
(* One look of healWithLiveRepair at the current execution: it passed, it  *)
(* needs a decision, it cannot be repaired any more (aborted, too many     *)
(* rounds, turn budget spent), or a round of repair starts.                *)
(***************************************************************************)
Validate(r) ==
  /\ pc[r] = "validate"
  /\ \/ /\ passed(r)
        /\ Healed(r, IF attempts[r] > 0 THEN "HEALED" ELSE "VALIDATED")
        /\ UNCHANGED attempts
     \/ /\ ~passed(r)
        /\ Healed(r, "NEEDS_DECISION")
        /\ UNCHANGED attempts
     \/ /\ ~passed(r)
        /\ isInterrupted(r) \/ ~mayRepair(r)
        /\ Healed(r, "FAILED")
        /\ UNCHANGED attempts
     \/ /\ ~passed(r)
        /\ ~isInterrupted(r) /\ mayRepair(r)
        /\ attempts' = [attempts EXCEPT ![r] = @ + 1]
        /\ GoOn(r, "repair")
  /\ UNCHANGED <<phase, known, controlVars, requestVars, conversation, verdict,
                 execution, timedOut, thrown>>

(***************************************************************************)
(* The repair agent proposed nothing, its patch was not applied, or it was *)
(* and the DAG has been executed again.                                    *)
(***************************************************************************)
Repair(r) ==
  /\ pc[r] = "repair"
  /\ \/ /\ \E status \in {"FAILED", "NEEDS_DECISION"} : Healed(r, status)
        /\ UNCHANGED execution
     \/ /\ \E status \in DagStatus : execution' = [execution EXCEPT ![r] = status]
        /\ GoOn(r, "validate")
  /\ UNCHANGED <<phase, known, controlVars, requestVars, conversation, verdict,
                 attempts, timedOut, thrown>>

synthesisStatus(r) ==
  CASE verdict[r] = "ACCEPTED" -> IF attempts[r] > 0 THEN "HEALED" ELSE "VALIDATED"
    [] verdict[r] = "BLOCKED"  -> "BLOCKED"
    [] OTHER                   -> "NEEDS_DECISION"

\* The synthesis phase is over; abortAfterSynthesis.
Synthesize(r) ==
  /\ pc[r] = "synthesize"
  /\ Decide(r, Prefix(8) \o <<"SYNTHESIZING", IF isInterrupted(r) THEN "ABORTED" ELSE "DONE">>,
            synthesisStatus(r))
  /\ UNCHANGED <<phase, known, controlVars, requestVars, conversation, outcomeVars,
                 timedOut, thrown>>

(***************************************************************************)
(* transitionRun, for the next phase of the script.  No caller of the      *)
(* script passes a decision, and none catches what it throws.              *)
(* RunStateMachine has the detail of one call.                             *)
(***************************************************************************)
Advance(r) ==
  /\ pc[r] = "replay"
  /\ script[r] # << >>
  /\ IF validateTransition(phase[r], Head(script[r]), FALSE)
     THEN /\ phase' = [phase EXCEPT ![r] = Head(script[r])]
          /\ script' = [script EXCEPT ![r] = Tail(@)]
          /\ UNCHANGED <<pc, registry, answer, thrown>>
     ELSE /\ thrown' = [thrown EXCEPT ![r] = "transition"]
          /\ clearRunControl(r)
          /\ GoOn(r, "throwing")
          /\ UNCHANGED phase
  /\ UNCHANGED <<known, control, requestVars, conversation, outcomeVars, timedOut>>

\* The inner function clears the registry entry and returns.
Resolve(r) ==
  /\ pc[r] = "replay"
  /\ script[r] = << >>
  /\ clearRunControl(r)
  /\ GoOn(r, "resolved")
  /\ UNCHANGED <<phase, known, control, requestVars, conversation, outcomeVars, timedOut,
                 thrown>>

\* The timer: it marks the run and aborts its control state.
TimeOut(r) ==
  /\ r \in MayTimeOut
  /\ TimerArmed(r)
  /\ ~timedOut[r]
  /\ timedOut' = [timedOut EXCEPT ![r] = TRUE]
  /\ control' = [control EXCEPT ![r]["own"].aborted = TRUE]
  /\ UNCHANGED <<phase, known, registry, requestVars, conversation, pc, outcomeVars, script,
                 answer, thrown>>

\* return result, or rethrow: the finally block clears the registry entry.
Return(r) ==
  /\ ~timedOut[r]
  /\ \/ pc[r] = "resolved" /\ pc' = [pc EXCEPT ![r] = "returned"]
     \/ pc[r] = "throwing" /\ pc' = [pc EXCEPT ![r] = "rejected"]
  /\ clearRunControl(r)
  /\ UNCHANGED <<phase, known, control, requestVars, conversation, outcomeVars, script,
                 answer, timedOut, thrown>>

(***************************************************************************)
(* The run a timeout is charged to: the run itself when the inner function *)
(* returned it, the newest run of the conversation when it threw.          *)
(***************************************************************************)
listRuns == SelectSeq(known, LAMBDA r : conversation[r] = "parent")

chargedRuns(r) ==
  IF pc[r] = "resolved" THEN {r}
  ELSE IF listRuns = << >> THEN {} ELSE {listRuns[Len(listRuns)]}

(***************************************************************************)
(* orchestrationTimeoutResult: a best-effort transition to FAILED, with a  *)
(* decision, and an answer FAILED whatever became of it.                   *)
(***************************************************************************)
OrchestrationTimeoutResult(r) ==
  /\ timedOut[r]
  /\ pc[r] \in {"resolved", "throwing"}
  /\ phase' = [q \in Runs |->
                 IF q \in chargedRuns(r) /\ validateTransition(phase[q], "FAILED", TRUE)
                 THEN "FAILED" ELSE phase[q]]
  /\ IF chargedRuns(r) = {}
     THEN GoOn(r, "rejected")
     ELSE /\ pc' = [pc EXCEPT ![r] = "returned"]
          /\ answer' = [answer EXCEPT ![r] = "FAILED"]
          /\ UNCHANGED script
  /\ clearRunControl(r)
  /\ UNCHANGED <<known, control, requestVars, conversation, outcomeVars, timedOut, thrown>>

Init ==
  /\ phase = [r \in Runs |-> "CHAT_RECEIVED"]
  /\ known = << >>
  /\ RunControlInit
  /\ conversation = [r \in Runs |-> "parent"]
  /\ pc = [r \in Runs |-> "idle"]
  /\ verdict = [r \in Runs |-> "none"]
  /\ execution = [r \in Runs |-> "none"]
  /\ attempts = [r \in Runs |-> 0]
  /\ script = [r \in Runs |-> << >>]
  /\ answer = [r \in Runs |-> "none"]
  /\ timedOut = [r \in Runs |-> FALSE]
  /\ thrown = [r \in Runs |-> "none"]

\* The steps of the function itself, which the event loop always resumes.
Step(r) ==
  \/ Start(r) \/ CreateRun(r) \/ Register(r) \/ Prepare(r)
  \/ Plan(r) \/ Review(r) \/ Compile(r) \/ Execute(r) \/ Validate(r)
  \/ Repair(r)  \/ Synthesize(r) \/ Advance(r) \/ Resolve(r) \/ Return(r)
  \/ OrchestrationTimeoutResult(r)

Request(q) ==
  (ReadRun(q) \/ interruptRun(q) \/ steerRun(q)) /\ UNCHANGED chatVars

Next ==
  \/ \E r \in Runs : Step(r) \/ RunNode(r) \/ TimeOut(r)
  \/ \E r \in Runs : OutliveTimeToLive(r) /\ UNCHANGED chatVars
  \/ \E q \in Requests : Request(q)

Spec == Init /\ [][Next]_vars

FairSpec == Spec /\ \A r \in Runs : WF_vars(Step(r))
------------------------------------------------------------------------------
TypeOK ==
  /\ RunControlTypeOK
  /\ phase \in [Runs -> RunPhase]
  /\ \A i, j \in DOMAIN known : known[i] = known[j] => i = j
  /\ conversation \in [Runs -> {"parent", "child"}]
  /\ pc \in [Runs -> Work \cup {"idle", "create", "register", "replay", "resolved",
                                "throwing", "returned", "rejected"}]
  /\ verdict \in [Runs -> CrucibleVerdict \cup {"none"}]
  /\ execution \in [Runs -> DagStatus \cup {"none"}]
  /\ attempts \in [Runs -> 0 .. boundedLiveAttempts]
  /\ script \in [Runs -> Seq(RunPhase)]
  /\ answer \in [Runs -> Status]
  /\ timedOut \in [Runs -> BOOLEAN]
  /\ thrown \in [Runs -> {"none", "compile", "transition"}]

(***************************************************************************)
(* Every script the runner decides on is a path of the run state machine:  *)
(* no transition of a walk is refused, whatever the work came to, whenever *)
(* the run is interrupted and whenever its timer expires.                  *)
(***************************************************************************)
ScriptsAreAllowed == \A r \in Runs : thrown[r] # "transition"

(***************************************************************************)
(* A run that comes back without a throw is settled: its stored phase is   *)
(* one a client stops waiting at, and it is not left half way its walk.    *)
(***************************************************************************)
ReturnedRunIsSettled ==
  \A r \in Runs : pc[r] \in {"resolved", "returned"} /\ thrown[r] = "none" =>
                    isTerminalRunPhase(phase[r])

(***************************************************************************)
(* Together: whatever the work came to, the stored run walks to its end    *)
(* along allowed phases (advanceExternalPhases and the scripts it is       *)
(* given).                                                                 *)
(***************************************************************************)
WalkSettlesRun == TypeOK /\ ScriptsAreAllowed /\ ReturnedRunIsSettled

(***************************************************************************)
(* The answer the client reads and the stored phase tell the same story:   *)
(* a failed run never has a successful answer, a validated or healed       *)
(* answer belongs to a run that walked the whole way after its last        *)
(* execution went well, and a completed run is only called failed when its *)
(* timer expired.                                                          *)
(***************************************************************************)
AnswerAgreesWithRun ==
  \A r \in Runs : pc[r] = "returned" /\ thrown[r] = "none" =>
    /\ phase[r] = "FAILED" => answer[r] = "FAILED"
    /\ answer[r] \in {"VALIDATED", "HEALED"} =>
         phase[r] \in {"DONE", "ABORTED"} /\ execution[r] \in {"SUCCESS", "SKIPPED"}
    /\ phase[r] = "DONE" /\ answer[r] = "FAILED" => timedOut[r]

(***************************************************************************)
(* Once the control state a working run watches is interrupted, the run    *)
(* can no longer complete: an interrupt that gets there is never lost      *)
(* between two of the points where the runner looks.                       *)
(***************************************************************************)
InterruptStopsRun ==
  \A r \in Runs : [](isInterrupted(r) /\ pc[r] \in Work => [](phase[r] # "DONE"))

\* Every chat message gets an answer or an error: the walk always ends.
EveryRunEnds == \A r \in Runs : <>Ended(r)

(***************************************************************************)
(* A chat that fails after its run was created leaves the run in a phase   *)
(* its stream ends at (the comment on the streaming branch of POST         *)
(* /api/chat).  The code does not do this.                                 *)
(***************************************************************************)
FailureIsStored ==
  \A r \in Runs : pc[r] = "rejected" => isTerminalRunPhase(phase[r])
==============================================================================
