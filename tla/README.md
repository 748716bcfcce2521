# Formal models of Rector

Rector is a chat-first orchestration server: a message becomes a *run*, which is planned,
reviewed, compiled to a DAG, executed in a sandbox, validated, repaired and answered, while
clients follow it on a stream, interrupt it, steer it, or are asked for a decision. Around the
runs are settings, identities and quotas, an index of the code, memory, and a browser client. It
is one Node.js process; what makes it hard is not threads but `await`: between any two awaits of
one request another request may run.

This directory holds TLA+ models of the parts that carry that logic, TLC configurations that
check them on small instances, and TLAPS proofs of the results that matter most.
`PROJECT.json` maps every modelling definition to the lines it stands for, lists every component
of the system with what is left out of it, and every hazard with the properties that cover it.

## 1. Inventory

| component | state | operations | what is hard | what makes it correct |
|---|---|---|---|---|
| run state machine (`orchestration/runStateMachine.ts`, `protocol/phases.ts`) | phase, status, version, decision request of a run | `transitionRun`, `createDecisionRequest`, `abortRun`, `resumeFromDecision`, usage updates | read / validate / commit with retries, between concurrent callers | the log is one path of allowed edges ending at the stored phase; answers are true; a finished run stays finished |
| stores (`store/*.ts`) | runs, events, conversations, messages, search index | create, read, update, `commitRunTransition`, search | compare-and-swap, reads before a transaction, two statements for one message | a commit is conditional on the version validated; a search finds what is stored |
| run event stream (`api/server.ts`) | subscribers, buffered events, timers | persist, publish, subscribe, catch up, disconnect | events arriving during the catch-up read; teardown from three directions | prefix of the log, one `done` frame last, nothing leaks, every stream ends |
| run control (`orchestration/runControl.ts`) | map from run id to abort flag and steering queue | register, interrupt, steer, drain, clear, expiry | requests before registration and after expiry | an interrupt that reached a run stops it |
| chat orchestration (`chatRunner.ts`, `externalPostPlanning.ts`) | the work in flight, the phase script, the timer | one message from `createRun` to its answer | interrupt, timeout and exceptions at every step; phases written after the work | the answer agrees with the stored run; every run ends settled |
| triage, planning, review, answer (`triage.ts`, `planner.ts`, `deepPlanner.ts`, `skeptic.ts`, `synthesizer.ts`) | what was made of a message so far | classify, plan, choose among plans, review, answer | a model may answer anything; each step has rules of its own | the risk of a message is never lost; the rules of planner and skeptic agree; the answer claims only what happened |
| arbitration, compilation, execution, healing (`crucible.ts`, `dagCompiler.ts`, `sandboxExecutor.ts`, `executorSimulator.ts`, `validationHealing.ts`, `turnBudget.ts`, `tools/`, `sandbox/index.ts`) | DAG, results, files, child process, counters, approvals | arbitrate, compile, run a node, write, run a command, repair | an interrupt between two checks; partial failure; timer, child and abort racing | dependencies first; validated means done; nothing is written after an interrupt or a denial; it ends |
| task decomposition (`taskDecomposer.ts`) | sub-goal graph, pending, results | normalise, run in waves, skip | cycles, failed prerequisites, shared worker index | prerequisites first, cap respected, own results, termination |
| provider calls (`providers/failover.ts`, `credentialPool.ts`, `security/budget.ts`, the live steps) | retry flags, key pool, cooldowns, usage | preflight, invoke, retry, rotate, fall back, charge | several kinds of retry sharing one budget; aborts; abandoned calls | spend within budget, bounded retries, termination |
| settings (`providers/*Store.ts`, `orchestrationAssignments.ts`, `memoryRoleRouter.ts`, `security/secretStore.ts`, `modules/`, `templates/`, their routes) | JSON files, module registry, caches of built providers and discovered models | save, delete, assign, activate, toggle, apply a template, discover, resolve | read-modify-replace without a lock; several files per request; caches | keys before records, deletes leave nothing, refusals change nothing, caches never show |
| gateway (`security/rateLimiter.ts`, `quotas.ts`, `rbac.ts`, `sessions`, `workspaces`, `approvalFlow.ts`, `BudgetApprovalRegistry`, their routes) | windows, attempts, sessions, members, quotas, pending operations, waiters | admit, authorise, count, decide, time out | checked now, relied on later; decisions that arrive late or twice | limits hold up to what overlaps; effects are authorised; only what was approved runs |
| cartographer (`cartographer/`) | inventory, graph | scan incrementally, persist, load, query | files change under a scan; scans overlap | inventory equals the disk after a quiet scan; answers agree with the graph |
| memory, skills, context (`memory/`, `backgroundHooks.ts`, `ponderSwarm.ts`, `contextBuilder.ts`) | entries, caches, artifacts | write, prune, reflect, scan, pack | several adapters that fail or go unheard; overlapping reflections; stale signatures | a signal is written once; skills served are current; a pack keeps its budgets |
| task pipeline (`thalamus/`, `workers/`, `proactive/`, `workflows/`) | task, timers, label cache | create, advance, approve, check in, send | read, await, save a whole copy | the log of a task tells one legal history |
| browser client (`public/app.js`) | open conversation, live run, panels, pickers | open, send, stream, poll, decide, search, load, save, probe | answers that arrive after later clicks | the page shows one conversation; a message settles; panels agree with the server |
| redaction, network policy, prompts, observability, evaluation, deployment | none or write-only | functions on text | - | outside what a model that abstracts text can say |

How they interact. `POST /api/chat` passes the gateway and calls `runOrchestratedChatRun`, which
creates a run in the store, registers a control state, calls the live steps (each a budget
preflight and a resilient provider call), executes the DAG, and finally walks the stored run
through its phases with `transitionRun`. Every store write of an event is followed by a
publication to the broker, to which the streaming requests are subscribed; the browser is at the
other end. Interrupt and steer requests reach the run only through the control registry; approvals
only through the stored run. Which model a step calls is what the settings say at that moment.

## 2. Modules

```
RunPhases  <- RunLifecycle                       what a run's lifecycle promises (abstract)
    ^ <- TransitionCall <- RunStateMachine       in-memory store   <- StoreProofs
    |                   <- SqlRunStore           SQL store         <- StoreProofs
    | <- RunEventStream <- ClientProofs
    | <- RunControl <- ChatRun <- ChatRunProofs
SubGoals <- SubGoalsProofs
ProviderCalls <- ProviderCallsProofs
PlanCompiler, WorkspaceSandbox <- DagExecution <- DagExecutionProofs
ModelRoutes <- SettingsStores <- SettingsRoutes <- Settings <- StoreProofs
Admission <- GatewayRoutes <- Gateway <- GatewayProofs
ClientChat, ClientPanels <- Client <- ClientProofs
CodeGraph <- CodeIndex ----------------+
Conversations, MemoryStore, Knowledge, |<- Background <- BackgroundProofs
TaskPipeline --------------------------|
Triage <- PlanReview <- DeepPlanner ---+
```

(An arrow is `EXTENDS`, except that `TransitionCall` uses `RunLifecycle` by `INSTANCE`.
`StoreProofs` is about both stores of a run, whose proofs share the lemmas about calls, and about
the settings files.) An
`MC*` module gives the constants of its component the values TLC checks; where they fit on a few
lines, the component's own `.cfg` does. In `PROJECT.json`, "map" leaves out helpers whose lines lie
inside those of the definition that uses them. Definitions commented "a way to get this wrong" are
variants of an operator with a plausible bug; each property has one that breaks it.

**RunPhases** is data: the phases, `ALLOWED_RUN_PHASE_TRANSITIONS`, `validateTransition`,
`statusForPhase`. **RunLifecycle** is the abstract specification: a run moves atomically along
allowed edges and its log holds exactly those moves.

**TransitionCall** is the code of `transitionRun` that does not depend on the store, for one run
and any number of callers. `pc[c]` is the `await` a caller is suspended at. `Call` fixes the
arguments, `GetRun` takes the snapshot, `Refuse` is `validateTransition` throwing, `Conflict` is
the handler of `ConcurrentTransitionError`, `Patched` and `TransitionEvent` are `buildRunPatch` and
`buildRunEvent`, `StartUsage` is the read half of `addProviderUsageToRun`.

**RunStateMachine** adds the in-memory store, whose `commitRunTransition` has no `await`:
`CommitRunTransition` and `ConcurrentTransition` are the two outcomes of its version check, and
`UpdateRun` writes a patch into the run as it is then.

**SqlRunStore** adds the SQL store. The row is the payload (`run`) and a version `column`. The
commit re-reads the run (`CommitRead`) and then runs one synchronous transaction: the `UPDATE`
compares the column with the version *just re-read* (`RowMatches`), stores one more than the
version `transitionRun` saw (`NewVersion`), and the following `SELECT` takes any row with that
version for success (`CheckRow`). Callers interleave at every await, as with an asynchronous driver
(TiDB); with `node:sqlite` they do not, since its promises are settled in the same turn. The history
variable `overlap` records whether two calls ever were under way together.

**RunEventStream**: `PersistTransition` and `PersistOther` append to the log, `Publish` hands the
event to the broker's listeners, `Subscribe`, `ListEvents`, `Replay` are the three stages of
`handleRunStream`, with `ListEventsFails`, `ReplayClosed` and `Disconnect` its other exits. An event
is its position in the log.

**RunControl** is the registry. A run has an `own` control state, which its orchestration
watches, and possibly a `fresh` one, created by a request that found no entry. Time is reduced to
"untouched for longer than the TTL" (`OutliveTimeToLive`). **ChatRun** composes it with
`runOrchestratedChatRun`. `pc[r]` is the step of the work; the result of each step is any result
the component can return. `Decide` fixes the `script`, the phases the code will then write one by
one; `Advance` is one `transitionRun` (its detail is RunStateMachine) or the throw of its
`validateTransition`. `TimeOut` is the timer, `OrchestrationTimeoutResult` what the outer function
makes of it.

**SubGoals**: `Init` normalises any proposed graph (`normalizeSubGoalGraph`), `StartWave`,
`Finish`, `EndWave`, `SkipCycle`, `Return` are the loop of `executeDecomposedSubGoals` with
`runBounded` inside; a worker that finishes takes the next sub-goal.

**ProviderCalls**: `site` is the live step, `pc` where its provider call stands. `Preflight` is
`enforceMaxPerRunBudget` counted in model calls (other limits may deny any call as well),
`FetchFails` is the recovery of `callWithResilience`: wait and retry a 429 once, rotate the key
once, fall back once. `Rotate` follows the pool: the key that "failed" is whatever `acquire` hands
out next. Each step's reaction to its outcome is an operator of its own, named after the function.
`SkepticTimeout` leaves the call running.

**PlanCompiler** holds the pure functions: the crucible's verdict, `compileAcceptedPlanToDag`, the
validation of DAGs. **WorkspaceSandbox** is one operation of the sandbox, from containment and
approval to the child process, whose timer, end and abort race (`ChildEnds`, `TimerFires`,
`AbortHandler`), with the
turn budget and the tool middleware in front. **DagExecution** takes a job from review to result:
nodes in topological order, an interrupt at any moment, then the deterministic or the live healing
loop. Injected failures of the executor options are inputs, as they are in the code.

**ModelRoutes** holds the pure resolution of models and memory providers; **SettingsStores** what
each store method makes of the file it read; **SettingsRoutes** each route as the sequence of steps
between its awaits; **Settings** executes such sequences for overlapping requests. A store method is
two steps, reading the file and replacing it; a write may fail (`FailWrite`) and the process may be
killed (`Restart`).

**Admission**, **GatewayRoutes** and **Gateway** do the same for requests in front of conversations,
runs, workspaces and approvals: decisions as functions, routes as sequences of steps, and their
interleaving with time, restarts and each other. `reach` collects the workspaces in which a
request's user held its permission while it was under way, and `born` those in which a conversation
was made meanwhile. The ids of conversations count up (`inMemoryRectorStore.ts:470`,
`sqlRectorStore.ts:609`), so a request may name one that does not exist yet and will a moment later;
`createConversation` therefore takes any free id. `wrote` and `shown` record the workspace of what a
request changed and those of what it was shown; the routes that serve all workspaces (`ServerWide`) show
all runs or those that wait for a decision (`Listed`). The runs are those that exist at the start: a
request that names a run made while it is under way is not modelled.

**ClientChat** and **ClientPanels** are the browser. A message is `sends[n]` with the stage its
`sendMessage` has reached; frames, polls and answers arrive in any order the network allows; `from` is the run whose events its
answer will be explained with, which is the live one when they cannot be fetched.
Settings handlers are sequences of calls and renderings; a resource is the number of its last
change. **Client** puts both on one page.

**CodeGraph** is the pure half of the cartographer (classification, ignore rules, imports, tests,
graph, queries), **CodeIndex** its scans and stores. **Conversations**, **MemoryStore**,
**Knowledge** and **TaskPipeline** model the components of their names. **Triage**, **PlanReview**
and **DeepPlanner** say what the steps of a message make of what a model answers; the loops around
the calls are those of ProviderCalls. **Background** puts these side by side: they share no state,
so a behaviour explores one part in one of its named situations while the others rest.

## 3. Runs

| run | properties | question | result |
|---|---|---|---|
| `transitions` | `RunIsConsistent`, `TruthfulOutcome`, `ImplementsLifecycle`, `CallsReturn` | Do concurrent `transitionRun` calls and usage updates on the in-memory store keep log, version, phase and decision request together, answer truthfully, return, and implement `RunLifecycle`? | holds |
| `sql_concurrent` | `ExactUntilOverlap`, `NothingInvented` | The same of the SQL store as long as no two calls overlap; and what is left when they do: answers stay true of the log, the phase was led to by some event, versions never run ahead. | holds |
| `stream` | `StreamIsFaithful`, `StreamEndsCleanly`, `OpenStreamsEnd` | Is what a client receives a gap-free prefix with one `done` at the end, with everything released and every stream ending? | holds |
| `sub_goals` | `WavesAreOrderly`, `Returns` | For every graph on three ids, cyclic ones included: prerequisites first, cap respected, own results, termination. | holds |
| `chat_run` | `WalkSettlesRun`, `AnswerAgreesWithRun`, `InterruptStopsRun`, `EveryRunEnds` | One run with an interrupt, two steers, expiry, timeout, cyclic plan: scripts are allowed, the answer agrees with the stored run, an interrupt that arrived stops it, the call ends. | holds |
| `chat_run_throw` | `FailureIsStored` | Is a run whose orchestration threw left in a phase its stream ends at? | **violated** |
| `provider_calls` | `BudgetHolds`, `RetriesAreBounded`, `TurnEnds` | Every preflight sees all spend, spend within budget, retries bounded, the turn ends though providers never answer. | holds |
| `execution` | `ExecutionFollowsPlan`, `ValidatedMeansDone`, `NothingAfterAbort`, `NoEffectAfterDenial`, `JobEnds` | From a reviewed plan to its healed result with an interrupt anywhere: order, truth of the verdict, no effect after an interrupt or a denial, termination. | holds |
| `settings` | `KeyBeforeRecord`, `DeletedIsGone`, `RefusedLeavesNoTrace`, `ServedFromCurrent` | Overlapping settings requests with a failing write or a restart: what holds although updates may be lost, and that caches never show when requests come one after the other. | holds |
| `gateway` | `LimitsHold`, `EffectsAuthorized`, `RunsOnlyApproved`, `BudgetWaitersAgree` | Do limits, permissions, quotas and decisions hold while everything they were checked against changes? | holds |
| `client` | `ShownBelongsToOpen`, `PanelsAgree`, `SendSettles` | Does the page stay consistent while answers, frames, polls and clicks interleave? | holds |
| `background` | `CartographerAgrees`, `SearchIndexAgrees`, `SignalsOnce`, `ContextIsSound`, `TaskLogIsPath`, `StepsKeepFacts` | Index, search, memory, context, tasks and the rules of triage, planner, skeptic and synthesizer, each with its overlaps, failures, edits and crashes. | holds |

Each property is stated in words above its definition, is a conjunction of named parts where it
has several, and is broken by the mutant `PROJECT.json` names. Some properties hold only up to a
condition, because the code gives no more; the condition is part of the statement, is recorded by a
history variable, and is itself a statement about the code:

* `ExactUntilOverlap`: until two calls overlap (`overlap`).
* `ServedFromCurrent`: while requests do not overlap and no write fails (`calm`); `DeletedIsGone`: for
  a delete that ran alone.
* `EffectsAuthorized`: save what the two cost routes find of a conversation made while they were under
  way (`born`), and save the runs of other workspaces on the operator and budget routes (`ServerWide`):
  they ask for the permission in the user's own workspace and serve all of them, so for them the property
  says only that the user held it there (`Entitled`). What they show and change is recorded like the rest:
  without the exemption TLC finds a developer who is shown, or aborts, a run of a workspace in which he
  may not (section 5).
* `RunsOnlyApproved`: unless two decisions on one run are under way at once (`rival`).
* `LimitsHold`: fewer than twice the limit in any window, and a quota exceeded by less than the
  number of messages under way together; by as many, when the quota is 0: it lets no message through,
  but those let through the day before, without a quota or under a larger one, are counted on the new
  day. Requests that pass because the limiter's backend does not answer (`LimiterFails`, on a rule that
  does not fail closed) are counted neither by the limiter nor in `admitted`: while the backend is away
  there is no limit.
* `ShownBelongsToOpen`: as long as no click overtook a request under way (`mixed`); `SendSettles`: unless
  the user left the conversation, whose call then waits for ever.
* `InterruptStopsRun`: an interrupt that the run's own control state has recorded.
* `CartographerAgrees`: for a scan that was alone, save for the errors it records;
  `SearchIndexAgrees`: while calls come one after the other.
* `SignalsOnce`: one signal for two notes, in whatever order they are listed, except on Mem0. It lists
  by relevance (`mem0Adapter.ts:318`) and the hash of a signal has the ids in list order
  (`ponderSwarm.ts:373`), so an update between two reflections may swap them and the pair is written a
  second time under another hash; there it is one signal per order.

The violation: the streaming branch of `POST /api/chat` relies on a failed run being stored as failed
(`server.ts:2513`); when `compileAcceptedPlanToDag` throws on a cyclic plan nobody stores it
(`chatRunner.ts:214`), and the run stays in CHAT_RECEIVED, from which FAILED is not even allowed.

### Bounds, and why they are enough

* `transitions`: two callers, one retry (three in the code), three transitions, targets that
  include a working phase, NEEDS_DECISION, its resumption and a final phase. A lost race needs two
  callers; giving up needs two commits of the other caller after the first, which three transitions
  allow (with two retries they would not); asking for a decision and answering it takes three. Beyond
  the bounds the proofs of section 4 apply.
* `sql_concurrent`: the same callers and phases.
* `stream`: two clients and three events: one persisted before, one during and one after the
  catch-up read.
* `sub_goals`: three sub-goals with any ids out of three and any set of edges, two workers: a
  batch of three leaves one waiting; chains, forks, joins, cycles and duplicate ids occur.
* `chat_run`: one run and every client action on it; a steering queue of one, so that two steers
  overflow it; two rounds of repair.
* `provider_calls`: two keys of which any may be refused, a fallback, a budget of seven calls and
  three rounds of repair: every step can be reached and the budget can run out in each of the
  later ones.
* `execution`: plans of two tasks with every review, dependency and risk that the compiler tells
  apart, and hand-made DAGs of up to three nodes for failures the compiler's DAGs cannot show;
  three healing attempts, three tool calls and two iterations, so that each limit is met.
* `settings`: two model and two memory providers; three requests (four about a memory key, two about
  modules and templates), two at once, and one mishap, in mixes that touch each other's files: a lost
  update needs two overlapping requests, a stale cache one to fill it, one to change and one to look.
* `gateway`: two users, two slots, two conversations of which one is yet to be made, windows and
  sessions of two ticks, one mix per piece of shared state, one of them with a quota of 0 that is set
  while messages are under way. Another has two requests of a developer on the routes that serve all
  workspaces. `client`: two messages, two
  conversations, three clicks per panel; one session of the chat or one visit to the settings.
  `background`: two scanners, two clients, two edits, two days; one named situation per overlap,
  failure or crash of each part.

`CHECK_DEADLOCK FALSE` is set throughout: every model is of work that ends.

### Fairness

Weak fairness is assumed only of what the event loop does by itself: resuming a continuation
whose promise is settled (`Resume`, `Continue`, `Publish`, `Step`, `AnswerStep`), and firing an armed
timer (`Abort` in ProviderCalls, the run's own timeout). The in-memory and SQLite stores never block.
No fairness is assumed of callers, users or providers: `TurnEnds` holds though no provider ever
answers, because the timer aborts the fetch. `JobEnds` assumes that a child process ends some time,
by itself or killed (`Child`); whether its timer fires is left open. In SubGoals the execution of a
sub-goal is assumed to return: `executeDagThroughSandbox` does not throw and the sandbox bounds each
operation. `SendSettles` is about the client alone and assumes that the server does its part: a
request is answered or fails, a run goes on (`ServerStep`), its `done` frame is sent while the stream
is connected (`DoneFrame`), and a client that polls again and again once gets an answer
(`PollAnswer`, strong fairness, since polls come and go).

## 4. Proofs

A theorem holds for every value of the constants that satisfies the assumptions named in the
component's module: any number of callers, clients, runs, sub-goals, keys or requests, where the run
of section 3 has two or three. The inductive invariants were model-checked on the runs' instances
before they were proved. Each component has a module of its own for its proofs, except that what is
stored, runs and settings, has one together, and so has what a client gets to see, the event stream of
a run and the page.

**StoreProofs** proves of the in-memory store, for any set of callers and targets and any number of retries
and transitions: `RunIsConsistent` (the type invariant, `EventLogIsPath` and
`DecisionRequestWhileWaiting`), `ConflictOnlyUnderContention`, `TruthfulOutcome`,
`FinalPhaseIsFinal`, and that the specification implements `RunLifecycle`. Assumptions: `Targets` are
phases, the bounds are naturals. `EventLogIsPath` is not inductive by itself: a commit appends the
edge the caller validated, which starts at the run's phase only because an equal version means an
unchanged phase. `IndInv` adds that (`SnapshotIsCurrent`) and counts, for each caller, that its loop
counter is at most the number of transitions committed since its call (`CallProgress`), which gives
the bound on conflicts. `TruthfulOutcome` adds that the events with a caller's name since its call
are none before its commit and one after. The refinement then is one case: a commit is `Take`, all
else stutters.

The same module proves both properties of the SQL store. `NothingInvented`, however calls
overlap, rests on `KnownInv`: every copy of the run in the system, the row and what the callers hold,
has a phase some event led to and a version no larger than the log is long, so that writing any of
them back invents nothing. `ExactUntilOverlap` rests on `AloneInv`: while no two calls ever overlapped
there is one call at most and what it read is what is stored. From that, `SqlRefinement`: a behaviour
without overlap implements `RunLifecycle`, as every behaviour of the in-memory store does. With overlap
it does not (section 5), which is why the theorem has that hypothesis.

**ProviderCallsProofs** proves `BudgetHolds` (`SpendWithinBudget` and `PreflightSeesSpend`) and
`RetriesAreBounded` for any number of keys, any budget and any number of repair rounds. `SpendInv`
relates what is stored, what the step has spent and what was received: they are equal while a step is
at work, and from the preflight to the response there is room for one more. The abandoned call of the
skeptic is why the invariant keeps that room after the run has ended. `RetryInv` is an account of the
requests: each is the first of a call or is paid for by a flag of the `TurnRetryState` that was not
set before; it has to follow the selection of the repair agent through the executions between two
rounds.

**ClientProofs** proves, of the event stream, `StreamIsFaithful` and `StreamEndsCleanly` for any number of clients.
For each client `IndInv` says what it was sent (`Sent`: the first n events, at most the last of them
terminal, and then the stream is closed), what it holds (`Holds`: nothing written before the catch-up,
nothing held after the teardown), and that buffer and snapshot meet (`Recent`: the buffer is the last
events published, none missing, and the snapshot was read after the subscription). The catch-up is a
loop over the snapshot and then the buffer that may close the stream on the way; what it writes is
established at the first event where it could go wrong, since induction over the batch is out of
reach.

The same module proves both invariants of the browser client. `ShownBelongsToOpen` says what is on the
page; `ChatInv` adds what may still get there while no click has overtaken a request (`mixed` is false):
every message that waits for an answer, every run that has a source or an interval and every conversation
that is loading is of the open conversation (`PageOK`); a run that is live has at most one source or
interval, which is the one `liveRun` knows; a message that is not accepted yet is the only one, and the
last stream is closed (`LiveOK`). When the events or the cost of a run that has ended cannot be fetched,
the page shows those `liveRun` has kept; so while a run is being finished `liveRun` is still its own, its
cost is of the same run, and a poll on its way is too (`HoldsOwn`). The last part is what makes accepting
a message safe although `beginLiveRun` closes nothing. A message sent in no conversation yet needs care:
all it shows belongs to no conversation until the server has made one, and then to that one. Assumptions:
`None` is no number, conversations are numbers.

`PanelsAgree` follows from `PanelInv`. For the picker it says that the selection which counts as verified
was probed, which saving then only copies. For the panels it says, as long as the visit is not disturbed,
that there is one handler under way at most, that what it was answered is what the server holds, and that
each resource of a fresh panel is shown as it is or is shown by a step that is left of that handler
(`AboutToShow`). That is kept because every handler wired to a panel loads what it changes of that panel,
or shows it with the answer: `HandlersAre` checks this for the program of each. Assumption: a model's
name, or none, is not itself a selection.

**SubGoalsProofs** proves `WavesAreOrderly` for every graph, cyclic ones included, any number of
sub-goals and any configured concurrency, and `ResultsNeverOverwritten`, which no run checks.
`IndInv` adds that what is pending has an id of its own and no result (`PendingIsOpen`), that a batch
is pending and ready (`BatchIsReady`), that no sub-goal is confused between executing, waiting and
through (`OutcomesFollowWorkers`), and that whatever left the pending set did so for reasons that no
later wave undoes (`SettledUnlessPending`).

**ChatRunProofs** proves `InterruptStopsRun` without hypothesis, from `BaseInv`: a run at work is not
yet DONE, and to be answered it must have passed every step. `WalkSettlesRun` and
`AnswerAgreesWithRun` follow from `WalkInv`: what remains of the script is a walk from the stored
phase, its end agrees with the answer, and `transitionRun` therefore never throws. They are proved
under `TimeoutsStayHome`, that a run which may both throw and time out is alone in its conversation.
Without it they are false: with two runs, of which the first throws and then times out, TLC shows the
second cut short, since the timeout is charged to the newest run of the conversation
(`chatRunner.ts:211`). The run `chat_run` has one run and so satisfies it.

**DagExecutionProofs** proves the four safety properties of `execution` for every plan, every DAG, every
budget and every bound of healing. `NothingAfterAbort` needs little of the state, only that the abort
flag is looked at again wherever something is about to happen. `NoEffectAfterDenial` needs `DenialInv`: a
denial is always recorded as a failure and never as a node that was skipped, so the healing loop meets it
and asks for a decision, and a job that was denied something rests in places where nothing is executed
any more. `ExecutionFollowsPlan` and `ValidatedMeansDone` begin with the functions. The compiler: a plan
it does not refuse becomes a DAG with distinct ids, known dependencies and no cycle, which is what the
executor's own validation asks for. The order: in a graph without cycles every node is in some round (the
largest part of the graph that is in rounds is all of it, or a node outside it would lie on a cycle), and
sorting by round and then by position puts every node at one place, behind what it depends on, since the
place of a node is the number of nodes before it. Then `ExecInv` follows an execution along that order: the
results are those of exactly the nodes before `at` (`ResultsFit`), a node that completed had everything it
depends on completed before it (`Sound`), and what the finished run says is what the results said
(`RunFits`), so that a run in which no node failed or was skipped has completed all of them. The first is
needed for the others: without knowing that the results cover the order, "no node failed" says nothing about
the nodes never reached. Assumptions: a plan has finitely many tasks, a DAG is a sequence, ids are numbers.

**GatewayProofs** proves `EffectsAuthorized`, `RunsOnlyApproved`, `BudgetWaitersAgree` and `LimitsHold` for
every set of users, workspaces, conversations, routes and slots. The first half is about the routes: every
handler, with the middleware in front, is *orderly*, that is, what is found is found before the
permission is asked, the permission is asked once, and what changes or shows something comes behind it.
The second is `IndInv`, which follows a request through what is left of its handler: past its
permission it works in a workspace where it was permitted (`Permitted`), what it is going to show is
where it looked, or a server-wide route (`Located`), the only decision under way is on the operation the run still waits for
(`Decided`), and what it did so far was permitted (`Clean`). It also needs that `reach` contains what
the directory grants now, that two decisions under way know of each other (`PairsOk`), and that a
user has one membership per workspace. Personal workspaces, which the code makes when they are first
looked for, change no effective role (`EnsuredRoles`). On a server-wide route being permitted means
being permitted in the user's own workspace, and the theorem promises no more there (section 3).

`LimitsHold` has an invariant for each of its halves. `RateInv` says of every key and route that the
requests let through fall into windows which opened `WindowMs` or more apart with at most the limit in
each, that the stored bucket is that of the last window and has counted what was let through in it, and
that the Redis limiter, which refuses the last point, has let nothing through where there is only one. The
windows are what makes it inductive: the bucket alone has forgotten when the requests before it came. Of
twice the limit of requests, the first and the last are then in windows with a third between them or
in one that closed, so `WindowMs` apart. `QuotaInv` bounds the runs counted today *together with* those that
are going to be counted (`QuotaOk`), since a message counts against the quota from the moment it was let
through. That takes a second look at the handlers (`Metered`): each asks for the quota once, before it
counts, and never changes its workspace in between; every step keeps that for what is left of the handler
(`Follows`). The proof found the statement wrong where the quota is 0: it had allowed one message too few
(section 3), and the mix that shows the case was added to the run. Assumptions: what a request or a mix
may ask for as a limit is a number or none, and a window is a natural number.

**StoreProofs** also proves the four properties of the settings, for
every set of mixes, ids and slots and any number of requests, failed writes and restarts. As for the gateway, the first
half is about the routes (`ProgramGood`): in every program each store is written by its own methods for its
own requests (`StepsFit`), no check follows a change (`NeedsFirst`), the key of a record stands before the
record (`KeysFirst`), and a memory provider is picked from a read of the records and built right behind it
(`Picked`, `BuiltLast`). The second is `SettingsInv`. Files are sound (`FilesOK`): no record, route or key of an
id that is gone, no record whose key was never published, and each file names only ids of its own
requests. Since a store method replaces a whole file by what it made of an older content, the *contents that
requests hold* must be sound as well (`SnapOK`, and `BuildOK` for the records of memory providers); that is the
strengthening, and what lets the properties hold although updates may be lost. What is left of a program keeps
checks before changes (`AnswerOK`) and keys before records (`KeyOK`). A delete that runs alone is followed
through the end of its route (`DeleteOK`, `StageOK`): behind each of its writes its id is out of one more file,
so that it is out of all of them when it is answered. Assumption (`MixesAssumption`): requests are those
of the modelled routes, and no model provider shares its key's reference with a memory provider. The server
derives the reference from the id, with "memory:" in front for memory providers (`server.ts:3175`,
`server.ts:3436`); it would accept a model provider whose own id begins with "memory:", which is left out.

`ServedFromCurrent` takes a second invariant, `CalmInv`, of what holds while requests come one after the
other. That what was served is right at the end says nothing of the reads before it, so it is followed
through the rest of the program. A program is `Servable` if nothing it read before a write is used after
it, and takes a store's content only from a read that stands before it (`Afresh`); every route that
resolves a provider is (`ServingPrograms`). For what is left of one, a store that the next steps look into
has been read as it now is or is still going to be (`FreshOK`), the candidates that are left are the last
of those the files name and none before them could be built (`CandsOK`), and once something is served,
nothing is left but remembering it. The provider cache is the hard part, because it is keyed by id and
time of the record and not by the key that went in: changing a key makes it wrong until it is dropped. So
it agrees with the files (`CacheRight`) *or* the one request there is has passed its checks and still has
the dropping before it (`Owes`); every memory route drops it behind its last write (`DroppingPrograms`),
and a provider's key cannot disturb it, because of the assumption above.

**BackgroundProofs** proves `TaskLogIsPath` for every situation of the task pipeline: any number of
requests, controls and workers on one task. Every copy of the task in the system is good (`PipeInv`), the
stored one and those that requests are about to save: its log is one path to its state (`PathTo`), no
subtask is pending from validation on, and what it claims of validation and approval is true of it
(`Claims`). Saving any of them back, however old, therefore stores a good task, which is all that is
left when one of two overlapping changes is lost (section 5). That no subtask is pending behind the fan-out
is the strengthening: validation only looks for subtasks that failed.

Left to TLC:
* All liveness (`CallsReturn`, `OpenStreamsEnd`, `Returns`, `EveryRunEnds`, `TurnEnds`, `JobEnds`,
  `SendSettles`), which rests on fairness and `ENABLED`.
* What is computed by sorting or folding with an operator as argument, which no prover here
  instantiates: `SearchIndexAgrees` (ranked results), `ContextIsSound` (packing under budgets), parts of
  `CartographerAgrees` and `StepsKeepFacts`.
* `SignalsOnce`, which holds in the situations of the run and not in every one: ids are reused after a
  delete, so an update by an id that was read before may write an old signal onto a new entry; and on
  Mem0 only per order of the two notes (section 3).

## 5. Known disagreements and behaviours without a run of their own

Met while modelling; each is in the model as the code has it, and the properties are stated so that
they say what is left.

*Runs and stores*
* `protocol/phases.ts:25` says no transitions follow a terminal phase; NEEDS_DECISION is terminal and
  has outgoing edges, so the stream of a run that is resumed has already ended (`server.ts:946`).
* SQL store: `commitRunTransition` compares with the version it re-read (`sqlRectorStore.ts:379`), so a
  caller that validated against an older run is not refused, and a run that is DONE can move again;
  two interleaved commits can share a version, and an `updateRun` that overlaps a commit restores
  the old phase.
* Two concurrent charges of one run lose one of them (`externalRunSupport.ts:87`).
* `cleanupRunControlStates` removes states not touched for ten minutes, those of runs still at work
  included (`runControl.ts:47`); a later interrupt is acknowledged and has no effect. The same happens to
  one between `createRun` and `registerRunControl` (`chatRunner.ts:389`), given a store that suspends there.
* A timeout during execution leaves the stored run ABORTED or DONE while the client is told FAILED
  (`chatRunner.ts:224` says the run is moved to FAILED). A timeout together with an exception fails the
  newest run of the conversation (`chatRunner.ts:211`), possibly another message's.
* An interrupt while planning ends in NEEDS_DECISION, and while reviewing in FAILED, since the
  aborted call comes back as a blocker. A healing result NEEDS_DECISION answers "Run interrupted."; a
  plan the crucible did not accept still ends DONE.
* A steer at capacity is queued but answered as not queued (`runControl.ts:147`).
* What a blocked planner or a failed direct answer spent is never stored; a call the skeptic
  abandons is not charged.
* `callWithResilience` asks the pool for "the key that failed" and gets the next in turn
  (`failover.ts:99`): with two keys the working one may be put in cooldown.
* Two sub-goals can share an id after normalisation when the fallback id `sub-i` is itself taken
  (`taskDecomposer.ts:350`); `WavesAreOrderly` asks for own answers only of distinct ids.

*Plan, review, answer*
* The risk-minimised variant of the deep planner adds a text with "write" to low-risk tasks, in which the
  skeptic then finds risky language (`deepPlanner.ts:208`, `skeptic.ts:52`).
* A plan with neither tasks nor a clarification gate passes the schema and is blocked by the skeptic.
* The deadline of the synthesizer reports no usage, contrary to its comment (`synthesizer.ts:573`).
* `runLiveTriage` and `synthesizeHeavyDeveloperRoute` have no caller outside the tests.

*Execution*
* A child that ignores SIGTERM outlives its operation. Patches that delete a file write its content.
* `healWithLiveRepair` says that it never throws (`validationHealing.ts:247`); a patch that
  cannot be written throws through it. `LocalSandboxEnvironment` drops the abort signal.
* The simulator reports an abort as PARTIAL where the sandbox reports SKIPPED.

*Settings*
* No store has a lock: of two overlapping writes one is lost, keys included (`secretStore.ts:224`).
* `setActiveRoute` accepts ids that do not exist (`configStore.ts:127`); a delete that fails half-way
  leaves the secret; the discovery cache survives a change of its record (`configStore.ts:208`,
  `server.ts:3620`) until it is asked to refresh or expires.
* A template that fails half-way answers 400 with some stores written; its module toggles reach only
  the file until a restart. Resetting memory assignments with `{}` erases every scope.
* A memory provider that is being built while caches are cleared is cached again.

*Gateway*
* The plan of the access control says that isolation of workspaces is enforced for runs
  (`docs/plans/chunks/046-commercial-readiness-auth-rbac.md:344`). The operator routes
  (`routes/operator.ts:31-33`) and the budget approvals (`routes/approvals.ts:36`, `46`, `70`) authorise
  without naming a workspace, which means the requester's own one, where every user is owner, and then
  list, read, abort and decide on the runs of any. `operator.ts:29` calls its routes local-only, which
  nothing in it enforces. With `Entitled(q) == q.reach` TLC violates `EffectsAuthorized` in the mix
  `operators` of `MCGateway`: bob, a developer in the workspace of `r1`, is shown its pending approval, or
  aborts it, with a permission he has only in his own.
* Quotas are counted after the run; workspaces, quotas and windows are lost on restart. The Redis
  limiter refuses the last point of its window.
* The cost routes answer for an id nobody knows: they ask for the permission in the requester's own
  workspace and then look the id up again (`server.ts:2336-2339`, `server.ts:2729`). What was made under
  that id in between is shown, in whatever workspace it is.
* `presentApprovalRequest` and `handleBudgetApprovalNeeded` have no caller outside the tests; the
  decision requests of chat runs do not carry the kind that `recordApprovalDecision` looks for.

*Client*
* The promise of a stream that is closed by leaving its conversation never resolves (`app.js:946`).
* Late answers render into whatever conversation is open; `beginLiveRun` forgets the old source
  without closing it, contrary to the comment at `app.js:154`; overlapping loads of a panel may
  show the older answer.

*Knowledge*
* On SQLite an unchanged rescan fails on its primary key (`sqliteInventoryStore.ts:105`); an unreadable
  directory looks like a deletion; the older of two overlapping scans may win.
* Message and conversation ids are the largest plus one and are reused after a delete
  (`sqlRectorStore.ts:609`).
* Overlapping prunes write their summary twice; the notes route answers 400 when only the prune failed.
* Skill files deeper than the signature stay stale, and a deleted skill stays TRUSTED in the library.
* Of two overlapping changes of a task one is lost, an abort included (`thalamus/router.ts:71`).

## 6. Not modelled

Prompts and their compression, redaction, network policy, wire formats of providers and the parsing
of their answers are functions on text; a model that abstracts text cannot say anything about them.
Observability, evaluation and benchmarks record and score what other parts did. Deployment and
start-up are read once. Encryption of secrets, password hashing and token signing are taken to do
what they are for. The E2B adapter is a remote service the DAG bridge does not reach. Rendering,
keyboard handling and themes of the client, previews and reports of templates, and routes that only
read and format are left out. Composition of the modules into one system is left out as well: they
meet at the stored run, the control registry and the settings files, each of which one module owns,
and the product of their states is far out of TLC's reach.

## 7. Plan

1. Proofs: `SignalsOnce` for adapters that never reuse an id.
2. ChatRun over the SQL store's interleavings (the interrupt before registration), and with two runs and
   a clock (the expiry of control states).
3. Hooks of the built-in modules and the extension host.
