---------------------------- MODULE ProviderCalls ----------------------------
(***************************************************************************)
(* The provider calls of one run: the live steps in the order chatRunner   *)
(* and externalPostPlanning take them, the budget preflight each makes     *)
(* before a call (src/security/budget.ts), the recovery of callWithResi-   *)
(* lience around the call (src/providers/failover.ts, turnRetryState.ts,   *)
(* credentialPool.ts), and the usage each step charges to the run.         *)
(*                                                                         *)
(* The budget is counted in model calls, of which every request is         *)
(* estimated as one and every response reports one; dollars and tokens are *)
(* left out.  Key 1 is the primary secret of the assigned provider; a      *)
(* revoked key is answered with an authentication error.                   *)
(***************************************************************************)
EXTENDS Integers, FiniteSets

CONSTANTS
  NumKeys,            \* the keys of the assigned provider in the pool
  HasFallback,        \* is a fallback provider assigned?
  maxModelCalls,      \* of the run's budget
  maxHealingAttempts  \* rounds of live repair

Keys == 1..NumKeys

ASSUME ProviderCallsAssumption ==
  /\ NumKeys \in Nat \ {0}
  /\ HasFallback \in BOOLEAN
  /\ maxModelCalls \in Nat
  /\ maxHealingAttempts \in Nat

VARIABLES
  site,       \* the live step the run is in
  attempt,    \* its attempt: 2 is the repair prompt
  rounds,     \* rounds of live repair so far
  spent,      \* totalUsage of the step
  charged,    \* modelCalls stored on the run
  pc,         \* where the provider call of the step stands
  stage,      \* the last recovery of the call
  key,        \* what the active selection authenticates with
  retryState, \* TurnRetryState of the step's selection
  cooled,     \* the keys in cooldown
  cursor,     \* the pool's round-robin cursor
  revoked,    \* the keys the provider refuses
  aborted,    \* the run's abort signal
  fetches,    \* history: requests sent for the step's selection
  responses   \* history: responses received in the run

stepVars == <<site, attempt, rounds, spent, charged>>
poolVars == <<cooled, cursor>>
vars == <<site, attempt, rounds, spent, charged, pc, stage, key, retryState,
          cooled, cursor, revoked, aborted, fetches, responses>>

Sites == {"preprocessor", "planner", "skeptic", "repair", "synthesizer", "direct-answer"}

\* isRateLimitError, isAuthError and the rest.
Errors == {"rateLimit", "auth", "other"}

\* The fallback provider, which is not in the pool.
FallbackKey == 0

FreshRetryState == [retried429 |-> FALSE, retriedAuth |-> FALSE, activatedFallback |-> FALSE]

(***************************************************************************)
(* Ways to get this code wrong.                                            *)
(***************************************************************************)
PreflightForgetsStep == charged + 1 <= maxModelCalls

RetryAgain == retryState

KeepFetching == FALSE

(***************************************************************************)
(* enforceMaxPerRunBudget: what is stored on the run, what the step spent  *)
(* so far, and this call.                                                  *)
(***************************************************************************)
preflightAllows == charged + spent + 1 <= maxModelCalls

(***************************************************************************)
(* From step to step.  A later round of repair goes on with the selection, *)
(* and the TurnRetryState, of the first.                                   *)
(***************************************************************************)
NewSelection(next) == next \in Sites /\ ~(next = "repair" /\ rounds > 0)

Goto(next) ==
  /\ site' = next
  /\ attempt' = 1
  /\ rounds' = IF next = "repair" THEN rounds + 1 ELSE rounds
  /\ spent' = 0
  /\ pc' = IF next \in Sites THEN "preflight" ELSE "idle"
  /\ stage' = "first"
  /\ key' = 1
  /\ retryState' = IF NewSelection(next) THEN FreshRetryState ELSE retryState
  /\ fetches' = IF NewSelection(next) THEN 0 ELSE fetches

\* addProviderUsageToRun stores what the step spent; or it is dropped.
ChargeAndGoto(next) == charged' = charged + spent /\ Goto(next)

DropAndGoto(next) == charged' = charged /\ Goto(next)

\* The one repair prompt of a step that has one.
RepairPrompt ==
  /\ attempt = 1
  /\ attempt' = 2
  /\ pc' = "preflight"
  /\ stage' = "first"
  /\ key' = 1
  /\ UNCHANGED <<site, rounds, spent, charged, retryState, fetches>>

(***************************************************************************)
(* What each step makes of its call: denied by the preflight, failed, or   *)
(* answered with something the step can use or cannot.                     *)
(***************************************************************************)
Outcomes == {"denied", "failed", "invalid", "valid"}

\* A deterministic output replaces one that is missing or useless.
runSLMPreprocessor(outcome) ==
  IF outcome \in {"denied", "failed"} THEN DropAndGoto("planner") ELSE ChargeAndGoto("planner")

\* A blocked planner ends the run, and what it spent is not stored; deep
\* planning goes on with a fake plan unless the budget denied the call.
runLivePlanner(outcome) ==
  \/ outcome = "valid" /\ ChargeAndGoto("skeptic")
  \/ outcome = "invalid" /\ RepairPrompt
  \/ outcome = "invalid" /\ attempt = 2 /\ (DropAndGoto("ended") \/ ChargeAndGoto("skeptic"))
  \/ outcome = "failed" /\ (DropAndGoto("ended") \/ ChargeAndGoto("skeptic"))
  \/ outcome = "denied" /\ DropAndGoto("ended")

\* A blocked skeptic ends the run.
runLiveSkeptic(outcome) ==
  \/ outcome = "valid" /\ ChargeAndGoto("execute")
  \/ outcome = "invalid" /\ RepairPrompt
  \/ outcome = "invalid" /\ attempt = 2 /\ ChargeAndGoto("ended")
  \/ outcome \in {"denied", "failed"} /\ ChargeAndGoto("ended")

\* Without a proposal healing fails and the run ends.
createLiveRepairAgent(outcome) ==
  \/ outcome = "valid" /\ ChargeAndGoto("execute")
  \/ outcome = "invalid" /\ ChargeAndGoto("ended")
  \/ outcome \in {"denied", "failed"} /\ DropAndGoto("ended")

\* A deterministic answer replaces the synthesis.
runLiveSynthesizer(outcome) ==
  \/ outcome = "invalid" /\ RepairPrompt
  \/ (outcome = "invalid" => attempt = 2) /\ ChargeAndGoto("ended")

\* So it does here, but an answer that cannot be used is not charged.
runLiveDirectAnswer(outcome) ==
  IF outcome = "valid" THEN ChargeAndGoto("ended") ELSE DropAndGoto("ended")

StepWith(outcome) ==
  CASE site = "preprocessor"  -> runSLMPreprocessor(outcome)
    [] site = "planner"       -> runLivePlanner(outcome)
    [] site = "skeptic"       -> runLiveSkeptic(outcome)
    [] site = "repair"        -> createLiveRepairAgent(outcome)
    [] site = "synthesizer"   -> runLiveSynthesizer(outcome)
    [] site = "direct-answer" -> runLiveDirectAnswer(outcome)

\* The DAG has been executed: synthesis, live repair, or the end.
Execute ==
  /\ site = "execute"
  /\ \/ ~aborted /\ \E next \in {"synthesizer", "direct-answer"} : DropAndGoto(next)
     \/ ~aborted /\ rounds < maxHealingAttempts /\ DropAndGoto("repair")
     \/ DropAndGoto("ended")
  /\ UNCHANGED <<poolVars, revoked, aborted, responses>>

\* The limits left out (dollars, tokens, run time) may deny any call.
Preflight ==
  /\ pc = "preflight"
  /\ \/ /\ preflightAllows
        /\ pc' = "invoke"
        /\ UNCHANGED <<stepVars, stage, key, retryState, fetches>>
     \/ StepWith("denied")
  /\ UNCHANGED <<poolVars, revoked, aborted, responses>>

(***************************************************************************)
(* callWithResilience.  It throws: the step fails, or nobody listens any   *)
(* more.                                                                   *)
(***************************************************************************)
Throw ==
  \/ site \in Sites /\ StepWith("failed")
  \/ /\ site = "ended"
     /\ pc' = "idle"
     /\ UNCHANGED <<stepVars, stage, key, retryState, fetches>>

\* provider.invoke looks at the signal before it sends the request.
Invoke ==
  /\ pc = "invoke"
  /\ \/ /\ ~aborted
        /\ pc' = "fetching"
        /\ fetches' = fetches + 1
        /\ UNCHANGED <<stepVars, stage, key, retryState>>
     \/ aborted /\ Throw
  /\ UNCHANGED <<poolVars, revoked, aborted, responses>>

Respond ==
  /\ pc = "fetching"
  /\ key \notin revoked
  /\ responses' = responses + 1
  /\ IF site = "ended" THEN pc' = "idle" /\ spent' = spent
                       ELSE pc' = "response" /\ spent' = spent + 1
  /\ UNCHANGED <<site, attempt, rounds, charged, stage, key, retryState, poolVars, revoked,
                 aborted, fetches>>

Parse ==
  /\ pc = "response"
  /\ StepWith("valid") \/ StepWith("invalid")
  /\ UNCHANGED <<poolVars, revoked, aborted, responses>>

\* fetchWithAbort rejects when the signal is aborted.
FetchAborted ==
  /\ pc = "fetching"
  /\ aborted
  /\ Throw
  /\ UNCHANGED <<poolVars, revoked, aborted, responses>>

(***************************************************************************)
(* The recoveries, each at most once per TurnRetryState.                   *)
(***************************************************************************)
markRetried429 == [retryState EXCEPT !.retried429 = TRUE]

markRetriedAuth == [retryState EXCEPT !.retriedAuth = TRUE]

markActivatedFallback(state) == [state EXCEPT !.activatedFallback = TRUE]

\* siteForRouterInput: the calls of the preprocessor are not wrapped.
isResilient == site # "preprocessor"

mayRetry429(error) ==
  isResilient /\ stage = "first" /\ error = "rateLimit" /\ ~retryState.retried429

mayRotate(error) ==
  /\ isResilient
  /\ stage \in {"first", "retried429"}
  /\ error = "auth"
  /\ ~retryState.retriedAuth

mayFallBack(state) ==
  /\ isResilient
  /\ HasFallback
  /\ stage # "fallback"
  /\ ~state.activatedFallback

\* The last resort of a failed call, then the exhausted error.
FallBackOrThrow(state) ==
  \/ /\ mayFallBack(state)
     /\ retryState' = markActivatedFallback(state)
     /\ pc' = "invoke"
     /\ stage' = "fallback"
     /\ key' = FallbackKey
     /\ UNCHANGED <<stepVars, fetches>>
  \/ ~mayFallBack(state) /\ Throw

\* CredentialPool.acquire: round robin over the keys that are not cooling.
available(cold) == Keys \ cold

acquire(cold, at) ==
  CHOOSE k \in available(cold) :
    Cardinality({j \in available(cold) : j < k}) = at % Cardinality(available(cold))

cursorAfter(cold, at) == (at + 1) % Cardinality(available(cold))

(***************************************************************************)
(* An authentication error: the key the pool hands out next is taken for   *)
(* the one that failed and put in cooldown, and the one after it is used   *)
(* for the retry.                                                          *)
(***************************************************************************)
Rotate ==
  LET failed == acquire(cooled, cursor)
      cold   == cooled \cup {failed}
      at     == cursorAfter(cooled, cursor)
  IN
  IF available(cooled) = {}
  THEN FallBackOrThrow(markRetriedAuth) /\ UNCHANGED poolVars
  ELSE /\ cooled' = cold
       /\ IF available(cold) = {}
          THEN FallBackOrThrow(markRetriedAuth) /\ cursor' = at
          ELSE /\ cursor' = cursorAfter(cold, at)
               /\ key' = acquire(cold, at)
               /\ retryState' = markRetriedAuth
               /\ pc' = "invoke"
               /\ stage' = "rotated"
               /\ UNCHANGED <<stepVars, fetches>>

\* A revoked key is refused, the fallback may be; anything may go wrong.
FetchFails(error) ==
  /\ pc = "fetching"
  /\ error = "auth" => key \in revoked \cup {FallbackKey}
  /\ \/ /\ mayRetry429(error)
        /\ retryState' = markRetried429
        /\ pc' = "waiting"
        /\ stage' = "retried429"
        /\ UNCHANGED <<stepVars, key, fetches, poolVars>>
     \/ mayRotate(error) /\ Rotate
     \/ /\ ~mayRetry429(error) /\ ~mayRotate(error)
        /\ FallBackOrThrow(retryState)
        /\ UNCHANGED poolVars
  /\ UNCHANGED <<revoked, aborted, responses>>

\* waitForRetry
RetryDue ==
  /\ pc = "waiting"
  /\ \/ /\ ~aborted
        /\ pc' = "invoke"
        /\ UNCHANGED <<stepVars, stage, key, retryState, fetches>>
     \/ aborted /\ Throw
  /\ UNCHANGED <<poolVars, revoked, aborted, responses>>

(***************************************************************************)
(* invokeBounded: after 60 seconds the skeptic takes its call for failed   *)
(* and the run ends, but nothing stops the call.                           *)
(***************************************************************************)
SkepticTimeout ==
  /\ site = "skeptic" /\ pc \in {"invoke", "fetching", "waiting"}
  /\ site' = "ended"
  /\ charged' = charged + spent
  /\ spent' = 0
  /\ UNCHANGED <<attempt, rounds, pc, stage, key, retryState, poolVars, revoked, aborted,
                 fetches, responses>>

\* An interrupt, or the timer of runOrchestratedChatRun.
Abort ==
  /\ site # "ended" /\ ~aborted
  /\ aborted' = TRUE
  /\ UNCHANGED <<stepVars, pc, stage, key, retryState, poolVars, revoked, fetches, responses>>

CooldownEnds(k) ==
  /\ k \in cooled
  /\ cooled' = cooled \ {k}
  /\ UNCHANGED <<stepVars, pc, stage, key, retryState, cursor, revoked, aborted, fetches,
                 responses>>

\* The preprocessor may be switched off.
Init ==
  /\ site \in {"preprocessor", "planner"}
  /\ attempt = 1 /\ rounds = 0
  /\ spent = 0 /\ charged = 0
  /\ pc = "preflight" /\ stage = "first" /\ key = 1
  /\ retryState = FreshRetryState
  /\ cooled = {} /\ cursor = 0
  /\ revoked \in SUBSET Keys
  /\ aborted = FALSE
  /\ fetches = 0 /\ responses = 0

\* What the process does by itself; a provider owes no answer.
Continue == Preflight \/ Invoke \/ Parse \/ FetchAborted \/ RetryDue \/ Execute

Next ==
  \/ Continue
  \/ Respond
  \/ \E error \in Errors : FetchFails(error)
  \/ SkepticTimeout
  \/ Abort
  \/ \E k \in Keys : CooldownEnds(k)

Spec == Init /\ [][Next]_vars

(***************************************************************************)
(* The event loop runs what is ready, and the timer of the run fires while *)
(* the run has not ended.                                                  *)
(***************************************************************************)
FairSpec == Spec /\ WF_vars(Continue) /\ WF_vars(Abort)
------------------------------------------------------------------------------
(***************************************************************************)
(* Every provider preflight sees the spend of the earlier live steps and   *)
(* of its own first attempt (the comment on the usage chatRunner maps into *)
(* the run): whatever failed, was retried, rotated or substituted before,  *)
(* no response received so far is missing from what the preflight counts.  *)
(***************************************************************************)
PreflightSeesSpend ==
  pc \in {"preflight", "invoke", "fetching", "waiting"} /\ site # "ended" =>
    charged + spent = responses

(***************************************************************************)
(* The run never receives more responses than its budget allows, those of  *)
(* a call the skeptic abandoned included, and it never stores more: no     *)
(* sequence of retries, rotations, repair prompts and rounds of repair     *)
(* gets past the preflights (the ceiling of enforceMaxPerRunBudget).       *)
(***************************************************************************)
SpendWithinBudget ==
  /\ charged + spent <= maxModelCalls
  /\ responses <= maxModelCalls

(***************************************************************************)
(* The budget of a run holds, and holds because every preflight counts     *)
(* what was spent before it (enforceMaxPerRunBudget).                      *)
(***************************************************************************)
BudgetHolds == PreflightSeesSpend /\ SpendWithinBudget

(***************************************************************************)
(* One-shot retries: however often a step asks, its selection sends at     *)
(* most one request more for a rate limit, one for a rotated key and one   *)
(* for the fallback.                                                       *)
(***************************************************************************)
Calls == IF site = "repair" THEN rounds ELSE attempt

RetriesAreBounded == site \in Sites => fetches <= Calls + 3

(***************************************************************************)
(* The run's live steps come to an end even if no provider ever answers.   *)
(***************************************************************************)
TurnEnds == <>(site = "ended")
==============================================================================
