------------------------- MODULE ProviderCallsProofs -------------------------
(***************************************************************************)
(* The budget of a run holds for every number of keys, every budget and    *)
(* every bound on healing: a call in flight has been counted before it was *)
(* sent, also when the skeptic no longer waits for it.                     *)
(***************************************************************************)
EXTENDS ProviderCalls, TLAPS

InFlight == pc \in {"invoke", "fetching", "waiting"}

SpendType ==
  /\ site \in Sites \cup {"execute", "ended"}
  /\ pc \in {"preflight", "invoke", "fetching", "waiting", "response", "idle"}
  /\ spent \in Nat /\ charged \in Nat /\ responses \in Nat

\* What the run counts is what was received; only a run that ended forgets.
SpendCounted ==
  /\ charged + spent <= responses
  /\ site # "ended" => charged + spent = responses
  /\ site = "execute" => spent = 0

\* The preprocessor has one attempt, so what it drops is nothing.
NothingDropped == site = "preprocessor" /\ pc # "response" => spent = 0

\* The call of a step is the one its preflight counted.
CallCounted ==
  /\ responses <= maxModelCalls
  /\ InFlight => responses + 1 <= maxModelCalls
  /\ pc \in {"preflight", "response"} => site \in Sites
  /\ InFlight => site \in Sites \cup {"ended"}

SpendInv == SpendType /\ SpendCounted /\ NothingDropped /\ CallCounted

\* Before the first call.
LEMMA SpendInit == Init => SpendInv
  BY ProviderCallsAssumption
  DEF Init, SpendInv, SpendType, SpendCounted, NothingDropped, CallCounted, InFlight, Sites

\* Going on to another step keeps the count, if nothing is forgotten on the way.
LEMMA GotoKeeps ==
  ASSUME SpendInv, NEW next \in Sites \cup {"execute", "ended"}, site # "ended",
         ChargeAndGoto(next) \/ (DropAndGoto(next) /\ (next = "ended" \/ spent = 0)),
         responses' = responses
  PROVE  SpendInv'
  BY ProviderCallsAssumption
  DEF SpendInv, SpendType, SpendCounted, NothingDropped, CallCounted, InFlight, Sites,
      ChargeAndGoto, DropAndGoto, Goto

\* A repair prompt is charged like any other call.
LEMMA RepairPromptKeeps ==
  ASSUME SpendInv, site \in Sites \ {"preprocessor"}, RepairPrompt, responses' = responses
  PROVE  SpendInv'
  BY ProviderCallsAssumption
  DEF SpendInv, SpendType, SpendCounted, NothingDropped, CallCounted, InFlight, Sites,
      RepairPrompt

\* Whatever a step makes of its call.
LEMMA StepKeeps ==
  ASSUME SpendInv, site \in Sites, NEW outcome \in Outcomes, StepWith(outcome),
         outcome \in {"denied", "failed"} => pc # "response",
         responses' = responses
  PROVE  SpendInv'
  <1>1. CASE site = "preprocessor"
    <2>1. runSLMPreprocessor(outcome)
      BY <1>1 DEF StepWith
    <2>2. \/ ChargeAndGoto("planner")
          \/ DropAndGoto("planner") /\ spent = 0
      BY <1>1, <2>1 DEF runSLMPreprocessor, Outcomes, SpendInv, NothingDropped
    <2> QED
      BY <1>1, <2>2, GotoKeeps DEF Sites
  <1>2. CASE site # "preprocessor"
    <2>1. \/ RepairPrompt
          \/ \E next \in {"skeptic", "execute", "ended"} : ChargeAndGoto(next)
          \/ DropAndGoto("ended")
      BY <1>2 DEF StepWith, Sites, Outcomes, runLivePlanner, runLiveSkeptic,
                  createLiveRepairAgent, runLiveSynthesizer, runLiveDirectAnswer
    <2>2. site # "ended"
      BY DEF Sites
    <2>3. CASE RepairPrompt
      BY <1>2, <2>3, RepairPromptKeeps
    <2>4. ASSUME NEW next \in {"skeptic", "execute", "ended"}, ChargeAndGoto(next)
          PROVE  SpendInv'
      BY <2>2, <2>4, GotoKeeps DEF Sites
    <2>5. CASE DropAndGoto("ended")
      BY <2>2, <2>5, GotoKeeps DEF Sites
    <2> QED
      BY <2>1, <2>3, <2>4, <2>5
  <1> QED
    BY <1>1, <1>2

\* callWithResilience throws to a step that waits, or to nobody.
LEMMA ThrowKeeps ==
  ASSUME SpendInv, InFlight, Throw, responses' = responses
  PROVE  SpendInv'
  <1>1. CASE site \in Sites /\ StepWith("failed")
    BY <1>1, StepKeeps DEF InFlight, Outcomes
  <1>2. CASE ~(site \in Sites /\ StepWith("failed"))
    BY <1>2, ProviderCallsAssumption
    DEF Throw, SpendInv, SpendType, SpendCounted, NothingDropped, CallCounted, InFlight,
        Sites, stepVars
  <1> QED
    BY <1>1, <1>2

\* The last resort sends the request again or throws.
LEMMA FallBackKeeps ==
  ASSUME SpendInv, pc = "fetching", NEW state, FallBackOrThrow(state), responses' = responses
  PROVE  SpendInv'
  <1>1. CASE Throw
    BY <1>1, ThrowKeeps DEF InFlight
  <1>2. CASE ~Throw
    BY <1>2 DEF FallBackOrThrow, SpendInv, SpendType, SpendCounted, NothingDropped,
                CallCounted, InFlight, stepVars
  <1> QED
    BY <1>1, <1>2

\* Every step of the run keeps the count.
LEMMA SpendStep == SpendInv /\ [Next]_vars => SpendInv'
  <1> SUFFICES ASSUME SpendInv, [Next]_vars
               PROVE  SpendInv'
    OBVIOUS
  <1> USE ProviderCallsAssumption
  <1>1. CASE Preflight
    <2>1. site \in Sites /\ pc = "preflight" /\ responses' = responses
      BY <1>1 DEF Preflight, SpendInv, CallCounted
    <2>2. CASE StepWith("denied")
      BY <2>1, <2>2, StepKeeps DEF Outcomes
    <2>3. CASE ~StepWith("denied")
      BY <1>1, <2>1, <2>3
      DEF Preflight, preflightAllows, SpendInv, SpendType, SpendCounted, NothingDropped,
          CallCounted, InFlight, Sites, stepVars
    <2> QED
      BY <2>2, <2>3
  <1>2. CASE Invoke
    <2>1. CASE Throw
      BY <1>2, <2>1, ThrowKeeps DEF Invoke, InFlight
    <2>2. CASE ~Throw
      BY <1>2, <2>2 DEF Invoke, SpendInv, SpendType, SpendCounted, NothingDropped,
                        CallCounted, InFlight, stepVars
    <2> QED
      BY <2>1, <2>2
  <1>3. CASE Parse
    <2>1. site \in Sites /\ responses' = responses
      BY <1>3 DEF Parse, SpendInv, CallCounted
    <2>2. PICK outcome \in {"valid", "invalid"} : StepWith(outcome)
      BY <1>3 DEF Parse
    <2> QED
      BY <2>1, <2>2, StepKeeps DEF Outcomes
  <1>4. CASE FetchAborted
    BY <1>4, ThrowKeeps DEF FetchAborted, InFlight
  <1>5. CASE RetryDue
    <2>1. CASE Throw
      BY <1>5, <2>1, ThrowKeeps DEF RetryDue, InFlight
    <2>2. CASE ~Throw
      BY <1>5, <2>2 DEF RetryDue, SpendInv, SpendType, SpendCounted, NothingDropped,
                        CallCounted, InFlight, stepVars
    <2> QED
      BY <2>1, <2>2
  <1>6. CASE Execute
    <2>1. PICK next \in {"synthesizer", "direct-answer", "repair", "ended"} : DropAndGoto(next)
      BY <1>6 DEF Execute
    <2>2. site = "execute" /\ spent = 0 /\ responses' = responses
      BY <1>6 DEF Execute, SpendInv, SpendCounted
    <2> QED
      BY <2>1, <2>2, GotoKeeps DEF Sites
  <1>7. CASE Respond
    BY <1>7 DEF Respond, SpendInv, SpendType, SpendCounted, NothingDropped, CallCounted,
                InFlight, Sites
  <1>8. ASSUME NEW error \in Errors, FetchFails(error)
        PROVE  SpendInv'
    <2>1. pc = "fetching" /\ responses' = responses
      BY <1>8 DEF FetchFails
    <2>2. ASSUME NEW state, FallBackOrThrow(state)
          PROVE  SpendInv'
      BY <2>1, <2>2, FallBackKeeps
    <2>3. CASE /\ pc' \in {"waiting", "invoke"}
               /\ UNCHANGED stepVars
      BY <2>1, <2>3 DEF SpendInv, SpendType, SpendCounted, NothingDropped, CallCounted,
                        InFlight, stepVars
    <2>4. CASE mayRotate(error) /\ Rotate
      BY <2>2, <2>3, <2>4 DEF Rotate
    <2> QED
      BY <1>8, <2>2, <2>3, <2>4 DEF FetchFails
  <1>9. CASE SkepticTimeout
    BY <1>9 DEF SkepticTimeout, SpendInv, SpendType, SpendCounted, NothingDropped,
                CallCounted, InFlight, Sites
  <1>10. CASE Abort \/ \E k \in Keys : CooldownEnds(k)
    BY <1>10 DEF Abort, CooldownEnds, SpendInv, SpendType, SpendCounted, NothingDropped,
                 CallCounted, InFlight, stepVars
  <1>11. CASE UNCHANGED vars
    BY <1>11 DEF vars, SpendInv, SpendType, SpendCounted, NothingDropped, CallCounted,
                 InFlight
  <1> QED
    BY <1>1, <1>2, <1>3, <1>4, <1>5, <1>6, <1>7, <1>8, <1>9, <1>10, <1>11
    DEF Next, Continue

\* The spend invariant holds in every reachable state.
LEMMA SpendInductive == Spec => []SpendInv
  BY SpendInit, SpendStep, PTL DEF Spec

(***************************************************************************)
(* The ceiling of enforceMaxPerRunBudget holds for the whole run, for      *)
(* every budget, number of keys and bound on healing.                      *)
(***************************************************************************)
THEOREM BudgetCorrect == Spec => []SpendWithinBudget
  <1>1. SpendInv => SpendWithinBudget
    BY ProviderCallsAssumption
    DEF SpendInv, SpendType, SpendCounted, CallCounted, SpendWithinBudget
  <1> QED
    BY <1>1, SpendInductive, PTL

(***************************************************************************)
(* Every preflight of a live step counts every response of the run so far. *)
(***************************************************************************)
THEOREM PreflightCorrect == Spec => []PreflightSeesSpend
  <1>1. SpendInv => PreflightSeesSpend
    BY DEF SpendInv, SpendCounted, PreflightSeesSpend
  <1> QED
    BY <1>1, SpendInductive, PTL

(***************************************************************************)
(* Together: the budget of a run holds however its steps fail, are retried *)
(* and repaired (enforceMaxPerRunBudget around every provider call).       *)
(***************************************************************************)
THEOREM BudgetAlwaysHolds == Spec => []BudgetHolds
  BY BudgetCorrect, PreflightCorrect, PTL DEF BudgetHolds
------------------------------------------------------------------------------
(***************************************************************************)
(* RetriesAreBounded.  Every request of a selection is the first of a call *)
(* or is paid for by a flag of the TurnRetryState that was set for it.     *)
(***************************************************************************)
Flag(set) == IF set THEN 1 ELSE 0

Flags(state) == Flag(state.retried429) + Flag(state.retriedAuth) + Flag(state.activatedFallback)

RetryStates == [retried429 : BOOLEAN, retriedAuth : BOOLEAN, activatedFallback : BOOLEAN]

RetryType ==
  /\ site \in Sites \cup {"execute", "ended"}
  /\ pc \in {"preflight", "invoke", "fetching", "waiting", "response", "idle"}
  /\ attempt \in Nat /\ rounds \in Nat /\ fetches \in Nat
  /\ retryState \in RetryStates

\* Repair starts from the execution, with nothing to go on from at first.
RoundsStart ==
  /\ site \in {"preprocessor", "planner", "skeptic"} => rounds = 0
  /\ pc \in {"preflight", "response"} => site \in Sites
  /\ site = "execute" => pc = "idle"
  /\ site = "execute" /\ rounds > 0 => fetches <= rounds + Flags(retryState)

\* A request about to be sent is paid for, and so are those that were sent.
RequestsPaid ==
  site \in Sites =>
    /\ pc # "idle"
    /\ pc \in {"preflight", "invoke", "waiting"} => fetches + 1 <= Calls + Flags(retryState)
    /\ pc \in {"fetching", "response"} => fetches <= Calls + Flags(retryState)

RetryInv == RetryType /\ RoundsStart /\ RequestsPaid

\* What a mark adds, and what the marks can come to.
LEMMA FlagFacts ==
  ASSUME NEW state \in RetryStates
  PROVE  /\ Flags(state) \in 0..3
         /\ state.activatedFallback \in BOOLEAN
         /\ markActivatedFallback(state) \in RetryStates
         /\ ~state.activatedFallback => Flags(markActivatedFallback(state)) = Flags(state) + 1
  <1>1. /\ state.retried429 \in BOOLEAN /\ state.retriedAuth \in BOOLEAN
        /\ state.activatedFallback \in BOOLEAN
    BY DEF RetryStates
  <1>2. /\ Flag(state.retried429) \in 0..1 /\ Flag(state.retriedAuth) \in 0..1
        /\ Flag(state.activatedFallback) \in 0..1
    BY DEF Flag
  <1>3. Flags(state) \in 0..3
    BY <1>1, <1>2 DEF Flags
  <1>4. /\ markActivatedFallback(state) \in RetryStates
        /\ markActivatedFallback(state).retried429 = state.retried429
        /\ markActivatedFallback(state).retriedAuth = state.retriedAuth
        /\ markActivatedFallback(state).activatedFallback = TRUE
    BY DEF RetryStates, markActivatedFallback
  <1>5. /\ Flag(markActivatedFallback(state).retried429) = Flag(state.retried429)
        /\ Flag(markActivatedFallback(state).retriedAuth) = Flag(state.retriedAuth)
        /\ Flag(markActivatedFallback(state).activatedFallback) = Flag(TRUE)
    BY <1>4, Zenon
  <1>6. Flag(TRUE) = 1 /\ (~state.activatedFallback => Flag(state.activatedFallback) = 0)
    BY DEF Flag
  <1>7. ASSUME ~state.activatedFallback
        PROVE  Flags(markActivatedFallback(state)) = Flags(state) + 1
    <2>1. Flags(markActivatedFallback(state))
            = Flag(state.retried429) + Flag(state.retriedAuth) + 1
      BY <1>5, <1>6, Zenon DEF Flags
    <2>2. Flags(state) = Flag(state.retried429) + Flag(state.retriedAuth) + 0
      BY <1>6, <1>7, Zenon DEF Flags
    <2> QED
      BY <1>2, <2>1, <2>2
  <1> QED
    BY <1>1, <1>3, <1>4, <1>7

\* Each mark sets one flag that was clear.
LEMMA MarkFacts ==
  ASSUME retryState \in RetryStates
  PROVE  /\ markRetried429 \in RetryStates
         /\ ~retryState.retried429 => Flags(markRetried429) = Flags(retryState) + 1
         /\ markRetriedAuth \in RetryStates
         /\ ~retryState.retriedAuth => Flags(markRetriedAuth) = Flags(retryState) + 1
  <1>1. /\ retryState.retried429 \in BOOLEAN /\ retryState.retriedAuth \in BOOLEAN
        /\ retryState.activatedFallback \in BOOLEAN
    BY DEF RetryStates
  <1>2. /\ Flag(retryState.retried429) \in 0..1 /\ Flag(retryState.retriedAuth) \in 0..1
        /\ Flag(retryState.activatedFallback) \in 0..1
    BY DEF Flag
  <1>3. /\ Flag(TRUE) = 1
        /\ ~retryState.retried429 => Flag(retryState.retried429) = 0
        /\ ~retryState.retriedAuth => Flag(retryState.retriedAuth) = 0
    BY DEF Flag
  <1>4. /\ markRetried429 \in RetryStates
        /\ markRetried429.retried429 = TRUE
        /\ markRetried429.retriedAuth = retryState.retriedAuth
        /\ markRetried429.activatedFallback = retryState.activatedFallback
    BY DEF RetryStates, markRetried429
  <1>5. /\ markRetriedAuth \in RetryStates
        /\ markRetriedAuth.retried429 = retryState.retried429
        /\ markRetriedAuth.retriedAuth = TRUE
        /\ markRetriedAuth.activatedFallback = retryState.activatedFallback
    BY DEF RetryStates, markRetriedAuth
  <1>6. /\ Flag(markRetried429.retried429) = Flag(TRUE)
        /\ Flag(markRetried429.retriedAuth) = Flag(retryState.retriedAuth)
        /\ Flag(markRetried429.activatedFallback) = Flag(retryState.activatedFallback)
        /\ Flag(markRetriedAuth.retried429) = Flag(retryState.retried429)
        /\ Flag(markRetriedAuth.retriedAuth) = Flag(TRUE)
        /\ Flag(markRetriedAuth.activatedFallback) = Flag(retryState.activatedFallback)
    BY <1>4, <1>5, Zenon
  <1> DEFINE a == Flag(retryState.retried429)
             b == Flag(retryState.retriedAuth)
             f == Flag(retryState.activatedFallback)
  <1>7. ASSUME ~retryState.retried429
        PROVE  Flags(markRetried429) = Flags(retryState) + 1
    <2>1. Flags(markRetried429) = 1 + b + f
      BY <1>3, <1>6, Zenon DEF Flags
    <2>2. Flags(retryState) = 0 + b + f
      BY <1>3, <1>7, Zenon DEF Flags
    <2> QED
      BY <1>2, <2>1, <2>2
  <1>8. ASSUME ~retryState.retriedAuth
        PROVE  Flags(markRetriedAuth) = Flags(retryState) + 1
    <2>1. Flags(markRetriedAuth) = a + 1 + f
      BY <1>3, <1>6, Zenon DEF Flags
    <2>2. Flags(retryState) = a + 0 + f
      BY <1>3, <1>8, Zenon DEF Flags
    <2> QED
      BY <1>2, <2>1, <2>2
  <1> QED
    BY <1>4, <1>5, <1>7, <1>8

\* A fresh retry state has no flag set.
LEMMA FreshFacts == FreshRetryState \in RetryStates /\ Flags(FreshRetryState) = 0
  BY DEF FreshRetryState, RetryStates, Flags, Flag

\* Before the first call.
LEMMA RetryInit == Init => RetryInv
  BY FreshFacts
  DEF Init, RetryInv, RetryType, RoundsStart, RequestsPaid, Calls, Sites

\* On to another step: repair only from the execution, execution only from
\* the review of the plan or from a repair.
LEMMA GotoKeepsRetries ==
  ASSUME RetryInv, NEW next \in Sites \cup {"execute", "ended"}, Goto(next),
         next = "repair" => site = "execute",
         next \in {"planner", "skeptic"} => rounds = 0,
         next # "preprocessor",
         next = "execute" => site \in {"skeptic", "repair"} /\ pc = "response"
  PROVE  RetryInv'
  <1> USE FreshFacts, FlagFacts DEF RetryInv, RetryType, RoundsStart, RequestsPaid, Calls
  <1>1. Flags(retryState) \in 0..3
    OBVIOUS
  <1>2. CASE next = "repair"
    BY <1>1, <1>2 DEF Goto, NewSelection, Sites
  <1>3. CASE next = "execute"
    BY <1>1, <1>3 DEF Goto, NewSelection, Sites
  <1>4. CASE next \notin {"repair", "execute"}
    BY <1>1, <1>4 DEF Goto, NewSelection, Sites
  <1> QED
    BY <1>2, <1>3, <1>4

\* A repair prompt is one more call that the selection was asked for.
LEMMA RepairPromptKeepsRetries ==
  ASSUME RetryInv, site \in Sites \ {"repair"}, pc = "response", RepairPrompt
  PROVE  RetryInv'
  BY FlagFacts DEF RetryInv, RetryType, RoundsStart, RequestsPaid, Calls, RepairPrompt

\* Whatever a step makes of its call.
LEMMA StepKeepsRetries ==
  ASSUME RetryInv, site \in Sites, NEW outcome \in Outcomes, StepWith(outcome),
         outcome \in {"valid", "invalid"} => pc = "response"
  PROVE  RetryInv'
  <1>1. \/ RepairPrompt /\ site # "repair" /\ outcome = "invalid"
        \/ Goto("planner") /\ site = "preprocessor"
        \/ Goto("skeptic") /\ site = "planner"
        \/ Goto("execute") /\ site \in {"skeptic", "repair"} /\ outcome = "valid"
        \/ Goto("ended")
    BY DEF StepWith, Sites, Outcomes, runSLMPreprocessor, runLivePlanner, runLiveSkeptic,
           createLiveRepairAgent, runLiveSynthesizer, runLiveDirectAnswer, ChargeAndGoto,
           DropAndGoto
  <1>2. CASE RepairPrompt /\ site # "repair" /\ outcome = "invalid"
    BY <1>2, RepairPromptKeepsRetries
  <1>3. CASE Goto("planner") /\ site = "preprocessor"
    BY <1>3, GotoKeepsRetries DEF Sites, RetryInv, RoundsStart
  <1>4. CASE Goto("skeptic") /\ site = "planner"
    BY <1>4, GotoKeepsRetries DEF Sites, RetryInv, RoundsStart
  <1>5. CASE Goto("execute") /\ site \in {"skeptic", "repair"} /\ outcome = "valid"
    BY <1>5, GotoKeepsRetries DEF Sites
  <1>6. CASE Goto("ended")
    BY <1>6, GotoKeepsRetries DEF Sites
  <1> QED
    BY <1>1, <1>2, <1>3, <1>4, <1>5, <1>6

\* A call that throws sends nothing more.
LEMMA ThrowKeepsRetries ==
  ASSUME RetryInv, Throw
  PROVE  RetryInv'
  <1>1. CASE site \in Sites /\ StepWith("failed")
    BY <1>1, StepKeepsRetries DEF Outcomes
  <1>2. CASE ~(site \in Sites /\ StepWith("failed"))
    BY <1>2 DEF Throw, RetryInv, RetryType, RoundsStart, RequestsPaid, Sites, stepVars
  <1> QED
    BY <1>1, <1>2

\* Falling back sets the third flag, or throws.
LEMMA FallBackKeepsRetries ==
  ASSUME RetryInv, pc = "fetching", NEW state \in RetryStates, FallBackOrThrow(state),
         Flags(retryState) <= Flags(state)
  PROVE  RetryInv'
  <1>1. CASE Throw
    BY <1>1, ThrowKeepsRetries
  <1>2. CASE ~Throw
    <2>1. /\ retryState' = markActivatedFallback(state) /\ ~state.activatedFallback
          /\ pc' = "invoke" /\ site # "execute"
          /\ UNCHANGED <<site, attempt, rounds, fetches>>
      BY <1>2 DEF FallBackOrThrow, mayFallBack, stepVars, RetryInv, RoundsStart
    <2>2. /\ retryState' \in RetryStates /\ Flags(retryState') = Flags(state) + 1
          /\ Flags(state) \in 0..3 /\ Flags(retryState) \in 0..3
      BY <2>1, FlagFacts DEF RetryInv, RetryType
    <2> QED
      BY <2>1, <2>2 DEF RetryInv, RetryType, RoundsStart, RequestsPaid, Calls
  <1> QED
    BY <1>1, <1>2

\* A request is sent again with a flag set that was not.
LEMMA RetryKeepsRetries ==
  ASSUME RetryInv, pc = "fetching", pc' \in {"waiting", "invoke"},
         retryState' \in RetryStates, Flags(retryState') = Flags(retryState) + 1,
         UNCHANGED <<site, attempt, rounds, fetches>>
  PROVE  RetryInv'
  <1>1. Flags(retryState) \in 0..3
    BY FlagFacts DEF RetryInv, RetryType
  <1> QED
    BY <1>1 DEF RetryInv, RetryType, RoundsStart, RequestsPaid, Calls

\* Every step of the run keeps the account.
LEMMA RetryStep == RetryInv /\ [Next]_vars => RetryInv'
  <1> SUFFICES ASSUME RetryInv, [Next]_vars
               PROVE  RetryInv'
    OBVIOUS
  <1> DEFINE Kept == UNCHANGED <<site, attempt, rounds, fetches, retryState>>
  <1>0. Flags(retryState) \in 0..3
    BY FlagFacts DEF RetryInv, RetryType
  <1>1. CASE Preflight
    <2>1. CASE site \in Sites /\ StepWith("denied")
      BY <2>1, StepKeepsRetries DEF Outcomes
    <2>2. CASE Kept /\ pc = "preflight" /\ pc' = "invoke"
      BY <2>2 DEF RetryInv, RetryType, RoundsStart, RequestsPaid, Calls
    <2>3. site \in Sites /\ pc = "preflight"
      BY <1>1 DEF Preflight, RetryInv, RoundsStart
    <2> QED
      BY <1>1, <2>1, <2>2, <2>3 DEF Preflight, stepVars
  <1>2. CASE Invoke
    <2>1. CASE Throw
      BY <2>1, ThrowKeepsRetries
    <2>2. CASE ~Throw
      BY <1>0, <1>2, <2>2 DEF Invoke, RetryInv, RetryType, RoundsStart, RequestsPaid, Calls, stepVars
    <2> QED
      BY <2>1, <2>2
  <1>3. CASE Parse
    BY <1>3, StepKeepsRetries DEF Parse, Outcomes, RetryInv, RoundsStart
  <1>4. CASE FetchAborted
    BY <1>4, ThrowKeepsRetries DEF FetchAborted
  <1>5. CASE RetryDue
    <2>1. CASE Throw
      BY <2>1, ThrowKeepsRetries
    <2>2. CASE ~Throw
      BY <1>5, <2>2 DEF RetryDue, RetryInv, RetryType, RoundsStart, RequestsPaid, Calls, stepVars
    <2> QED
      BY <2>1, <2>2
  <1>6. CASE Execute
    <2>1. PICK next \in {"synthesizer", "direct-answer", "repair", "ended"} : Goto(next)
      BY <1>6 DEF Execute, DropAndGoto
    <2> QED
      BY <1>6, <2>1, GotoKeepsRetries DEF Execute, Sites
  <1>7. CASE Respond
    BY <1>7 DEF Respond, RetryInv, RetryType, RoundsStart, RequestsPaid, Calls, Sites
  <1>8. ASSUME NEW error \in Errors, FetchFails(error)
        PROVE  RetryInv'
    <2>1. pc = "fetching" /\ retryState \in RetryStates
      BY <1>8 DEF FetchFails, RetryInv, RetryType
    <2>2. CASE mayRetry429(error) /\ retryState' = markRetried429 /\ pc' = "waiting"
               /\ UNCHANGED <<stepVars, fetches>>
      BY <2>1, <2>2, MarkFacts, RetryKeepsRetries DEF mayRetry429, stepVars
    <2>3. CASE mayRotate(error) /\ Rotate
      <3>1. /\ markRetriedAuth \in RetryStates
            /\ Flags(markRetriedAuth) = Flags(retryState) + 1
        BY <2>1, <2>3, MarkFacts DEF mayRotate
      <3>2. \/ FallBackOrThrow(markRetriedAuth)
            \/ /\ retryState' = markRetriedAuth /\ pc' = "invoke"
               /\ UNCHANGED <<stepVars, fetches>>
        BY <2>3 DEF Rotate
      <3>3. Flags(retryState) <= Flags(markRetriedAuth)
        BY <1>0, <3>1
      <3> QED
        BY <2>1, <3>1, <3>2, <3>3, FallBackKeepsRetries, RetryKeepsRetries DEF stepVars
    <2>4. CASE FallBackOrThrow(retryState)
      BY <1>0, <2>1, <2>4, FallBackKeepsRetries
    <2> QED
      BY <1>8, <2>2, <2>3, <2>4 DEF FetchFails
  <1>9. CASE SkepticTimeout
    BY <1>9 DEF SkepticTimeout, RetryInv, RetryType, RoundsStart, RequestsPaid, Sites
  <1>10. CASE Abort \/ \E k \in Keys : CooldownEnds(k)
    BY <1>10 DEF Abort, CooldownEnds, RetryInv, RetryType, RoundsStart, RequestsPaid, Calls, stepVars
  <1>11. CASE UNCHANGED vars
    BY <1>11 DEF vars, RetryInv, RetryType, RoundsStart, RequestsPaid, Calls
  <1> QED
    BY <1>1, <1>2, <1>3, <1>4, <1>5, <1>6, <1>7, <1>8, <1>9, <1>10, <1>11
    DEF Next, Continue

(***************************************************************************)
(* The selection of a step sends at most three requests more than it was   *)
(* asked for: the TurnRetryState bounds the recoveries of callWith-        *)
(* Resilience for every number of keys and rounds of repair.               *)
(***************************************************************************)
THEOREM RetriesCorrect == Spec => []RetriesAreBounded
  <1>1. RetryInv => RetriesAreBounded
    BY FlagFacts DEF RetryInv, RetryType, RequestsPaid, RetriesAreBounded, Calls, Sites
  <1> QED
    BY <1>1, RetryInit, RetryStep, PTL DEF Spec
==============================================================================
