\* A provider with two keys and a fallback; the budget runs out before the last
\* steps of a run that needs repair prompts.
SPECIFICATION FairSpec
CONSTANTS
  NumKeys = 2
  HasFallback = TRUE
  maxModelCalls = 7
  maxHealingAttempts = 3
INVARIANTS BudgetHolds RetriesAreBounded
PROPERTIES TurnEnds
CHECK_DEADLOCK FALSE
