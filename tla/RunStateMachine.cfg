\* Two callers, one retry, and phases enough for a caller to lose more races
\* than that: CHAT_RECEIVED, TRIAGE, NEEDS_DECISION, EXECUTING, and FAILED
\* from each of the last three.
SPECIFICATION FairSpec
CONSTANTS
  Callers = {c1, c2}
  Targets = {"TRIAGE", "NEEDS_DECISION", "EXECUTING", "FAILED"}
  maxTransitionRetries = 1
  MaxTransitions = 3
  MaxUsage = 1
INVARIANTS RunIsConsistent TruthfulOutcome
PROPERTIES ImplementsLifecycle CallsReturn
CHECK_DEADLOCK FALSE
