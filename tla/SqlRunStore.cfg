\* The same callers and phases as RunStateMachine.cfg, over the SQL store.
SPECIFICATION SqlSpec
CONSTANTS
  Callers = {c1, c2}
  Targets = {"TRIAGE", "NEEDS_DECISION", "EXECUTING", "FAILED"}
  maxTransitionRetries = 1
  MaxTransitions = 3
  MaxUsage = 1
INVARIANTS ExactUntilOverlap NothingInvented
CHECK_DEADLOCK FALSE
