\* Two streams on a run that waits for a decision and then fails, with side
\* events before, between and after.
SPECIFICATION FairSpec
CONSTANTS
  Clients = {k1, k2}
  Targets = {"TRIAGE", "NEEDS_DECISION", "FAILED"}
  MaxEvents = 3
INVARIANTS StreamIsFaithful StreamEndsCleanly
PROPERTIES OpenStreamsEnd
CHECK_DEADLOCK FALSE
