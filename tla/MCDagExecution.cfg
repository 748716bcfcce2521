SPECIFICATION FairSpec
CONSTANTS
  Jobs <- MCJobs
  RegisteredTools <- MCTools
  MaxHealingAttempts = 3
  MaxToolCalls = 3
  MaxIterations = 2
INVARIANTS ExecutionFollowsPlan ValidatedMeansDone
PROPERTIES NothingAfterAbort NoEffectAfterDenial JobEnds
CHECK_DEADLOCK FALSE
