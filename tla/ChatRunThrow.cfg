\* A run whose compilation may throw, and nobody who interrupts or steers it.
SPECIFICATION Spec
CONSTANTS
  Runs = {r1}
  Interrupts = {}
  Steers = {}
  MAX_STEER_QUEUE_SIZE = 1
  OutliveTTL = FALSE
  MayTimeOut = {}
  MayThrow = {r1}
  maxHealingAttempts = 2
  maxIterations = 40
INVARIANTS FailureIsStored
CHECK_DEADLOCK FALSE
