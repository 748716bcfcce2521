\* One run of a conversation, with the clients that interrupt and steer it.
SPECIFICATION FairSpec
CONSTANTS
  Runs = {r1}
  Interrupts = {i1}
  Steers = {s1, s2}
  MAX_STEER_QUEUE_SIZE = 1
  OutliveTTL = TRUE
  MayTimeOut = {r1}
  MayThrow = {r1}
  maxHealingAttempts = 2
  maxIterations = 40
INVARIANTS WalkSettlesRun AnswerAgreesWithRun
PROPERTIES InterruptStopsRun EveryRunEnds
CHECK_DEADLOCK FALSE
