\* Three sub-goals with any ids and any dependencies between them.
SPECIFICATION FairSpec
CONSTANTS
  N = 3
  Ids = {1, 2, 3}
  maxConcurrency = 2
INVARIANTS WavesAreOrderly
PROPERTIES Returns
CHECK_DEADLOCK FALSE
