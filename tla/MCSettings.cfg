SPECIFICATION SettingsSpec
CONSTANTS
  None = None
  MaxSlots = 2
  Mixes <- MCMixes
  Ids <- MCIds
  MaxRequests <- MCRequests
  MaxMishaps = 1
INVARIANTS
  KeyBeforeRecord
  DeletedIsGone
  RefusedLeavesNoTrace
  ServedFromCurrent
CHECK_DEADLOCK FALSE
