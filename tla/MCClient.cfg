SPECIFICATION MCSpec
CONSTANTS
  None = None
  Nothing = Nothing
  Conversations = {1, 2}
  Queries = {"", "a", "b"}
  Sessions <- MCSessions
  EventsPerRun = 1
  MaxFinds = 2
  Visits <- MCVisits
  Slots = {1, 2}
INVARIANTS ShownBelongsToOpen PanelsAgree
PROPERTIES SendSettles
CHECK_DEADLOCK FALSE
