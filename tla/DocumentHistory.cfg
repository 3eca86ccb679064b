SPECIFICATION HistorySpec
CONSTANTS
  Values = {0, 1}
  HISTORY_LIMIT = 3
INVARIANTS
  StacksShareTheLimit
  EditsAreAccountedFor
PROPERTIES
  ImplementsTimeline
