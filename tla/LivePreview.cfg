CONSTANTS
  MaxStarts = 1
  MaxVersions = 3
  MaxInFlight = 1
SPECIFICATION Spec
CHECK_DEADLOCK FALSE
PROPERTIES
  OnlyTheLatestWins
  CompilingEnds
  PreviewCatchesUp
