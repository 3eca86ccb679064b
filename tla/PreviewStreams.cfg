CONSTANTS
  MaxStarts = 2
  MaxVersions = 1
  MaxInFlight = 1
SPECIFICATION Spec
CHECK_DEADLOCK FALSE
INVARIANTS
  BackendFollowsTheWebview
PROPERTIES
  ShowsTheCurrentStream
  SupersededThreadsEnd
