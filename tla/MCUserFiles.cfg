SPECIFICATION Spec
CONSTANTS
  ItemIds = {1, 3, 4}
  ProjectPaths = {"p", "q", "new"}
  MAX_RECENTS = 2
  Graphs <- MCGraphs
  OtherFiles <- MCOtherFiles
  Foreign <- MCForeign
  MaxPosts = 3
  MaxMishaps = 1
  MaxIds = 8
CHECK_DEADLOCK FALSE
INVARIANTS
  SessionFilesHold
PROPERTIES
  LibraryImplementsShelf
  CopiesAreNew
