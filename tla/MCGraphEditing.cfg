SPECIFICATION Spec
CONSTANTS
  NodeIds = {1, 2, 3, 4, 5, 6}
  p1 = p1
  p2 = p2
  p3 = p3
  PassIds = {p1, p2, p3}
  None = None
  Projects <- MCProjects
  MaxEdits = 2
  MaxPath = 2
CHECK_DEADLOCK FALSE
INVARIANTS
  ReferencesResolve
PROPERTIES
  RegroupingKeepsTheMeaning
  EditsKeepTheRest
  PassReferencesFollow
