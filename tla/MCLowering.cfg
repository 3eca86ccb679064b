SPECIFICATION Spec
CONSTANTS
  Graphs <- MCGraphs
  Contexts <- MCContexts
  SanitizeIdent <- MCSanitizeIdent
  NameOf <- MCNameOf
CHECK_DEADLOCK FALSE
INVARIANTS
  LoweringIsSound
  EmittedCodeCompiles
PROPERTIES
  EveryGraphIsAnswered
