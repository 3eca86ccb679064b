SPECIFICATION PipelineSpec
CONSTANTS
  MAX_INCLUDE_DEPTH = 2
  Sources <- MCSources
  Disks <- MCDisks
  Overrides <- MCOverrides
  Settings <- MCSettings
  HasSpirvOpt = {TRUE, FALSE}
  Hash <- MCHash
  MaxRequests = 2
  MaxFrames = 2
  FrameCountMod = 2
CHECK_DEADLOCK FALSE
INVARIANTS
  RewrittenStagesAreBound
  AnswersAreOfTheCurrentText
PROPERTIES
  MembersHoldTheirValues
