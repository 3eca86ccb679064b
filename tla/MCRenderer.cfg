CONSTANTS
  f1 = f1
  f2 = f2
  Black = Black
  NoFrame = NoFrame
  Frames <- MCFrames
  SizeOf <- MCSizeOf
  Chains <- MCChains
  PaneSizes <- MCPaneSizes
  Configs <- MCConfigs
  LutSets <- MCLutSets
  ParamNames <- MCParamNames
  Values <- MCValues
  Overrides <- MCOverrides
  LutSize <- MCLutSize
  Ticks <- MCTicks
  SettingsOf <- MCSettingsOf
  LutSettings <- MCLutSettings
  ClampToBorderSupported = FALSE
SPECIFICATION SampledSpec
INVARIANTS
  NoPassSamplesItsTarget
  TexturesAreAsDescribed
  PastIsKept
PROPERTIES
  FinalTargetIsAccountedFor
  ImplementsTemporalInputs
