SPECIFICATION Spec
CONSTANTS
  MAX_PASSES = 4
  SanitizeStem <- MCSanitizeStem
  Disks <- MCDisks
  Presets <- MCPresets
  Dests <- MCDests
  NewPasses <- MCNewPasses
  NewSettings <- MCNewSettings
  MaxEdits = 1
  MaxExports = 2
CHECK_DEADLOCK FALSE
INVARIANTS
  BundleRoundTrips
  SomeBundleSurvives
  ReferencesAreExplained
  PreviewTakesThePreset
