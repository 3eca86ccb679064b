CONSTANTS
  still = still
  sweep = sweep
  NoClip = NoClip
  Waiting = Waiting
  NotReported = NotReported
  Clips <- MCClips
  LengthOf <- MCLengthOf
  Rates <- MCRates
  Depth = 2
  MaxSends = 6
  MaxInFlight = 1
SPECIFICATION Spec
INVARIANTS
  PastFollowsTheSource
  PanelFollowsTheEngine
PROPERTIES
  PlaybackIsPaced
  PlayingMoves
