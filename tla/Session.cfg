CONSTANTS
  Paths = {p, q}
  NoPath = NoPath
  Slots = {s1, s2}
  NoSlot = NoSlot
  MaxVersions = 2
  MaxWrites = 3
  MaxCalls = 2
SYMMETRY SessionSymmetry
SPECIFICATION Spec
CHECK_DEADLOCK FALSE
INVARIANTS
  EveryAskerIsOnScreen
  RecoveryIsRight
  VetoFollowsTheStore
