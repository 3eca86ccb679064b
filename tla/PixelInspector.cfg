\* Zero sizes, images larger than the output and than the pane, bars of odd
\* and even width, sizes that round up and down.
CONSTANTS
  Dims = {0, 1, 3, 5}
  PaneDims = {0, 3, 4, 7}
  SrcDims = {1, 2, 6}
  MaxPending = 1
SPECIFICATION InspectorSpec
INVARIANTS
  PlacementIsRight
  ProbesAreRight
