CONSTANTS
  Obj = {s, t}
  u = u
  v = v
  Value = {u, v}
  Key <- MCKey
  Columns <- MCColumns
  MaxLen = 2
  MayThrow = TRUE
  Gone = Gone
  Reserved = {1, 2}
SYMMETRY Swaps
SPECIFICATION RefSpec
INVARIANTS HoldsItsRow HalvesTogether
PROPERTY ReserveProtects
