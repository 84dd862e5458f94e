CONSTANTS
  Obj = {s, t}
  Value = {u, v}
  Key <- MCKey
  Columns <- MCColumns
  MaxKey = 2
  MaxBuilt = 1
  MaxLen = 3
  MayThrow = TRUE
SYMMETRY Swaps
SPECIFICATION Spec
INVARIANTS TypeOK Aligned
PROPERTY ImplementsSeries
