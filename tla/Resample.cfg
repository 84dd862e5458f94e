CONSTANTS
  Key <- MCKey
  Inputs <- MCInputs
  Groupings <- MCGroupings
  Unit = 2
  Duration = 3
  MaxKey = 9
  MaxLen = 3
  AnyKey = 3
  AnyLen = 3
SPECIFICATION Spec
INVARIANTS TypeOK RowsGrouped BarsCover
