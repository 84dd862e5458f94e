CONSTANTS
  Key <- MCKey
  Inputs <- MCInputs
  MaxKey = 5
  MaxLen = 5
  AnyKey = 3
  AnyLen = 3
  Slack = 2
SPECIFICATION FairSpec
INVARIANTS TypeOK EveryLeftRowKept OverrunIsExact RowsPerLeftRow
PROPERTY Stops
