CONSTANTS
  Key <- MCKey
  Inputs <- MCInputs
  MaxKey = 5
  MaxLen = 5
  AnyKey = 3
  AnyLen = 2
  Slack = 1
SPECIFICATION FairSpec
INVARIANTS TypeOK MergedSoFar ReturnsIffEndTogether
PROPERTY Stops
