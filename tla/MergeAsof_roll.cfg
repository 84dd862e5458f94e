CONSTANTS
  Key <- MCKey
  Inputs <- MCInputs
  MaxKey = 3
  MaxLen = 3
  AnyKey = 1
  AnyLen = 1
  Slack = 1
  Unit = 1
  Duration = 1
  MaxRows = 4
SPECIFICATION FairSpec
PROPERTY RollsForward
