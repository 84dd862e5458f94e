CONSTANTS
  Key <- MCKey
  Inputs <- MCInputs
  MaxKey = 3
  MaxLen = 3
  AnyKey = 1
  AnyLen = 1
  Slack = 1
SPECIFICATION Spec
INVARIANT OneRowPerLeftRow
