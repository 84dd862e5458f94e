CONSTANTS
  Key <- MCKey
  Inputs <- MCInputs
  MaxKey = 6
  MaxLen = 4
  AnyKey = 3
  AnyLen = 2
  Slack = 1
  Unit = 2
  Duration = 2
  MaxRows = 5
SPECIFICATION FairSpec
INVARIANTS TypeOK ReadsInside OneRowPerLeftRow DefaultMatches StaysNearWindow TextbookWhenCovered
PROPERTY ReturnsWhenCovered
