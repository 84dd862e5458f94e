CONSTANTS
  Key <- MCKey
  Inputs <- MCInputs
  MaxKey = 5
  MaxLen = 5
  AnyKey = 3
  AnyLen = 4
  Slack = 1
SPECIFICATION Spec
INVARIANTS TypeOK Sound PairsOffRepeats
PROPERTY ImplementsEquiJoin
