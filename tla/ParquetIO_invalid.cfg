CONSTANTS
  Tick <- MCTick
  Value <- MCValue
  Null = Null
  Series <- MCSeries
  Tables <- MCTables
  Garbage <- MCGarbage
  MaxRows = 2
  Unit = 2
  Epsilon = 1
  NaN = NaN
  PosInf = PosInf
  NegInf = NegInf
  MaxCalls = 3
SPECIFICATION Spec
INVARIANT SavesOnlyWhatWasLoaded
