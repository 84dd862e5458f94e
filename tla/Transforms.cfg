CONSTANTS
  Key <- MCKey
  Sources <- MCSources
  MaxKey = 4
  MaxLen = 4
  AnyKey = 3
  AnyLen = 3
  Spans = {0, 1, 2}
  MaxOps = 3
  Sizes = {0, 1, 2, 3, 4, 5, 6, 7}
  Windows = {0, 1, 2, 3, 4, 5, 6, 7, 8, 9}
SPECIFICATION MCSpec
CHECK_DEADLOCK FALSE
INVARIANTS TypeOK NoLookAhead ShiftsAddUp BetweenIsFilter LookupsAgree RollingTypeOK
PROPERTY ImplementsSlidingWindow
