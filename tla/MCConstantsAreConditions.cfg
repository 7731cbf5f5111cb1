CONSTANTS
  W8 = 4
  W32 = 6
  PlusZero = 0
  MinusZero = 2048
  One = 2
  IntMaxAsDouble = 62
  Scales = {1, 3, 4, 40}
SPECIFICATION Spec
INVARIANT ConstantsAreConditions
CHECK_DEADLOCK FALSE
