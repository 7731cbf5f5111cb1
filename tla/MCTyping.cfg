CONSTANTS
  W8 = 4
  W32 = 6
  PlusZero = 0
  MinusZero = 2048
  One = 2
  IntMaxAsDouble = 62
  Scales = {1, 4}
  FirstTemp = 10
  Sources <- MCSources
  Shapes <- MCShapes
SPECIFICATION Spec
INVARIANTS
  TypeOK
  AssertionsHold
  RejectsExactly
  TypesFollowC
  OperationsAreSelected
  ComputesTheValue
CHECK_DEADLOCK FALSE
