SPECIFICATION Spec
CONSTANTS
  CallReg = 1
  CallFp = 1
  ParameterLimit = 4
  MaxArgs = 3
  MaxDepth = 3
INVARIANTS
  TypeOK
  ParametersHoldArguments
  StackBalanced
  ResultsArrive
CHECK_DEADLOCK FALSE
