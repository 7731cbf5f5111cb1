SPECIFICATION LSpec
CONSTANTS
  Nodes = {"loop", "switch", "if", "ifelse", "break", "continue", "case", "default",
           "goto", "label", "logical", "return", "prototype"}
  Tests = {"before", "after", "none"}
  Controls = {"int", "long"}
  Name = {a, b}
  Value = {1, 5}
  IntMax = 1
  IntModulus = 4
  NestingLimit = 3
  MaxNodes = 4
  MaxFunctions = 2
SYMMETRY NameSymmetry
CONSTRAINT Bound
INVARIANTS
  LoopsDiagnosedExactly
  LowerTypeOK
  CodeFollowsTheSource
  GotosDiagnosedExactly
  LabelsDefinedOnce
CHECK_DEADLOCK FALSE
