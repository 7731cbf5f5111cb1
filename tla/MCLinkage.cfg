SPECIFICATION LinkSpec
CONSTANTS
  Name = {x, f}
  Variables = {x}
  Functions = {x, f}
  NoName = NoName
  Inits = {"none", "constant", "expression"}
  MaxId = 3
  MaxDepth = 4
  Type = {int, long}
  MaxNodes = 4
CONSTRAINT Bound
INVARIANTS
  LinkTypeOK
  SharedObjectsMerged
  ConflictsRefusedExactly
  UsagesNamedAsDeclared
  LabelsDistinct
  InitializersWhereTheyRun
CHECK_DEADLOCK FALSE
