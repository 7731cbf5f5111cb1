SPECIFICATION LinkSpec
CONSTANTS
  Name = {x, f}
  Variables = {x}
  Functions = {f}
  NoName = NoName
  Inits = {"none"}
  MaxId = 3
  MaxDepth = 4
  Type = {int}
  MaxNodes = 5
INVARIANTS
  UsagesMeetTheirVariable
CHECK_DEADLOCK FALSE
