SPECIFICATION Spec
CONSTANTS
  Name = {x, y}
  NoName = NoName
  MaxId = 3
  MaxDepth = 4
SYMMETRY NameSymmetry
INVARIANTS
  TypeOK
  IdsNeverReused
  SharedIdIsOneObject
  NodesKeepTheirName
  DelimitersMatchScopes
  BaseIdIsFresh
PROPERTIES
  ImplementsLexicalScope
CHECK_DEADLOCK FALSE
