SPECIFICATION Spec
CONSTANTS
  Ids = {2, 3, 5}
  Types <- MCTypes
  SizeLimit = 3
  MaxMentions = 4
INVARIANTS
  TypeOK
  EachIdItsOwnBytes
  InsideTheFrame
  OperandsAligned
  AssertionsHold
CHECK_DEADLOCK FALSE
