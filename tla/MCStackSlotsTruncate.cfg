SPECIFICATION Spec
CONSTANTS
  Ids = {2, 3}
  Types <- MCTypes
  SizeLimit = 3
  MaxMentions = 3
INVARIANTS
  TruncatedSourceKeepsItsBytes
CHECK_DEADLOCK FALSE
