CONSTANT Languages <- MCLanguages
SPECIFICATION Spec
INVARIANTS
  FollowsTheGrammar
  RejectsTheRest
CHECK_DEADLOCK FALSE
