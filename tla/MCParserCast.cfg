CONSTANT Languages <- MCCasts
SPECIFICATION Spec
INVARIANT CastsLeaveAssignments
CHECK_DEADLOCK FALSE
