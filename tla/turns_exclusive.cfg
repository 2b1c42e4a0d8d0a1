SPECIFICATION TurnsSpec
CONSTANTS
  Goal = Goal
  MaxMsgs = 1
  MaxOps = 1
  MaxGoals = 1
INVARIANTS Exclusive
CHECK_DEADLOCK FALSE
