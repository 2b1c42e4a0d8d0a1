SPECIFICATION TurnsSpec
CONSTANTS
  Goal = Goal
  MaxMsgs = 1
  MaxOps = 0
  MaxGoals = 2
INVARIANTS MessagesKept
CHECK_DEADLOCK FALSE
