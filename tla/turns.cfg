SPECIFICATION TurnsSpec
CONSTANTS
  Goal = Goal
  MaxMsgs = 2
  MaxOps = 2
  MaxGoals = 1
INVARIANTS
  OneAtTheContext
  MessagesKept
PROPERTIES
  FencesLift
CHECK_DEADLOCK FALSE
