SPECIFICATION TurnsSpec
CONSTANTS
  Goal = Goal
  MaxMsgs = 2
  MaxOps = 0
  MaxGoals = 1
PROPERTIES SteersKeepTurn
CHECK_DEADLOCK FALSE
