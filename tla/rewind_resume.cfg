SPECIFICATION Spec
CONSTANTS
  MaxTurns = 2
  MaxRestores = 1
  MaxKills = 2
  MaxFaults = 0
INVARIANT Resumes
CHECK_DEADLOCK FALSE
