SPECIFICATION Spec
CONSTANTS
  MaxTurns = 4
  MaxRestores = 3
  MaxKills = 2
  MaxFaults = 1
INVARIANTS
  ConversationAsTold
  TurnsAfterRecovery
  RestorePoints
\* A session that cannot be opened again stops; so does one at the bounds.
CHECK_DEADLOCK FALSE
