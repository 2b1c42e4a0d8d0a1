\* A holder that is killed leaves a marker younger than StaleAfter to the others.
CONSTANTS
  Proc = {p1, p2, p3}
  None = None
  StaleAfter = 2
  Timeout = 1
  MaxHold = 2
  MaxOps = 1
SPECIFICATION LockSpec
PROPERTY NoLostUpdate
