\* Three processes: one to die in the section, two to contend for its marker.
CONSTANTS
  Proc = {p1, p2, p3}
  None = None
  StaleAfter = 2
  Timeout = 1
  MaxHold = 2
  MaxOps = 1
SPECIFICATION FairLockSpec
INVARIANTS Exclusion
PROPERTIES NoLostUpdateWhenLocked NeverWedged
