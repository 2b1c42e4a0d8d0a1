CONSTANTS
  Proc = {p1, p2, p3}
  None = None
CHECK_DEADLOCK FALSE
SPECIFICATION AttachSpec
INVARIANT OneOwner
