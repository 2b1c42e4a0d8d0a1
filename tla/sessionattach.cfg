\* A session may stay as it is for good: nobody owes an end.
CONSTANTS
  Proc = {p1, p2, p3}
  None = None
CHECK_DEADLOCK FALSE
SPECIFICATION FairAttachSpec
INVARIANTS OneOwnerUndisturbed AttachJoins NothingLeftBehind
PROPERTY NeverOccupied
