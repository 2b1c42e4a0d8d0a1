\* A keyed submit and a keyed control operation: each can push the other out of
\* the ring.  The session may stop for good: nobody owes an operation.
CONSTANTS
  k1 = k1
  k2 = k2
  Keys = {k1, k2}
  KindOf <- MCKindOf
  NoKey = NoKey
  RingCap = 1
  SteerCap = 1
  MaxSends = 3
  QueueCap = 2
  MaxTurns = 2
  MaxEvents = 1
  MaxAsks = 1
  MaxGrants = 1
  MaxStarts = 2
CHECK_DEADLOCK FALSE
SPECIFICATION FairSpec
PROPERTIES ActedOnce ParkHolds Exits
