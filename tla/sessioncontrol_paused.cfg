\* Two bots, one person: who may hold the pen while the session is paused.
CONSTANTS
  Actors <- MCTwoBots
  DefaultActor <- MCAnonymous
  Nobody = Nobody
  NoLease = NoLease
  RawTtls <- MCRawTtls
  NoTtl = NoTtl
  DefaultTtl = 1
  MinTtl = 1
  MaxTtl = 2
  MaxEpoch = 3
  MaxHandoffs = 2
  Unsure = Unsure
  MaxFaults = 0
SPECIFICATION Spec
INVARIANT NobodyHoldsWhilePaused
