\* Two bots and a handoff neither of them has claimed.
CONSTANTS
  Actors <- MCTwoBots
  DefaultActor <- MCAnonymous
  Nobody = Nobody
  NoLease = NoLease
  RawTtls <- MCRawTtls
  NoTtl = NoTtl
  DefaultTtl = 1
  MinTtl = 1
  MaxTtl = 2
  MaxEpoch = 3
  MaxHandoffs = 2
  Unsure = Unsure
  MaxFaults = 0
SPECIFICATION Spec
PROPERTY BotsNeverFight
