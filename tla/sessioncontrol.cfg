CONSTANTS
  Actors <- MCActors
  DefaultActor <- MCAnonymous
  Nobody = Nobody
  NoLease = NoLease
  RawTtls <- MCRawTtls
  NoTtl = NoTtl
  DefaultTtl = 2
  MinTtl = 1
  MaxTtl = 2
  MaxEpoch = 3
  MaxHandoffs = 2
  Unsure = Unsure
  MaxFaults = 1
SPECIFICATION FairSpec
INVARIANT TrailAccounts
PROPERTIES ImplementsPen SeizureRespectsRank HandoffOneShot VanishedHolderFrees
