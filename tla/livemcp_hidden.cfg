\* The server of the boot has no tool anybody can see.
CONSTANTS
  boot = boot  docs = docs  files = files  t0 = t0  t1 = t1  t2 = t2
  Servers = {boot, docs, files}
  Tools = {t0, t1, t2}
  NoServer = NoServer
  Specs = {x, y}
  NoSpec = NoSpec
  Boot = {boot}
  BootOwner <- MCHidden
  Offers <- MCOffers
  MaxCalls = 3
  MaxFailures = 1
  Suspends = {"wait", "discover"}
CHECK_DEADLOCK FALSE
SPECIFICATION LiveSpec
SYMMETRY MCSymmetry
INVARIANTS BootConnectedOnce
