\* The workers are cancelled while a manager is being stopped.
CONSTANTS
  boot = boot  docs = docs  files = files  t0 = t0  t1 = t1  t2 = t2
  Servers = {boot, docs, files}
  Tools = {t0, t1, t2}
  NoServer = NoServer
  Specs = {x, y}
  NoSpec = NoSpec
  Boot = {boot}
  BootOwner <- MCBootOwner
  Offers <- MCOffers
  MaxCalls = 3
  MaxFailures = 1
  Suspends = {"wait", "discover", "stop"}
CHECK_DEADLOCK FALSE
SPECIFICATION LiveSpec
SYMMETRY MCSymmetry
INVARIANTS ClosedClean
