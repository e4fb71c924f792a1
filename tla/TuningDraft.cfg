\* Two drafts, two requests at a time and three in all, one stall, one crash.
SPECIFICATION FairSpec
CONSTANTS
  Drafts = {d1, d2}
  Requests = {r1, r2}
  Bodies <- MCBodies
  Nobody = Nobody
  Initially = Initially
  NoFunnel = NoFunnel
  FirstFunnels = {NoFunnel}
  MaxStalls = 1
  MaxOpened = 3
  MaxCrashes = 1
INVARIANTS TypeOK OneActivated ActivatedIsLive
PROPERTIES RollbackRestores NeverBricked RequestsEnd
CHECK_DEADLOCK FALSE
