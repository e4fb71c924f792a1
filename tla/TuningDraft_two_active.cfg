\* Two drafts, two requests, and nothing that dies.
SPECIFICATION FairSpec
CONSTANTS
  Drafts = {d1, d2}
  Requests = {r1, r2}
  Bodies <- MCBodies
  Nobody = Nobody
  Initially = Initially
  NoFunnel = NoFunnel
  FirstFunnels = {NoFunnel}
  MaxStalls = 1
  MaxOpened = 2
  MaxCrashes = 0
INVARIANT SingleActive
CHECK_DEADLOCK FALSE
