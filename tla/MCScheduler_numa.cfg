SPECIFICATION FairSpec
CONSTANTS
  wa = wa  wb = wb  wc = wc  numa1 = numa1  numa2 = numa2
  main = main  child = child  last = last  barrier = barrier
  Workers = {wa, wb, wc}
  First = wa
  Numa = {numa1, numa2}
  NodeOf <- TwoNodes
  After <- Swap
  Tasks = {main, child, last}
  Barrier = barrier
  MainTask = main
  Program <- Steps
  Stealing = 3
  Patience = 1
  Builds = {"count", "index"}
  Desired <- AllOpen
  Orders <- Demands
  None = None
INVARIANTS WaitsForAllTasks BlockersSound
PROPERTY EveryThreadExits
