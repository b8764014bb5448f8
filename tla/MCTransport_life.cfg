SPECIFICATION FairSpec
CONSTANTS
  r = r  tB = tB  u = u  w = w  a = a  b = b  d1 = d1  d2 = d2  s0 = s0  s1 = s1  s2 = s2  x0 = x0  x1 = x1
  Null = Null
  Builds = {"sock", "mpi"}
  Size <- TheSize
  Roots <- TheRoots
  Tasks <- TheTasks
  Home <- TheHome
  Program <- TheProgram
  Msgs <- TheMsgs
  To <- TheTo
  Confirmed = {a, b, d1, d2}
  Spawns <- TheSpawns
  Shutdowns = {s0, s1, s2, x0, x1}
INVARIANTS ConnectionsSound DrainFindsAllCounted
PROPERTY EveryProcessEnds
